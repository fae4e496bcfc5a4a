# A verification of the CS426 labs: Raft, labrpc, VideoRecService, StringSet

TLA+ models of the concurrent and distributed code of this repository, TLC runs
that check them on small instances, and TLAPS proofs of every safety property a passing run
checks, for every number of servers, requests, calls and goroutines. Paths are relative to the repository's root; `raft.go:788` is line 788 of
the only file of that name, and `server_lib.go` alone is lab2's
`video_rec_service/server_lib/server_lib.go`. lab1 and lab2 share this code and the
services it calls line by line, except for how a request gets its connections; the map in
`PROJECT.json` names, for each definition, the lines of one of the two copies.

## 1. The system

The repository holds the four labs of a course on distributed systems, lab0 to lab3;
lab1 is an earlier version of lab2.

| component | where | state | operations |
|---|---|---|---|
| Raft peer | `lab3/raft/raft.go` | term, vote, log; commit and apply indices; role; nextIndex, matchIndex | `RequestVote`, `AppendEntries`, their callers' use of the replies, `Start`, timeouts, `GetState` |
| Raft role loop | `raft.go:763-839, 841-863` | the goroutine `startRoles`, `rf.mu`, two unbuffered channels | `startFollower`, `startCandidate`, `startLeader`, `kill` |
| Persister | `lab3/raft/persister.go` | the saved bytes of one peer | `SaveRaftState`, `ReadRaftState` |
| test configuration | `lab3/raft/config.go` | peers, saved state, what was applied, which peers are connected | `crash1`, `start1`, `connect`, `disconnect`, the appliers, `one`, `wait`, `checkOneLeader`, `checkTerms`, `checkNoLeader` |
| labrpc | `lab3/labrpc/labrpc.go` | ends, enabled, servers, connections | `Call`, `processReq`, `AddServer`, `DeleteServer`, `Enable` |
| labgob | `lab3/labgob/labgob.go` | a count of complaints | `Encode`, `Decode`, with warnings |
| VideoRecService | `lab1,lab2/video_rec_service/server_lib` | cache of trending videos, counters, connections | `GetTopVideos`, `GetStats`, the goroutine `UpdateTrendingVideos` |
| UserService, VideoService | `lab1,lab2/{user,video}_service/server_lib` | a random database that never changes, an injection config | `GetUser`, `GetVideo`, `GetTrendingVideos`, `SetInjectionConfig` |
| failure injector | `lab1,lab2/failure_injection` | the config | `MaybeInject` |
| connection pool | `server_lib.go:72-90, 156-170` | two slices of connections, two counters | round robin |
| StringSets | `lab0/string_set.go`, `lab0/striped_string_set.go` | a set under one lock, or stripes with a lock each, and a counter | `Add`, `Count`, `PredRange` |
| mock clients | `lab1,lab2/{user,video}_service/mock_client` | a service in process | the service's handlers |
| load generator | `lab1,lab2/cmd/loadgen` | five totals | `sendRequest`, `reportStats` |
| rest | rankers, logging, other commands, server mains | | pure functions and I/O |

How they interact. A Raft peer is a set of goroutines that share `rf.mu`: the role
loop, one handler for each incoming RPC, one goroutine for each outgoing call (which
takes the lock again when the reply is there), and the service calling `Start`. Peers
talk through labrpc, which loses, delays and reorders calls and replies. What a peer
commits goes out on `applyCh`, to the tester's applier, which stores it by index; the
tester crashes peers and starts them again from a copy of the Persister; a killed peer's
goroutines go on running. In lab2 each
call of `GetTopVideos` is a goroutine that calls two services, in batches, with one
retry; a failure falls back on a cache that another goroutine refreshes, holding the
cache's lock while it calls a service. The load generator calls it from a goroutine for
each request, with a deadline that also ends what the server does for it. The string sets of lab0 are shared by the
goroutines of their callers; nothing else in the repository uses them.

What is hard, and what makes each part correct:

* Raft: old, late and repeated messages; crashes between two `persist()` of one
  handler; two leaders at once; the Figure 8 commit rule. Correct means: one leader of
  a term, logs that match, delivered entries that stay, and one log as seen from
  above.
* labrpc and its tester: calls in flight while peers are disconnected, crashed and
  restarted. Correct means: what was acknowledged survives, replaced peers are cut off, no
  call waits for a dead server.
* The tests' checks: servers are read one after the other while they deliver, elect and
  restart. Correct means: a test fails only servers that broke a promise, and notices when
  one is broken.
* Role loop: every lock-free gap between a look at the role and the use of it; tokens
  on unbuffered channels that outlive the election they belong to. Correct means: the
  loop never stops an election from starting or ending, and gives the lock back.
* VideoRecService: handlers racing the refresh and each other's counters; half-finished
  fetches; waiting for a lock held across network calls. Correct means: answers are the
  best videos or an admitted fallback, the cache is never half-filled, every request is
  answered, the statistics agree with the answers, here and in the load generator's report.
* String sets: a counter read without a lock, stripes read at different times. Correct
  means: the answers are those of one set.

`PROJECT.json` lists every component and every hazard with its line.

## 2. Modules

| module | models | lines it stands for |
|---|---|---|
| `Raft` | all peers, the network between them, crashes | `raft.go`, `persister.go`, crash and restart of `config.go` |
| `ReplicatedLog` | what `Start` and `applyCh` promise together | the abstract specification of `Raft` |
| `RaftInvariants` | the strengthenings the proofs use | |
| `MCRaft` | symmetry, view and schedules for TLC | |
| `RoleLoop` | one peer's `startRoles` goroutine against everything that takes its lock | `raft.go:763-863` |
| `RoleLoopProofs` | the proofs about `RoleLoop` | |
| `RaftProofs`, `RaftLogProofs`, `RaftCommitProofs` | the proofs about `Raft`: types and elections; logs; what is committed, and `ReplicatedLog` | |
| `Services` | UserService, VideoService and the failure injector, as operators | `lab2/*_service/server_lib`, `failure_injection` |
| `VideoRec` (extends `Services`) | the handlers, the refresh, the statistics | `server_lib.go` of lab1 and lab2 |
| `LoadGen` (extends `VideoRec`) | the load generator as the client | `loadgen.go` of lab1 and lab2 |
| `MCVideoRec`, `MCLoadGen` | a small database, symmetry and view | |
| `ServiceProofs` | the proofs about `VideoRec` and `LoadGen` | |
| `Tester` (extends `ReplicatedLog`) | the checks of the Raft tests, over any servers | `config.go:103-494` |
| `MCTester` | symmetry, view and a constraint | |
| `TesterProofs` | the proofs about `Tester` | |
| `Labrpc` | the network, calls in flight, the tester's operations | `labrpc.go`, `config.go:41-290`, `Persister.Copy` |
| `Labgob` (extends `Labrpc`) | what encoding does to a reply | `labgob.go`, `ClientEnd.Call`, `Service.dispatch` |
| `LabrpcProofs` | the proofs about `Labrpc` and `Labgob` | |
| `StringSet` | both string sets | `string_set.go`, `striped_string_set.go` |
| `SetObject` | what the interface `StringSet` promises | the abstract specification of `StringSet` |
| `MCStringSet` | the ranges asked for | |
| `StringSetProofs` | the proofs about `StringSet` | |

### Raft

One action is one critical section of `rf.mu`; every call that changes state inside it
(`persist`, `convertTo...`, the apply loop) is part of it. An RPC is three actions:
the caller's section that builds the arguments (`StartVoting`, `SendAppendEntries`), the
handler (`RequestVote`, `RejectStaleVoteRequest`; `RejectStaleAppend`, `RejectAppend`,
`AcceptAppend`) and the caller's section that reads the reply (`StepDown`, `CountVote`,
`HandleAppendSuccess`, `HandleAppendConflict`). Messages stay in sets that never
shrink, so any of them may be lost, late, out of order, or handled twice.

* `rf.log[i-1]` is `log[s][i]`. The 0-based positions of the code are not otherwise kept.
* `startVoting` may run several times in one candidacy, because a stale token makes
  `startCandidate` return early and be entered again; each run has its own vote counter,
  which is why `votesGranted` is indexed by round.
* `ElectionTimeout` is guarded by the place of the role loop (`inStartLeader`) and not by
  the role: the code's two timeout branches do not look at the role. `RoleLoop` takes the
  same loop apart.
* `persisted` is the Persister. `Restart` is `crash1` and `start1`: memory starts afresh,
  the old incarnation's replies are cut off (`inst`). Crashes inside a handler, after its
  first or second `persist()`, are `CrashInRequestVote` and `CrashInAppendEntries`.
* `applied` is what the tester's applier has stored, by index; it outlives a restart, as
  `cfg.logs` does.
* `elected` and `started` are history, for the properties only.

A duplicate of a *request* that is still in the set is allowed though labrpc never
duplicates one: two heartbeats with the same arguments are two calls with equal
messages, so the model needs it for what the code really sends.

### RoleLoop

The same loop at the granularity of its lock-free points: after `startRoles` has read
the role, at the two selects, between a timer and the lock. `mu` is a variable because
`startCandidate` returns at line 788 without unlocking. `resetTimerCh` and
`voteSuccessCh` count the goroutines blocked in a send (the channels are unbuffered and
each reset starts a goroutine). The rest of the cluster is a bounded number of events:
votes that win, messages of a leader, messages of a newer term.

### Services and VideoRec

A call of a service is its outcome: `"served"`, `"error"`, or `"omitted"` (the injector
blocks and the caller's deadline ends the call; a retry with the same context then fails at
once: `expired`). The databases are constants, since nothing writes them after start-up.
A step of `VideoRec` is a call, or the code between two calls that touches shared state
once. The counter of active requests is the one place where a statement is two steps:
`numActiveRequests -= 1` loads (`UpdateStats`) and stores (`Return`), and the atomic
increment at the start of `GetTopVideos` takes no lock. `FetchTrending`, `FetchBatch(Updater)`
and `UpdateCache` are one refresh, under `trendingLock` throughout (`Refreshing`).

lab1 and lab2 are the same module; `mode` says how a request gets its clients. `"dial"` is
lab1, with a connection made in each request (`Dial`). `"pool"` is lab2:
`GetUserConnRoundRobin` loads the index and picks (`MakeClient`), and adds to the index
later (`Claim`). `"mock"` is `MakeVideoRecServiceServerWithMocks`: the handler of the
service runs in the caller's goroutine, which waits for ever for a response that is omitted
(`Hangs`), except that the goroutine of the cache has made a mock client of its own, which
nobody configures (`ConfigOf`).

### LoadGen

Each atomic operation on a total is a step: the request is sent, the response arrives or
the deadline passes (`Receive`, `Deadline`; a deadline also ends the server's calls for
this request), the deferred function counts the response and then the success. `reportStats`
loads two totals in two steps. A server with mock clients is called by a test, which sets no
deadline.

### Tester

`Tester` extends `ReplicatedLog`, which `Raft` implements: servers deliver entries that
respect one log (`Apply`), change terms and win elections. A server may also break a promise,
once: deliver any command at any index (`Misdeliver`) or win a term that has a leader.
Above them are the appliers, one for each incarnation, since that of a crashed server goes on
reading its channel, and the test's goroutine, with one step for each critical section of
`cfg.mu` and each call of `GetState` or `Start`. `log.Fatalf` is a step of its own, because an
applier raises its error after it has released the lock.

### Labrpc

`Raft` takes a crash and a restart as one step, with everything of the old incarnation
cut off. `Labrpc` has what that rests on: `crash1` and `start1` statement by statement
(`Detach`, one `Toggle` for each call of `Enable`, `DeleteServer`, `Copy`, `Make`) against
`ClientEnd.Call` and `processReq` at each hand-over and each critical section of
`Network.mu`. An RPC handler is a step that saves the call in the persister its own
incarnation was made with (`Dispatch`), so it may still save there after the peer was
killed or when nobody waits for the reply. Persisters are numbered for each peer;
`saved` is `cfg.saved`, `rafts` says which one each incarnation got. The tester is one
goroutine, so it does one operation at a time, but a call may be anywhere meanwhile. Ends
are records instead of random strings.

`Labgob` adds the reply: the handler fills a new variable, the fields that are not zero are
sent, and the caller's variable keeps its old value in the others. Its steps are those of
`Labrpc`, so what is proved of `Labrpc` holds of it.

### StringSet

A step is one statement on shared state. `stripeOf` is any function, instead of `fnv32`
modulo the number of stripes; `LockedStringSet` is the case of one stripe. What `Add` does
under its lock is five steps, because `Count` reads the counter without one. A
`PredRange` is one goroutine for each stripe, which takes the read lock (`ScanLock`), sends
what it found (`ScanSend`) and unlocks (`ScanUnlock`): nobody writes to a map that is
read-locked (`NoMapRace`), so how long the iteration takes makes no difference. The channel
holds the answers of the stripes in `sent` and has room for `Capacity`; the send waits for
room, since nothing is received before `wg.Wait()` returns (`Gather`). `SetObject` says what answers are right: `Add` and `Count` act at one moment
(for `Add` the increment of the counter, or its failed lookup), `PredRange` sees all that
was there when it was called and nothing that is not there when it returns.

## 3. What the runs check

| run | shows |
|---|---|
| `raft_replication` | Two terms, two entries, two distinct `AppendEntries` calls with every delay and repetition: logs match, `matchIndex` is true, `nextIndex` in range, and `Raft` implements `ReplicatedLog`. |
| `raft_restart` | Three servers, two terms, two voting rounds in a candidacy, a crash anywhere, also between the two `persist()` of `RequestVote`: one leader in a term, disk equals memory between critical sections; what was delivered is on a majority's disks, is never delivered differently, indices never go back. |
| `raft_figure8` | Four terms, as Figure 8 of the Raft paper needs: a leader that no server has outrun has every delivered entry. |
| `raft_backtrack` | Violation: after a conflict `nextIndex` is not always decremented (comment at `raft.go:585`). |
| `role_loop` | The loop never loses an election: a follower that hears nothing campaigns, elections end, a waiting follower is a follower. |
| `role_loop_start` | Violation: `startCandidate` keeps the lock and `Start` never returns. |
| `video_rec` | Two requests and the refresh with a pool of two connections (lab2) or a dial in each request (lab1), batches of two, retries, and a service that starts to fail: only valid calls, best answers, complete cache, counters that agree with the answers, a round robin that loses no turn, no error once something is cached. |
| `video_rec_live` | The load generator and lab1's options (one id a call, a dial in each request), or a test and mock clients: the request is answered although VideoService may fail for ever; if it fails only for a while, the cache is filled and stays fresh; the client never counts what the server has not, and its report becomes right. |
| `video_rec_active` | Violation: the counter of active requests loses an increment. |
| `string_set` | Three goroutines, any hash of two strings to two stripes (up to the names of the stripes, `MCInit`): exact counter, no map read while it is written, `StringSet` implements `SetObject`, every call returns, and no goroutine of a `PredRange` is stuck in a send. |
| `labrpc` | A call from any incarnation against three operations of the tester: acknowledged updates survive, only connected ends are enabled, old handlers cannot touch new state, no call waits for a deleted server, a reply mixed with older values is reported. |
| `raft_tester` | Two servers, two terms, two commands and two indices, crashes and restarts, at most one broken promise, any call of the test: no fault is raised without cause, a disagreement or a gap is noticed at once, and an agreement that is reported is real. |

Every violation is listed under `findings` with the line it contradicts. Each property of
a passing run has a mutant: an operator beside the definition it mutates, marked
"Mutant", with which TLC finds the property violated.

### Bounds, and why they are enough

* Raft: three servers are the fewest with a minority; `MaxTerm`, `MaxLogLen`,
  `MaxVoteCalls`, `MaxAppendCalls`, `MaxRounds`, `MaxRestarts` are guards of the actions
  that create something new. Two terms are enough for a deposed leader and a new one,
  with both their messages in flight; Figure 8 needs four. Two *distinct* `AppendEntries`
  calls are enough for one to overtake the other, and each can be handled any number of
  times. A mutant of each property is caught within the same bounds.
* The runs with three and four terms (`raft_backtrack`, `raft_figure8`) use schedule
  constraints of `MCRaft`: `OneCampaignPerTerm` (one candidate in a term, which has asked
  for votes before anyone starts a later term), `NoLateRequests` (no request is handled
  after its term is over at the receiver) and, for Figure 8, `FollowersCampaign` (only a
  follower's timer starts an election). They leave out rival candidates, stale requests and
  leaders deposed by their own timer, which the other runs have, and keep the log histories
  the property is about: its mutant, which counts replicas of entries of any term, is
  caught within them.
* `View` identifies states that differ only in replies no step will read and in arrays
  that are overwritten before they are read; `Symmetry` permutes servers and commands,
  which are only compared. Neither is used with a liveness property, for which symmetry
  would be unsound.
* `RoleLoop`: three events are a win, a reset and a token left over.
* `VideoRec`: two requests and the updater are every pair of actors; three users and
  three videos with a shared like, a repeated trending id, and batches of one and two make
  every boundary of the batching happen; a few ticks of the clock with a shorter time to live
  let the cache expire; the limits are none, one, and one more than there are videos to
  rank (one that is negative, or equal to the length, takes the branches of these); a service that `SetInjectionConfig` makes fail does so now and
  then, with errors and omissions (`Sick`), so every pattern of outcomes of one service happens
  after one call of it (`MaxConfigs = 1`); the liveness run has two calls, with which both
  services fail or one recovers for good. The liveness run has one request, one user asked for, one
  trending video and no symmetry: the waiting it is about is between a request and the
  refresh, and one response is enough to fall between the two loads of a report.
* `Tester`: two servers are one that is compared with another; a call of the test depends on
  no earlier one, so `MaxCalls = 1`; two changes are a crash and a restart. The constraint
  `FaultsAreSimple` keeps broken promises to one term, and apart from restarts while the
  test is in a call: the appliers, which notice them, do not depend on the call.
* `StringSet`: each goroutine calls once; three are an adder, another one that races it for
  the same string or the same stripe, and a reader. Two strings and two stripes make both
  hashes happen, equal and different; the stripes are alike, so `MCInit` puts one of the
  strings into the first.
* `Labrpc`: calls do not wait for each other, so one is enough; `MaxOps = 3` is a crash, a
  restart and a reconnection around it. The theorems have no such bounds. One field with two
  values makes every mixture of an old and a new reply.

### Fairness

* `RoleLoop`: weak fairness of the loop, of `startVoting` and of `Start`. Goroutines are
  scheduled, timers fire, and `sync.Mutex` hands itself to a waiter that starves. Nothing is
  assumed of the network, of clients or of `kill`.
* `VideoRec`: weak fairness of each handler and of the updater (every context has a
  deadline, sleeps end) and of the clock. The read lock of a fallback is strongly fair:
  when a writer of `sync.RWMutex` unlocks, the readers that wait go first, so a refresh
  followed at once by another cannot keep a reader out for ever. A call through a mock client
  has no deadline and is not assumed to end: `hung` has no step.
* `LoadGen`: weak fairness of each request's goroutine, and of the report, which a ticker
  starts.
* `StringSet`: weak fairness of each goroutine. A reader or a writer that waits for a
  `sync.RWMutex` is let in when it is free; with as many calls as goroutines nobody can
  overtake it for ever, so the preference of waiting writers does not matter.
* `Labrpc`: weak fairness of each call's goroutines. Handlers may hang for ever and the tester
  may stop at any point.
* `Tester` has none: it is about what a test may report, not when. `CHECK_DEADLOCK` is off
  there and in `labrpc`, since tests end.
* `Raft` has none: with timeouts at the scheduler's mercy nothing must happen, and what a
  loop of elections does in time is not what it is about.

## 4. What is proved

The proofs hold for every value of the constants, so also for executions far outside any
run. They assume only the `ASSUME`s of the modules:

* `Raft`: finitely many servers, more than one (`ServerAssumption`); `Nil` is not a server
  (`NilAssumption`: the code's -1 is no peer's index); the bounds are numbers.
* `RoleLoop`, `Labrpc`: the bounds are numbers.
* `Services` and `VideoRec`: `DatabaseAssumption` is what the makers of the databases guarantee
  (`MadeByUserService`, `MadeByVideoService`: each user's likes and subscriptions, and the
  trending list, name records of the database) and that a rank is a number;
  `OptionsAssumption` says that the batch size of the handler is at most that of the service,
  which refuses longer requests, that the pool has a connection, and that `Nil` is none of its
  indices. The two batch sizes are separate flags in the code, so that a batch is never too long
  (a part of `VideoCallsAreValid`) is what this assumption says and not a result; that it is
  never empty and names no id twice is.
* `StringSet`: finitely many stripes, at least one, finitely many strings, and a `Nil` that is no answer.
* `Labgob`: a reply has finitely many fields; `Depth` is at least three.
* `Tester`: servers are numbered from 0, as peers are; `Nil` is neither a command nor a server.

| theorem | statement |
|---|---|
| `RaftProofs!Invariance` | `Spec => []Inv`, `Inv == IndexInv /\ ElectionInv` |
| `RaftProofs!TypeCorrect` | `Spec => []TypeOK` |
| `RaftProofs!ElectionSafe` | `Spec => []ElectionSafety` |
| `RaftProofs!NextIndexSafe` | `Spec => []NextIndexInRange` |
| `RaftProofs!Persisted` | `Spec => []PersistedIsCurrent` |
| `RaftLogProofs!HistoryOfLogs` | `Spec => []LogHistory` |
| `RaftLogProofs!LogsMatch` | `Spec => []LogMatching` |
| `RaftLogProofs!MatchIndexSafe` | `Spec => []MatchIndexTruthful` |
| `RaftCommitProofs!HistoryHolds` | `Spec => []HistoryInv` |
| `RaftCommitProofs!StateMachinesAgree` | `Spec => []StateMachineSafety` |
| `RaftCommitProofs!LeadersAreComplete` | `Spec => []LeaderCompleteness` |
| `RaftCommitProofs!DeliveredIsDurable` | `Spec => []AppliedIsDurable` |
| `RaftCommitProofs!DeliveredIsFinal` | `Spec => DeliveryIsFinal` |
| `RaftCommitProofs!IndicesGrow` | `Spec => Monotonic` |
| `RaftCommitProofs!RaftImplementsLog` | `Spec => ImplementsReplicatedLog` (refinement) |
| `RoleLoopProofs!LoopInvariance` | `Spec => []LoopInv` |
| `RoleLoopProofs!LoopTypes` | `Spec => []TypeOK` |
| `RoleLoopProofs!TimerMeetsFollower` | `Spec => []FollowerWaitIsSafe` |
| `RoleLoopProofs!CandidateIsTimed` | `Spec => []CandidateHasTimer` |
| `ServiceProofs!CountersAgree` | `Spec => []StatsAgree` |
| `ServiceProofs!RoundRobinHolds` | `Spec => []RoundRobin` |
| `ServiceProofs!StaleNotError` | `Spec => NoErrorOnceCached` |
| `ServiceProofs!FetchInvariance` | `Spec => []FetchInv` |
| `ServiceProofs!CacheIsWhole` | `Spec => []CacheIsComplete` |
| `ServiceProofs!BatchesAreValid` | `Spec => []VideoCallsAreValid` |
| `ServiceProofs!BestIsReturned` | `Spec => []RankedIsBest` |
| `ServiceProofs!ClientsAreBehind` | `LoadSpec => []ClientBehindServer` |
| `StringSetProofs!SetInvariance` | `Spec => []SetInv` |
| `StringSetProofs!CountExact` | `Spec => []CountIsSize` |
| `StringSetProofs!NoRace` | `Spec => []NoMapRace` |
| `StringSetProofs!SendsNeverWait` | `Spec => []SendHasRoom` |
| `StringSetProofs!SetsImplementObject` | `Spec => ImplementsSetObject` (refinement) |
| `LabrpcProofs!NetInvariance` | `Spec => []NetInv` |
| `LabrpcProofs!AcksAreSaved` | `Spec => []NoAckLost` |
| `LabrpcProofs!EnabledExact` | `Spec => []EnabledIsConnected` |
| `LabrpcProofs!OldStoresStayApart` | `Spec => OldStoresApart` |
| `LabrpcProofs!LabgobIsLabrpc` | `GobSpec => Spec` |
| `LabrpcProofs!MixedReplyIsSeen` | `GobSpec => []MixedReplyIsReported` |
| `TesterProofs!AccusesJustly` | `TesterSpec => []NeverAccusesUnjustly` |
| `TesterProofs!DisagreementIsNoticed` | `TesterSpec => []NoticesDisagreement` |
| `TesterProofs!ReportedAgreementIsReal` | `TesterSpec => []AgreementIsReal` |

### Raft: types and elections

`TypeOK` alone is not inductive: `SendAppendEntries` sends
`nextIndex - 1` as `prevLogIndex`, a natural number only if `nextIndex` is at least 1, and
`nextIndex` comes back from replies (`conflictIndex`, or what was sent). So the bound of
`nextIndex` needs bounds of every index in the network: a request reaches no further than
the log of the leader that sent it, a conflict index lies at or before what the request
named (`AppendReqInv`, `AppendRepInv`). Those compare a message with the log *now*, which is
sound while a leader's log only grows; and a leader's log only grows because no other server
sends `AppendEntries` in its term, which is `ElectionSafety`. So the two halves are proved
together. `ElectionInv` says why elections are safe: a peer remembers its vote as long as
it is in that term and stays a follower (`GrantInv`, `GrantUnique`), what a candidate has
counted are such votes (`TallyInv`), every winner had a majority of them (`ElectedInv`);
two majorities meet (`MajoritiesMeet`). It holds although `AppendEntries` overwrites
`votedFor` with the leader's id, since only the elected server sends that message, and over
crashes because `PersistedIsCurrent` is part of the induction. Each conjunct has a
lemma over a case analysis of what one step does to one peer (`PeerSteps`).

### Raft: logs

`LogMatching` compares two servers' logs, and a step may replace a part of one with what a
message carries; the message would have to be compared with every log too. The proof compares
all of them with one thing: `L[t]`, the log of the leader of term `t`, which only grows. A log
is `Recorded` if for each of its entries, of term `t`, it is equal to `L[t]` up to that entry.
`LogInv(L)` says that the logs of servers, in memory and on disk, and the entries of requests
are recorded, and that replies tell the truth about `L`; `LogHistory` is `\E L : LogInv(L)`, so
no history variable is added to the model. The heart is `Merged`: what `AcceptAppend` makes of a
recorded log and a recorded request is recorded (and agrees with the leader up to the end of
what was sent). `MatchIndexTruthful` is the part of it about replies.

### Raft: commits

A call of `Start` is *chosen* if a majority has acknowledged it in its term, and *dead* once a
majority is in later terms without having done so; not both, since two majorities meet.
`SafetyInv` says that the leader of a later term has every entry that is not dead: the voters of
a winner and the servers that acknowledged share one, and `RequestVote` compares last terms
before lengths (`raft.go:347`). The count of replicas commits only entries of the leader's own
term (`raft.go:561`), so what is committed is chosen or lies before something chosen
(`ChosenUpTo`). A follower that commits up to `min(leaderCommit, len(log))` stays within what
agrees with the leader, because no request announces more than it reaches (`CommitInv`).
`HistoryInv` joins these; `RaftImplementsLog` maps each step to one of
`ReplicatedLog` or to a stutter, with the longest delivered log as `chosen`.

### RoleLoop

`LoopInv` is inductive as it stands: `FollowerWaitIsSafe` and `CandidateHasTimer` say for each
place of the loop which roles are possible, and each of the other goroutines' steps that
changes the role also wakes or leaves the places where the new role would be wrong.

### VideoRec and LoadGen

Counters are compared with *sets*: `StatsInv` says that each total is the number of requests
with such an answer that have passed the step that adds to it (`CountedTogether` puts the
kinds of errors together for `StatsAgree`), so an increment is an element that joins a finite
set. `PoolInv` does the same with the index of the pool: a request has picked a connection
before it adds to the index, and is counted from then on. `LoadInv` does so with the
client's totals, whose sets are parts of the server's.

The loops over batches need what was fetched so far: `FetchInv` says that what was fetched and
what is left are, one after the other, the ids that were asked for (`Progress`), each once. With
it a refresh that ends has all the trending videos, or nothing (`CacheIsComplete`). `RankedIsBest`
rests on the order that sorting makes: the place of a video is the number of those before it
(`earlier`), which gives each place once. The flattening of the users' likes is a recursive
function; its properties are proved from the least index at which they would fail, since
induction theorems cannot be cited.

### StringSet

`CountIsSize` compares the counter with the strings that are in a stripe and *counted*: a
string between its insertion and the increment does not belong to the set yet
(`Uncounted`). It is inductive with three facts: a lock has one holder (`LockInv`), so two
goroutines between insertion and increment hold different stripes (`Alone`); a string is only
in its own stripe (`StripeInv`), so they hold different strings; and what a lookup found
stays so until the unlock (the rest of `StripeInv`). Then `AddInsert` leaves the set as it
is (`InsertKeepsMembers`) and `AddIncrement` adds one new string (`IncrementAddsOne`).

The refinement needs two more: what a call has returned or is about to return, in terms of its
place (`CallInv`), and what a `PredRange` has collected (`ScanInv`): only members of the set,
and what was there when it was called is collected or in a stripe that still has to be locked
or to send. A string that is inserted but not counted is in no answer, because its stripe is
locked until it is counted. Every step then is a step of `SetObject` or a stutter. The part of
`CallsReturn` that is safety is a theorem too: by `ScanInv` a goroutine that has not sent is
not among those that have, so the channel has room for it (`SendsNeverWait`).

### Labrpc and Labgob

An acknowledged call was executed, and is therefore in the persister of the incarnation that
executed it (`StoreInv`). At the moment of the second look at the server
(`labrpc.go:270`) that incarnation is the registered one, and a registered incarnation
saves in the peer's present persister, because `crash1` deletes the server before it copies
the persister. From then on the call is in every copy. `EnabledExact` adds what is enabled
while the tester toggles ends (`EnabledInv`); restarts need that a peer being restarted
is disconnected, or its new ends would have to be enabled already. `OldStoresApart` is an action
property: by `ApartInv` no incarnation but the last saves in the peer's present persister, and
none does while a new one is being made.

`Labgob` refines `Labrpc` step by step with the identity (`LabgobIsLabrpc`). `MixedReplyIsReported`
is inductive with the types (`ReplyInv`): a decoding without old values is exact
(`FreshIsFaithful`), and one with old values is counted by the check that precedes it
(`CheckCounts`), for the depth that check reaches.

### Tester

Nothing is known of the servers beyond `ReplicatedLog`, so the invariant is about what the tester
has of it. `DeliveredInv`: each incarnation has delivered a part of the one log. `ChannelInv`: what
it has sent and its applier has not read are the last commands of that part, and what was read was
stored; so while no promise is broken every message is the next one and agrees with what other
servers stored (`FaultlessInv`), also when the applier of a crashed incarnation goes on reading.
`NoticesDisagreement` is inductive with the types alone, because an applier that would store a
different command is accused in the same step. `LeaderInv` says that whoever a check has
seen as a leader was elected in that term, even if it is deposed by now. `CountInv` is what makes
`nCommitted` right although it reads one server at a time: as many of the servers it has
passed hold the command as it has counted, and what was stored stays (`StoredStays`) unless
somebody is accused.

### Model-checked only

Liveness, which is out of the prover's reach: `FollowerCampaigns` and `ElectionEnds` of
`RoleLoop`, `RequestsAnswered` and `CacheGetsFresh` of `VideoRec`, `ReportSettles` of `LoadGen`,
`CallsReturn` of `StringSet` and of `Labrpc`. The three violations of section 5 are
counterexamples of TLC. Everything else a run checks is a theorem.

## 5. Disagreements between the code and what is said of it

Three runs find one, listed in `PROJECT.json` under `findings`: the lock that
`startCandidate` keeps (`role_loop_start`), the repeated `AppendEntries` after a conflict
with a term the leader has nothing above (`raft_backtrack`), the lost increment of the active
requests (`video_rec_active`). Others were met while modelling, and follow from the modules
without a run of their own:

* A leader may start an election of its own: the timer of `startCandidate` fires, the
  winning vote is counted, and the timeout branch (`raft.go:807-812`) converts to
  candidate without looking at the role (`RoleLoop`: `TimerFires`, `WinElection`, `Timeout`).
  `lab3.md:133` wants the leader to stay if nothing fails.
* `matchIndex` may go back when replies overtake each other; the comment at `raft.go:83`
  says it increases monotonically. It stays true (`MatchIndexTruthful`).
* `lab1.md:252` asks for "the total number of errors returned in attempts to call
  `UserService` or `VideoService` respectively (in calls to `Dial` or the RPC methods
  themselves)". `updateStats` counts one such error for a request that failed for good, and
  none for an attempt that was retried or for a request that the cache answered
  (`server_lib.go:303-311`; `AddStats`: `user` and `video`). No property of the project is about
  these two counters: `StatsAgree` keeps to what `lab1.md:248-249` and `:328-329` ask of the
  totals, the errors returned and the stale responses, which the code does.
* The retry of `GetTrendingVideos` (`server_lib.go:187`) ignores `DisableRetry` (`:34`),
  and uses a context whose deadline may have passed.
* The index of the round robin is an `int32` that only grows: after 2^31 requests it is
  negative and `userConns[index % n]` panics. The modelled requests are far fewer.
* The load generator subtracts successes from responses that it loaded earlier: a report may
  show a number of errors just below 2^64. Later reports are right (`ReportSettles`).
* `wait` looks at the terms only when too few servers have delivered (`config.go:405-421`):
  if enough have, it returns the command of a later term instead of -1; the tests that care
  compare the command.
* labgob looks three levels deep (`labgob.go:130`), which is the pointer, the struct and its
  fields: old values inside a nested struct, a slice or a map are mixed in without a warning.

## 6. Not modelled

* The byte format of the Persister and of messages: they are values. labgob's check for
  lower-case field names (`checkType`), which works on Go types.
* `killed()` in Raft's goroutines: a crashed peer's messages are cut off anyway.
* Statistics of labrpc (`GetCount`, `GetTotalBytes`), and what `begin`, `end`, `LogSize` and
  `checkTimeout` of `config.go` print and measure.
* `fnv32` (any hash is checked instead), the regular expressions and the order of
  `PredRange`'s answer (a set here). `regexp.MustCompile` ends the program for a pattern that is
  not valid, if a stripe has a string (`striped_string_set.go:117`): patterns are valid here.
* `RoleLoop.toVote` says that some goroutine of `startVoting` waits, not how many: each asks
  for votes or does nothing, whichever candidacy it was started in, and one of an earlier
  candidacy may be the one that waits.
* `Labrpc.reliable` stays as it is for a run. A test may change it (`setunreliable`), which
  each call reads once (`labrpc.go:219`): what a call then may do is what it may do on an
  unreliable network, one of the two that `Init` chooses from.
* Latencies, in VideoRecService and in the load generator; the average of no requests is
  NaN (`server_lib.go:596`).
* The random databases of the services (constants, with what their makers guarantee), the
  ranker and its bcrypt (the constant `Rank`), logging, the front end, the command that
  prints statistics and the server mains, which keep no state, generated code, Docker and
  Kubernetes files.

## 7. Plan

The order follows what matters most: consensus, then what it runs on, then the services.

1. *(done)* `Raft` with `ReplicatedLog`; type correctness, indices and election safety proved.
2. *(done)* `RoleLoop`; `Services` and `VideoRec`; `StringSet` with `SetObject`, counter and
   locks proved; `Labrpc`, persistence of acknowledged calls proved.
3. *(done)* The checks of the tests over `ReplicatedLog` (`Tester`); the connection pool and the
   mock clients in `VideoRec`; the load generator (`LoadGen`); `Labgob`.
4. *(done)* Every invariant, action property and refinement of the passing runs proved: Raft's
   logs, commits and `ReplicatedLog`; `RoleLoop`; `VideoRec` and `LoadGen`; `SetObject`;
   `Labgob`; `Tester`.
5. What is left is to compose what is proved: the checks of the tests over `Raft` itself
   instead of over `ReplicatedLog`, which it implements; the persisters of `Labrpc` as the
   `persisted` of `Raft`; and what of liveness rests on safety alone (that a step which must
   happen stays possible), as invariants.
