------------------------------ MODULE LoadGen ------------------------------
(***************************************************************************)
(* The load generator of cmd/loadgen as the client of VideoRecService: one *)
(* goroutine for each request, with a deadline, and the one that reports   *)
(* the totals every second.  Each atomic operation on a total is a step.   *)
(* The caller of a server with mock clients is a test, with no deadline.   *)
(***************************************************************************)
EXTENDS VideoRec

VARIABLES
    sending,     \* where the goroutine of each request is
    wasSuccess,  \* its variable of that name
    totals,      \* totalSent, totalResponses, totalSuccesses, totalStale
    reporting,   \* numReqs of the report under way, or Nil
    report       \* the last line printed

client   == <<sending, wasSuccess, totals, reporting, report>>
loadVars == <<vars, client>>

LoadInit ==
    /\ Init
    /\ sending = [r \in Request |-> "unsent"]
    /\ wasSuccess = [r \in Request |-> FALSE]
    /\ totals = [sent |-> 0, responses |-> 0, successes |-> 0, stale |-> 0]
    /\ reporting = Nil
    /\ report = [reqs |-> 0, errors |-> 0]

GoOn(r, where) == sending' = [sending EXCEPT ![r] = where]

\* sendRequest, up to the call.
SendRequest(r, u, n) ==
    /\ GetTopVideos(r, u, n)
    /\ totals' = [totals EXCEPT !.sent = @ + 1]
    /\ GoOn(r, "waiting")
    /\ UNCHANGED <<wasSuccess, reporting, report>>

\* Mutant: a response leaves the server before updateStats has run.
ReceiveEarly(r) ==
    /\ sending[r] = "waiting" /\ response[r] # Nil
    /\ wasSuccess' = [wasSuccess EXCEPT ![r] = response[r].kind \in {"ranked", "stale"}]
    /\ totals' = IF response[r].kind = "stale"
                 THEN [totals EXCEPT !.stale = @ + 1] ELSE totals
    /\ GoOn(r, "deferred")
    /\ UNCHANGED <<vars, reporting, report>>

\* The response or the error of the server arrives.
Receive(r) ==
    LET kind == response[r].kind IN
    /\ sending[r] = "waiting" /\ pc[r] = "done"
    /\ wasSuccess' = [wasSuccess EXCEPT ![r] = kind \in {"ranked", "stale"}]
    /\ totals' = IF kind = "stale" THEN [totals EXCEPT !.stale = @ + 1] ELSE totals
    /\ GoOn(r, "deferred")
    /\ UNCHANGED <<vars, reporting, report>>

\* The ten seconds are over, also for what the server calls in this request.  The
\* two ends do not have one clock: the server's deadline may also come first.
Deadline(r) ==
    /\ sending[r] = "waiting" /\ mode # "mock"
    /\ expired' = [expired EXCEPT ![r] = response[r] = Nil]
    /\ GoOn(r, "deferred")
    /\ UNCHANGED <<pc, userId, limit, todo, infos, failed, response, cache,
                   numActiveRequests, activeLoaded, stats, world, pool, wasSuccess,
                   totals, reporting, report>>

\* Mutant: only successes are counted as responses.
CountSuccessesOnly(r) ==
    /\ sending[r] = "deferred"
    /\ totals' = IF wasSuccess[r] THEN [totals EXCEPT !.responses = @ + 1] ELSE totals
    /\ GoOn(r, "counted")
    /\ UNCHANGED <<vars, wasSuccess, reporting, report>>

\* The deferred function.
CountResponse(r) ==
    /\ sending[r] = "deferred"
    /\ totals' = [totals EXCEPT !.responses = @ + 1]
    /\ GoOn(r, "counted")
    /\ UNCHANGED <<vars, wasSuccess, reporting, report>>

CountSuccess(r) ==
    /\ sending[r] = "counted"
    /\ totals' = IF wasSuccess[r] THEN [totals EXCEPT !.successes = @ + 1] ELSE totals
    /\ GoOn(r, "finished")
    /\ UNCHANGED <<vars, wasSuccess, reporting, report>>

\* reportStats, every second: two loads, with anything in between.
LoadResponses ==
    /\ reporting = Nil
    /\ reporting' = totals.responses
    /\ UNCHANGED <<vars, sending, wasSuccess, totals, report>>

\* The difference is a uint64: one below zero stands for one just below 2^64.
PrintReport ==
    /\ reporting # Nil
    /\ report' = [reqs |-> reporting, errors |-> reporting - totals.successes]
    /\ reporting' = Nil
    /\ UNCHANGED <<vars, sending, wasSuccess, totals>>

SendRequests(r) == Receive(r) \/ Deadline(r) \/ CountResponse(r) \/ CountSuccess(r)
ReportStats == LoadResponses \/ PrintReport

LoadNext ==
    \/ \E r \in Request :
          \/ \E u \in AskedUser, n \in Limit : SendRequest(r, u, n)
          \/ SendRequests(r)
          \/ (Handler(r) \/ FallBack(r)) /\ UNCHANGED client
    \/ /\ \/ UpdateTrendingVideos \/ StillFresh
          \/ \E s \in {"user", "video"} : \E config \in Configs : SetInjectionConfig(s, config)
          \/ Tick
       /\ UNCHANGED client
    \/ ReportStats

\* A goroutine that was started runs, and the ticker ticks.
LoadSpec ==
    /\ LoadInit /\ [][LoadNext]_loadVars /\ Fairness
    /\ \A r \in Request : WF_loadVars(SendRequests(r))
    /\ WF_loadVars(LoadResponses) /\ WF_loadVars(PrintReport)

-----------------------------------------------------------------------------
(* Properties. *)

\* What the client has seen the server has counted: updateStats is deferred and so
\* runs before the response leaves, and a request the client gave up may be a success
\* for the server but never the other way round.
ClientBehindServer ==
    /\ totals.stale <= stats.stale
    /\ totals.successes <= stats.total - stats.errors

\* Although a report may be wrong (a response counted between the two loads makes the
\* number of errors wrap), the reports are right in the end: each request that was
\* sent is one response, and the errors are those that did not succeed.
ReportSettles ==
    \A r \in Request : [](sending[r] = "finished" => <>(
        \/ \E q \in Request : sending[q] \notin {"unsent", "finished"}
        \/ report = [reqs   |-> totals.sent,
                     errors |-> Cardinality({q \in Request :
                                    sending[q] = "finished" /\ ~ wasSuccess[q]})]))
=============================================================================
