------------------------------ MODULE Forward ------------------------------
(***************************************************************************)
(* Serving requests: ServeHTTP and forwardRequest for any selection policy *)
(* that returns a healthy server or nil, with the counters and gauges they *)
(* maintain.  Every atomic operation, and every Inc, Dec or Set of a       *)
(* metric, is a step of its own; a request is one goroutine of net/http.   *)
(***************************************************************************)
EXTENDS Integers, FiniteSets

CONSTANTS
    Server,
    BadAddress,      \* the servers whose Address url.Parse rejects
    Handler,         \* goroutines serving requests at once
    MaxRequests      \* bound: requests in a behaviour

NoServer == "none"   \* a nil *Server
NoResult == "none"   \* not answered yet

ASSUME ForwardAssumption ==
    /\ IsFiniteSet(Server) /\ IsFiniteSet(Handler) /\ NoServer \notin Server
    /\ BadAddress \subseteq Server /\ MaxRequests \in Nat

\* How a request ended for its client (the last: the connection was cut).
Outcome == {"relayed", "upstreamError", "internalError", "noServer", "aborted"}

VARIABLES
    clientRIF,       \* Server.ClientRIF
    gauge,           \* lb_server_rif, per server
    active,          \* lb_active_requests
    total, ok, failed,   \* LoadBalancer.stats
    errors,          \* lb_request_errors_total, both reasons
    answered,        \* how many requests ended with each outcome
    pc,              \* where each request goroutine is
    server,          \* the server SelectServer returned to it
    loaded,          \* the value of ClientRIF it read for the gauge
    result           \* how its forwarding ended

stats == <<total, ok, failed, errors>>
locals == <<pc, server, loaded, result>>
vars == <<clientRIF, gauge, active, stats, answered, locals>>

Init ==
    /\ clientRIF = [s \in Server |-> 0]
    /\ gauge = [s \in Server |-> 0]
    /\ active = 0
    /\ total = 0 /\ ok = 0 /\ failed = 0 /\ errors = 0
    /\ answered = [o \in Outcome |-> 0]
    /\ pc = [h \in Handler |-> "idle"]
    /\ server = [h \in Handler |-> NoServer]
    /\ loaded = [h \in Handler |-> 0]
    /\ result = [h \in Handler |-> NoResult]

Go(h, from, to) == pc[h] = from /\ pc' = [pc EXCEPT ![h] = to]

-----------------------------------------------------------------------------
\* ServeHTTP up to forwardRequest.

Arrive(h) ==
    /\ total < MaxRequests
    /\ Go(h, "idle", "select")
    /\ total' = total + 1
    /\ UNCHANGED <<clientRIF, gauge, active, ok, failed, errors, answered, server, loaded, result>>

\* SelectServer returns some server, or nil and the request fails with 503.
Select(h) ==
    /\ \/ /\ Go(h, "select", "enter")
          /\ \E s \in Server : server' = [server EXCEPT ![h] = s]
          /\ UNCHANGED result
       \/ /\ Go(h, "select", "reject")
          /\ result' = [result EXCEPT ![h] = "noServer"]
          /\ UNCHANGED server
    /\ UNCHANGED <<clientRIF, gauge, active, stats, answered, loaded>>

\* The request leaves ServeHTTP; its locals go out of scope.
End(h) ==
    /\ answered' = [answered EXCEPT ![result[h]] = @ + 1]
    /\ server' = [server EXCEPT ![h] = NoServer]
    /\ loaded' = [loaded EXCEPT ![h] = 0]
    /\ result' = [result EXCEPT ![h] = NoResult]

\* Slip: the return after http.Error is missing.
CountRejectedFallsThrough(h) ==
    /\ Go(h, "reject", "enter")
    /\ failed' = failed + 1
    /\ UNCHANGED <<clientRIF, gauge, active, total, ok, errors, answered, server, loaded, result>>

\* No server: FailedRequests, then requestErrors, then http.Error.
CountRejected(h) ==
    /\ Go(h, "reject", "rejected")
    /\ failed' = failed + 1
    /\ UNCHANGED <<clientRIF, gauge, active, total, ok, errors, answered, server, loaded, result>>

Reject(h) ==
    /\ Go(h, "rejected", "idle")
    /\ errors' = errors + 1
    /\ End(h)
    /\ UNCHANGED <<clientRIF, gauge, active, total, ok, failed>>

-----------------------------------------------------------------------------
\* forwardRequest.

Enter(h) ==
    /\ Go(h, "enter", "entered")
    /\ clientRIF' = [clientRIF EXCEPT ![server[h]] = @ + 1]
    /\ UNCHANGED <<gauge, active, stats, answered, server, loaded, result>>

IncActive(h) ==
    /\ Go(h, "entered", "load")
    /\ active' = active + 1
    /\ UNCHANGED <<clientRIF, gauge, stats, answered, server, loaded, result>>

\* serverRIF.Set(LoadInt32(&ClientRIF)): the load, then the store.
Load(h, from, to) ==
    /\ Go(h, from, to)
    /\ loaded' = [loaded EXCEPT ![h] = clientRIF[server[h]]]
    /\ UNCHANGED <<clientRIF, gauge, active, stats, answered, server, result>>

Store(h, from, to) ==
    /\ Go(h, from, to)
    /\ gauge' = [gauge EXCEPT ![server[h]] = loaded[h]]
    /\ UNCHANGED <<clientRIF, active, stats, answered, server, loaded, result>>

\* Slip: the parse error returns before the deferred function is registered.
ParseBeforeDefer(h) ==
    /\ IF server[h] \in BadAddress
       THEN Go(h, "parse", "count") /\ result' = [result EXCEPT ![h] = "internalError"]
       ELSE Go(h, "parse", "proxy") /\ UNCHANGED result
    /\ UNCHANGED <<clientRIF, gauge, active, stats, answered, server, loaded>>

\* url.Parse: an invalid address is answered with 500 and forwarding returns.
Parse(h) ==
    /\ IF server[h] \in BadAddress
       THEN Go(h, "parse", "leave") /\ result' = [result EXCEPT ![h] = "internalError"]
       ELSE Go(h, "parse", "proxy") /\ UNCHANGED result
    /\ UNCHANGED <<clientRIF, gauge, active, stats, answered, server, loaded>>

\* ReverseProxy.ServeHTTP: it relays the backend's answer (of any status),
\* calls ErrorHandler when there was none, or panics with ErrAbortHandler when
\* the copy of the body breaks off, which the deferred function still follows.
Relay(h) ==
    /\ Go(h, "proxy", "leave")
    /\ \E o \in {"relayed", "aborted"} : result' = [result EXCEPT ![h] = o]
    /\ UNCHANGED <<clientRIF, gauge, active, stats, answered, server, loaded>>

HandleError(h) ==
    /\ Go(h, "proxy", "handle")
    /\ failed' = failed + 1
    /\ result' = [result EXCEPT ![h] = "upstreamError"]
    /\ UNCHANGED <<clientRIF, gauge, active, total, ok, errors, answered, server, loaded>>

CountError(h) ==
    /\ Go(h, "handle", "leave")
    /\ errors' = errors + 1
    /\ UNCHANGED <<clientRIF, gauge, active, total, ok, failed, answered, server, loaded, result>>

\* The deferred function, on every way out of forwardRequest.
Leave(h) ==
    /\ Go(h, "leave", "left")
    /\ clientRIF' = [clientRIF EXCEPT ![server[h]] = @ - 1]
    /\ UNCHANGED <<gauge, active, stats, answered, server, loaded, result>>

DecActive(h) ==
    /\ Go(h, "left", "reload")
    /\ active' = active - 1
    /\ UNCHANGED <<clientRIF, gauge, stats, answered, server, loaded, result>>

\* Slip: the success is counted by a deferred statement, which a panic runs too.
FinishDeferred(h) ==
    /\ Go(h, "count", "idle")
    /\ ok' = ok + 1
    /\ End(h)
    /\ UNCHANGED <<clientRIF, gauge, active, total, failed, errors>>

\* forwardRequest has returned, and ServeHTTP counts a success; or it panicked,
\* and net/http recovers and closes the connection.
Finish(h) ==
    /\ Go(h, "count", "idle")
    /\ ok' = IF result[h] = "aborted" THEN ok ELSE ok + 1
    /\ End(h)
    /\ UNCHANGED <<clientRIF, gauge, active, total, failed, errors>>

Next ==
    \E h \in Handler :
        \/ Arrive(h) \/ Select(h) \/ CountRejected(h) \/ Reject(h)
        \/ Enter(h) \/ IncActive(h) \/ Load(h, "load", "store") \/ Store(h, "store", "parse")
        \/ Parse(h) \/ Relay(h) \/ HandleError(h) \/ CountError(h)
        \/ Leave(h) \/ DecActive(h) \/ Load(h, "reload", "restore") \/ Store(h, "restore", "count")
        \/ Finish(h)

Spec == Init /\ [][Next]_vars

-----------------------------------------------------------------------------
\* Properties.

\* The program points between the two AddInt32 of ClientRIF, and between the
\* Inc and the Dec of activeRequests.
Forwarding == {"entered", "load", "store", "parse", "proxy", "handle", "leave"}
Active == (Forwarding \ {"entered"}) \cup {"left"}

\* Where a request has no server, and where it has a result.
Unassigned == {"idle", "select", "reject", "rejected"}
Answered == {"reject", "rejected", "handle", "leave", "left", "reload", "restore", "count"}

\* Every variable has its type; a request has a server exactly from SelectServer
\* to its end, so forwardRequest is never entered with a nil one.
TypeOK ==
    /\ clientRIF \in [Server -> Int] /\ gauge \in [Server -> Int]
    /\ active \in Int /\ total \in Int /\ ok \in Int /\ failed \in Int /\ errors \in Int
    /\ answered \in [Outcome -> Nat]
    /\ pc \in [Handler -> Unassigned \cup Answered \cup Forwarding \cup {"enter"}]
    /\ server \in [Handler -> Server \cup {NoServer}]
    /\ loaded \in [Handler -> Int]
    /\ result \in [Handler -> Outcome \cup {NoResult}]
    /\ \A h \in Handler : /\ server[h] \in Server <=> pc[h] \notin Unassigned
                          /\ result[h] \in Outcome <=> pc[h] \in Answered

InFlight(s) == {h \in Handler : server[h] = s /\ pc[h] \in Forwarding}

\* However requests interleave and end (answered, failed, or broken off by a
\* panic), ClientRIF is exactly the number of requests this balancer has in
\* flight to the server, and lb_active_requests the number it has at all.
InFlightExact ==
    /\ \A s \in Server : clientRIF[s] = Cardinality(InFlight(s))
    /\ active = Cardinality({h \in Handler : pc[h] \in Active})

\* The requests in progress; those that are counted in FailedRequests; and those
\* of them that the metric does not count yet.
Serving   == {h \in Handler : pc[h] # "idle"}
Failing   == {h \in Handler : pc[h] = "rejected" \/ result[h] = "upstreamError"}
Uncounted == {h \in Handler : pc[h] \in {"rejected", "handle"}}

\* What the counters of Healthz mean: a request that ErrorHandler answered is in
\* both err and ok, one that broke off is in neither, and every other one is in
\* exactly one of them.  errors, the metric, follows err.
Ledger ==
    /\ total = answered["relayed"] + answered["upstreamError"] + answered["aborted"]
                   + answered["internalError"] + answered["noServer"]
                   + Cardinality(Serving)
    /\ failed = answered["noServer"] + answered["upstreamError"] + Cardinality(Failing)
    /\ ok = answered["relayed"] + answered["upstreamError"] + answered["internalError"]
    /\ errors = failed - Cardinality(Uncounted)

Quiet == \A h \in Handler : pc[h] = "idle"

\* metrics.go:69 says lb_server_rif is the "Client-local requests-in-flight per
\* server replica": with no request in progress it is then the value of ClientRIF.
GaugeSettles == Quiet => gauge = clientRIF

\* metrics.go:31 says requestErrors "counts failed forwarding attempts": with no
\* request in progress it has then counted each request that forwardRequest did
\* not get a backend's whole answer for, and each that had no server.
FailuresCounted ==
    Quiet => errors = answered["noServer"] + answered["upstreamError"]
                          + answered["internalError"] + answered["aborted"]
=============================================================================
