------------------------------ MODULE Service ------------------------------
(***************************************************************************)
(* One balancer process in front of one backend, which also has other      *)
(* clients: the probes and cmd/bgload.  It relates the two counters of     *)
(* requests in flight, ClientRIF here and serverRIF there, through calls   *)
(* that fail, clients that give up, shutdowns, crashes and restarts of the *)
(* balancer.  The backend is the module Backend, every step of which is    *)
(* a step of this one; the detail of a request's way through the balancer  *)
(* is in Forward.                                                          *)
(***************************************************************************)
EXTENDS Backend

CONSTANT Own         \* the requests at the backend that the balancer forwards

ASSUME ServiceAssumption == Own \subseteq Request

VARIABLES
    life,            \* the balancer process
    clientRIF,       \* Server.ClientRIF of this backend
    lb               \* where forwardRequest is for each of its requests

balancer == <<life, clientRIF, lb>>
svars == <<vars, balancer>>

ServiceInit ==
    /\ Init
    /\ life = "serving"
    /\ clientRIF = 0
    /\ lb = [h \in Own |-> "idle"]

Move(h, from, to) == lb[h] = from /\ lb' = [lb EXCEPT ![h] = to]

-----------------------------------------------------------------------------
\* Requests of the balancer.

\* A client's request is accepted and forwarded: the AddInt32 at the top of
\* forwardRequest.  Names are used again only when the backend is done with
\* them, which bounds the work of one request that was given up.
Accept(h) ==
    /\ life = "serving" /\ pc[h] = "idle"
    /\ Move(h, "idle", "sending")
    /\ clientRIF' = clientRIF + 1
    /\ UNCHANGED <<vars, life>>

\* The call reaches the backend.
Send(h) ==
    /\ Move(h, "sending", "waiting")
    /\ Arrive(h)
    /\ UNCHANGED <<life, clientRIF>>

\* It does not, and ErrorHandler answers.
SendFails(h) ==
    /\ Move(h, "sending", "leaving")
    /\ UNCHANGED <<vars, life, clientRIF>>

\* The backend's answer is relayed.  It is short, so net/http sends it when the
\* backend's handler has returned, after its deferred functions.
Answered(h) ==
    /\ pc[h] = "idle"
    /\ Move(h, "waiting", "leaving")
    /\ UNCHANGED <<vars, life, clientRIF>>

\* Slip: giving up skips what forwardRequest defers.
AbandonLeaks(h) ==
    /\ pc[h] # "idle"
    /\ Move(h, "waiting", "idle")
    /\ UNCHANGED <<vars, life, clientRIF>>

\* Slip: ErrorHandler counts the request out, which forwardRequest defers as well.
AbandonCountsOut(h) ==
    /\ pc[h] # "idle"
    /\ Move(h, "waiting", "leaving")
    /\ clientRIF' = clientRIF - 1
    /\ UNCHANGED <<vars, life>>

\* The client gives up: the proxy cancels its call and ErrorHandler is called.
\* The backend's handler does not look at the context of its request.
Abandon(h) ==
    /\ pc[h] # "idle"
    /\ Move(h, "waiting", "leaving")
    /\ UNCHANGED <<vars, life, clientRIF>>

\* The deferred function of forwardRequest.
Finish(h) ==
    /\ Move(h, "leaving", "idle")
    /\ clientRIF' = clientRIF - 1
    /\ UNCHANGED <<vars, life>>

-----------------------------------------------------------------------------
\* The process.

\* SIGINT or SIGTERM: Shutdown closes the listeners and starts to wait for the
\* requests in progress.
Shutdown ==
    /\ life = "serving"
    /\ life' = "closed"
    /\ UNCHANGED <<vars, clientRIF, lb>>

Down == {"returned", "killed"}

\* The process ends, and with it every goroutine and counter.
Die(how) ==
    /\ life' = how
    /\ clientRIF' = 0
    /\ lb' = [h \in Own |-> "idle"]
    /\ UNCHANGED vars

\* ListenAndServe has returned ErrServerClosed, and main returns: it does not
\* wait for the goroutine in Shutdown.
MainReturns == life = "closed" /\ Die("returned")

\* A kill, or a ListenAndServe that fails and the os.Exit after it.
Crash == life \notin Down /\ Die("killed")

\* The container is started again: main from the beginning.
Restart ==
    /\ life \in Down
    /\ life' = "serving"
    /\ UNCHANGED <<vars, clientRIF, lb>>

-----------------------------------------------------------------------------
Forwarding(h) ==
    Accept(h) \/ Send(h) \/ SendFails(h) \/ Answered(h) \/ Abandon(h) \/ Finish(h)

\* What the backend does by itself, and for its other clients: cmd/bgload sends
\* requests at a fixed rate without waiting for answers, and anybody may probe.
BackendAlone ==
    /\ \/ \E g \in Request \ Own : Arrive(g)
       \/ \E g \in Request : Serve(g)
       \/ \E g \in Probe : Probed(g) \/ Leave(g)
    /\ UNCHANGED balancer

ServiceNext ==
    \/ BackendAlone
    \/ \E h \in Own : Forwarding(h)
    \/ Shutdown \/ MainReturns \/ Crash \/ Restart

\* While the process lives its goroutines run, so a call that was made is sent
\* or fails, and one that is answered ends.  Nobody has to give up.
ServiceFairness ==
    /\ \A g \in Request : WF_svars(Serve(g) /\ UNCHANGED balancer)
    /\ \A g \in Probe : WF_svars(Leave(g) /\ UNCHANGED balancer)
    /\ \A h \in Own : WF_svars(Send(h) \/ SendFails(h) \/ Answered(h) \/ Finish(h))

ServiceSpec == ServiceInit /\ [][ServiceNext]_svars /\ ServiceFairness

-----------------------------------------------------------------------------
\* Properties.

\* Every variable of the balancer has its type.
ServiceTypeOK ==
    /\ life \in {"serving", "closed"} \cup Down
    /\ clientRIF \in Nat
    /\ lb \in [Own -> {"idle", "sending", "waiting", "leaving"}]

AtBackend == {g \in Request \cup Probe : pc[g] # "idle"}

\* Counted by the balancer and not, or not any more, by the backend; and counted
\* by the backend and not, or not any more, by the balancer.
InTransit == {h \in Own : lb[h] \in {"sending", "leaving"} \/ (lb[h] = "waiting" /\ pc[h] = "idle")}
Foreign   == {g \in AtBackend : g \notin Own \/ lb[g] # "waiting"}

\* types.go:44 says that ClientRIF "equals server-local RIF when there is a single
\* LB instance".  What separates the two, at every moment, is exactly this: calls
\* on their way, in one direction; in the other the backend's other clients and
\* the requests that a client, or the death of the balancer, has abandoned there.
RIFsReconcile ==
    serverRIF + Cardinality(InTransit) = clientRIF + Cardinality(Foreign)

\* Whatever the backend's other clients do, each forwarded request comes to its
\* end without its client giving up: ClientRIF is not raised for good.
ForwardedEnd == \A h \in Own : lb[h] # "idle" ~> lb[h] = "idle"

\* cmd/balancer/main.go:125 calls the shutdown graceful: the process that was asked
\* to stop returns from main when the requests in progress have ended.
GracefulShutdown ==
    [][life = "closed" /\ life' = "returned" => \A h \in Own : lb[h] = "idle"]_svars
=============================================================================
