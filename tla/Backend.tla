------------------------------ MODULE Backend ------------------------------
(***************************************************************************)
(* One backend: the capacity gate of the "/" handler, the /health handler  *)
(* the balancer probes, and the requests-in-flight counter both maintain.  *)
(* concSem and concQueue are buffered channels used as counting            *)
(* semaphores; only the number of tokens in them matters.  A request is    *)
(* one goroutine of net/http, and its deferred calls run in reverse order. *)
(***************************************************************************)
EXTENDS Integers, FiniteSets

CONSTANTS
    Request,         \* goroutines serving "/" at once
    Probe,           \* goroutines serving /health at once
    MaxConc          \* maxConc

ASSUME BackendAssumption ==
    /\ IsFiniteSet(Request) /\ IsFiniteSet(Probe) /\ Request \cap Probe = {}
    /\ MaxConc \in Nat \ {0}

QueueSize == MaxConc * 3     \* cap(concQueue)

VARIABLES
    serverRIF,       \* the atomic counter serverRIF
    concQueue,       \* len(concQueue)
    concSem,         \* len(concSem)
    pc               \* where each goroutine is

vars == <<serverRIF, concQueue, concSem, pc>>

Init ==
    /\ serverRIF = 0 /\ concQueue = 0 /\ concSem = 0
    /\ pc = [g \in Request \cup Probe |-> "idle"]

Go(g, from, to) == pc[g] = from /\ pc' = [pc EXCEPT ![g] = to]

-----------------------------------------------------------------------------
\* The "/" handler.  Every response carries serverRIF as X-RIF (setRIFHeaders),
\* a plain read: nothing of it stays in the backend's state.

Arrive(g) ==
    /\ Go(g, "idle", "gate")
    /\ serverRIF' = serverRIF + 1
    /\ UNCHANGED <<concQueue, concSem>>

\* The select with a default: a place in concQueue if there is one, else 503
\* with nothing to release but the counter.
Gate(g) ==
    /\ IF concQueue < QueueSize
       THEN Go(g, "gate", "wait") /\ concQueue' = concQueue + 1
       ELSE Go(g, "gate", "leave") /\ UNCHANGED concQueue
    /\ UNCHANGED <<serverRIF, concSem>>

TakeSlot(g) ==
    concSem < MaxConc /\ Go(g, "wait", "work") /\ concSem' = concSem + 1

\* Slip: no timer case.
WaitForever(g) == TakeSlot(g) /\ UNCHANGED <<serverRIF, concQueue>>

\* Slip: the 503 path returns without the release of the queue place.
WaitLeaksPlace(g) ==
    /\ TakeSlot(g) \/ (Go(g, "wait", "leave") /\ UNCHANGED concSem)
    /\ UNCHANGED <<serverRIF, concQueue>>

\* Slip: the timeout path counts the request out, which its deferred function does.
WaitCountsOut(g) ==
    \/ TakeSlot(g) /\ UNCHANGED <<serverRIF, concQueue>>
    \/ /\ Go(g, "wait", "unqueue")
       /\ serverRIF' = serverRIF - 1
       /\ UNCHANGED <<concQueue, concSem>>

\* The second select: an active slot when one is free, or the queueTimeout
\* timer and 503.  With both ready Go picks either; which of several waiters
\* gets a slot is left open, and so is when the timer fires.
Wait(g) ==
    /\ TakeSlot(g) \/ (Go(g, "wait", "unqueue") /\ UNCHANGED concSem)
    /\ UNCHANGED <<serverRIF, concQueue>>

\* cpuWork and the antagonist's delay are over and the response is written;
\* then the deferred receives: the active slot first, then the queue place.  A
\* receive from an empty channel blocks.
FreeSlot(g) ==
    /\ Go(g, "work", "unqueue") /\ concSem > 0
    /\ concSem' = concSem - 1
    /\ UNCHANGED <<serverRIF, concQueue>>

Unqueue(g) ==
    /\ Go(g, "unqueue", "leave") /\ concQueue > 0
    /\ concQueue' = concQueue - 1
    /\ UNCHANGED <<serverRIF, concSem>>

\* The first deferred function of either handler, which runs last.
Leave(g) ==
    /\ Go(g, "leave", "idle")
    /\ serverRIF' = serverRIF - 1
    /\ UNCHANGED <<concQueue, concSem>>

-----------------------------------------------------------------------------
\* The /health handler: no gate, the same counter.

Probed(g) ==
    /\ Go(g, "idle", "leave")
    /\ serverRIF' = serverRIF + 1
    /\ UNCHANGED <<concQueue, concSem>>

-----------------------------------------------------------------------------
Serve(g) == Gate(g) \/ Wait(g) \/ FreeSlot(g) \/ Unqueue(g) \/ Leave(g)

Next ==
    \/ \E g \in Request : Arrive(g) \/ Serve(g)
    \/ \E g \in Probe : Probed(g) \/ Leave(g)

\* A goroutine that can run does: the Go scheduler preempts, and the work, the
\* delays and the timer all end.  Nothing is assumed of arrivals, nor of who
\* gets a slot.
Fairness ==
    /\ \A g \in Request : WF_vars(Serve(g))
    /\ \A g \in Probe : WF_vars(Leave(g))

Spec == Init /\ [][Next]_vars /\ Fairness

-----------------------------------------------------------------------------
\* Properties.

At(P) == {g \in Request \cup Probe : pc[g] \in P}

Queued == {"wait", "work", "unqueue"}     \* where a place of concQueue is held
InFlight == Queued \cup {"gate", "leave"}  \* where a goroutine is counted by serverRIF

\* Every variable has its type, of which the capacity of a channel is a part.
TypeOK ==
    /\ serverRIF \in Nat
    /\ concQueue \in 0..QueueSize /\ concSem \in 0..MaxConc
    /\ pc \in [Request \cup Probe -> InFlight \cup {"idle"}]
    /\ \A p \in Probe : pc[p] \in {"idle", "leave"}

\* On every path (main.go:207-212, 162-186) the deferred releases give back what
\* was taken, once: X-RIF "accurately reflects ALL in-flight work" whenever it is
\* read, waiting and refused requests and probes included, and no token of either
\* channel is leaked or given back twice.
TokensExact ==
    /\ serverRIF = Cardinality(At(InFlight))
    /\ concQueue = Cardinality(At(Queued))
    /\ concSem = Cardinality(At({"work"}))

\* Under any load, and with no fairness in the hand-out of slots, a request is
\* answered: it gets a slot or its timer refuses it.
EveryRequestAnswered == \A g \in Request : pc[g] # "idle" ~> pc[g] = "idle"

\* main.go:116 says concQueue is a "waiting room = 3x active slots": a request is
\* then refused at the gate only when 3 * MaxConc others wait for a slot.
RefusedOnlyWhenRoomFull ==
    [][\A g \in Request :
          pc[g] = "gate" /\ pc'[g] = "leave" => Cardinality(At({"wait"})) >= QueueSize]_vars
=============================================================================
