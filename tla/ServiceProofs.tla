-------------------------- MODULE ServiceProofs --------------------------
(***************************************************************************)
(* The capacity gate and the in-flight counter of a backend are exact for  *)
(* any number of requests and probes at once and any capacity; and what    *)
(* separates ClientRIF from serverRIF, for any number of requests of the   *)
(* balancer and of others, through every failure that Service has.         *)
(***************************************************************************)
EXTENDS Service, FiniteSetTheorems, TLAPS

-----------------------------------------------------------------------------
\* The backend alone.

Goroutine == Request \cup Probe
States == InFlight \cup {"idle"}

LEMMA GoroutinesFinite == IsFiniteSet(Goroutine)
  BY FS_Union, BackendAssumption DEF Goroutine

\* When a goroutine moves, the number of those at P changes by what the move
\* adds and takes away.
LEMMA GoCounts ==
  ASSUME TypeOK, NEW g \in Goroutine, NEW from \in States, NEW to \in States, Go(g, from, to),
         NEW P
  PROVE  /\ Cardinality(At(P)) \in Nat
         /\ from \in P => Cardinality(At(P)) > 0
         /\ from \in P /\ to \in P => Cardinality(At(P))' = Cardinality(At(P))
         /\ from \notin P /\ to \notin P => Cardinality(At(P))' = Cardinality(At(P))
         /\ from \notin P /\ to \in P => Cardinality(At(P))' = Cardinality(At(P)) + 1
         /\ from \in P /\ to \notin P => Cardinality(At(P))' = Cardinality(At(P)) - 1
  <1>1. pc \in [Goroutine -> States]
    BY DEF TypeOK, Goroutine, States
  <1>2. pc[g] = from /\ pc' = [pc EXCEPT ![g] = to]
    BY DEF Go
  <1> DEFINE A == {x \in Goroutine : pc[x] \in P}
             B == {x \in Goroutine : [pc EXCEPT ![g] = to][x] \in P}
  <1>3. At(P) = A /\ At(P)' = B
    BY <1>2 DEF At, Goroutine
  <1>4. Cardinality(At(P)) = Cardinality(A) /\ Cardinality(At(P))' = Cardinality(B)
    BY <1>3
  <1>5. IsFiniteSet(A) /\ Cardinality(A) \in Nat
    BY GoroutinesFinite, FS_Subset, FS_CardinalityType
  <1>6. from \in P => Cardinality(A) > 0
    <2>1. from \in P => g \in A
      BY <1>2
    <2> QED BY <2>1, <1>5, FS_EmptySet
  <1>7. (from \in P <=> to \in P) => B = A
    BY <1>1, <1>2
  <1>8. ASSUME from \notin P, to \in P PROVE Cardinality(B) = Cardinality(A) + 1
    <2>1. B = A \cup {g} /\ g \notin A
      BY <1>1, <1>2, <1>8
    <2> QED BY <2>1, <1>5, FS_AddElement
  <1>9. ASSUME from \in P, to \notin P PROVE Cardinality(B) = Cardinality(A) - 1
    <2>1. B = A \ {g} /\ g \in A
      BY <1>1, <1>2, <1>9
    <2> HIDE DEF A, B
    <2>2. Cardinality(A \ {g}) = Cardinality(A) - 1
      BY <2>1, <1>5, FS_RemoveElement
    <2> QED BY <2>1, <2>2
  <1> HIDE DEF A, B
  <1> QED BY <1>4, <1>5, <1>6, <1>7, <1>8, <1>9

\* Both parts are needed: the capacities are in TypeOK, and that no counter
\* falls below zero follows from the tokens being held.
IInv == TypeOK /\ TokensExact

LEMMA InitIInv == Init => IInv
  <1> SUFFICES ASSUME Init PROVE IInv
    OBVIOUS
  <1>1. At(InFlight) = {} /\ At(Queued) = {} /\ At({"work"}) = {}
    BY DEF Init, At, InFlight, Queued
  <1>2. TokensExact
    BY <1>1, FS_EmptySet DEF Init, TokensExact
  <1>3. TypeOK
    BY BackendAssumption DEF Init, TypeOK, QueueSize, InFlight
  <1> QED BY <1>2, <1>3 DEF IInv

LEMMA RequestsAreNotProbes == \A g \in Request : g \notin Probe
  BY BackendAssumption

LEMMA NextIInv == IInv /\ [Next]_vars => IInv'
  <1> SUFFICES ASSUME IInv, [Next]_vars PROVE IInv'
    OBVIOUS
  <1> USE DEF IInv
  <1>1. /\ serverRIF = Cardinality(At(InFlight))
        /\ concQueue = Cardinality(At(Queued))
        /\ concSem = Cardinality(At({"work"}))
        /\ QueueSize \in Nat /\ MaxConc \in Nat
    BY BackendAssumption DEF TokensExact, QueueSize
  <1>2. States = {"idle", "gate", "wait", "work", "unqueue", "leave"}
    BY DEF States, InFlight, Queued
  <1>3. ASSUME NEW g \in Goroutine, NEW from \in States, NEW to \in States, Go(g, from, to),
               g \in Probe => to \in {"idle", "leave"}
        PROVE  /\ pc' \in [Request \cup Probe -> InFlight \cup {"idle"}]
               /\ \A p \in Probe : pc'[p] \in {"idle", "leave"}
    BY <1>3 DEF Go, TypeOK, Goroutine, States
  <1>4. ASSUME NEW g \in Request, Arrive(g) PROVE IInv'
    <2>1. g \in Goroutine /\ Go(g, "idle", "gate")
      BY <1>4 DEF Arrive, Goroutine
    <2> QED BY <1>1, <1>2, <1>3, <1>4, <2>1, GoCounts, RequestsAreNotProbes
            DEF Arrive, TokensExact, TypeOK, InFlight, Queued
  <1>5. ASSUME NEW g \in Request, Gate(g) PROVE IInv'
    <2>1. g \in Goroutine
      BY DEF Goroutine
    <2>2. CASE concQueue < QueueSize /\ Go(g, "gate", "wait") /\ concQueue' = concQueue + 1
      BY <1>1, <1>2, <1>3, <1>5, <2>1, <2>2, GoCounts, RequestsAreNotProbes
         DEF Gate, TokensExact, TypeOK, InFlight, Queued
    <2>3. CASE Go(g, "gate", "leave") /\ UNCHANGED concQueue
      BY <1>1, <1>2, <1>3, <1>5, <2>1, <2>3, GoCounts, RequestsAreNotProbes
         DEF Gate, TokensExact, TypeOK, InFlight, Queued
    <2> QED BY <1>5, <2>2, <2>3 DEF Gate
  <1>6. ASSUME NEW g \in Request, Wait(g) PROVE IInv'
    <2>1. g \in Goroutine
      BY DEF Goroutine
    <2>2. CASE concSem < MaxConc /\ Go(g, "wait", "work") /\ concSem' = concSem + 1
      BY <1>1, <1>2, <1>3, <1>6, <2>1, <2>2, GoCounts, RequestsAreNotProbes
         DEF Wait, TokensExact, TypeOK, InFlight, Queued
    <2>3. CASE Go(g, "wait", "unqueue") /\ UNCHANGED concSem
      BY <1>1, <1>2, <1>3, <1>6, <2>1, <2>3, GoCounts, RequestsAreNotProbes
         DEF Wait, TokensExact, TypeOK, InFlight, Queued
    <2> QED BY <1>6, <2>2, <2>3 DEF Wait, TakeSlot
  <1>7. ASSUME NEW g \in Request, FreeSlot(g) PROVE IInv'
    <2>1. g \in Goroutine /\ Go(g, "work", "unqueue")
      BY <1>7 DEF FreeSlot, Goroutine
    <2> QED BY <1>1, <1>2, <1>3, <1>7, <2>1, GoCounts, RequestsAreNotProbes
            DEF FreeSlot, TokensExact, TypeOK, InFlight, Queued
  <1>8. ASSUME NEW g \in Request, Unqueue(g) PROVE IInv'
    <2>1. g \in Goroutine /\ Go(g, "unqueue", "leave")
      BY <1>8 DEF Unqueue, Goroutine
    <2> QED BY <1>1, <1>2, <1>3, <1>8, <2>1, GoCounts, RequestsAreNotProbes
            DEF Unqueue, TokensExact, TypeOK, InFlight, Queued
  <1>9. ASSUME NEW g \in Goroutine, Leave(g) PROVE IInv'
    <2>1. g \in Goroutine /\ Go(g, "leave", "idle")
      BY <1>9 DEF Leave, Goroutine
    <2> QED BY <1>1, <1>2, <1>3, <1>9, <2>1, GoCounts, RequestsAreNotProbes
            DEF Leave, TokensExact, TypeOK, InFlight, Queued
  <1>10. ASSUME NEW g \in Probe, Probed(g) PROVE IInv'
    <2>1. g \in Goroutine /\ Go(g, "idle", "leave")
      BY <1>10 DEF Probed, Goroutine
    <2> QED BY <1>1, <1>2, <1>3, <1>10, <2>1, GoCounts, RequestsAreNotProbes
            DEF Probed, TokensExact, TypeOK, InFlight, Queued
  <1>11. CASE UNCHANGED vars
    BY <1>11 DEF vars, TypeOK, TokensExact, At
  <1> QED BY <1>4, <1>5, <1>6, <1>7, <1>8, <1>9, <1>10, <1>11 DEF Next, Serve, Goroutine

LEMMA InvariantIInv == Spec => []IInv
  BY InitIInv, NextIInv, PTL DEF Spec

\* Every variable of a backend has its type; serverRIF in particular never goes below
\* zero, for any number of requests and probes and any capacity.
THEOREM TypeCorrect == Spec => []TypeOK
  BY InvariantIInv, PTL DEF IInv

\* The counter a response carries as X-RIF is the number of requests and probes
\* the backend has, and each token of concQueue and concSem belongs to one
\* request, for any number of them and any capacity.
THEOREM TokensStayExact == Spec => []TokensExact
  BY InvariantIInv, PTL DEF IInv

\* A deferred receive finds a token in its channel: a handler whose request is over
\* never blocks in its releases, where no timer would get it out.
ReleasesReady ==
    \A g \in Request : /\ pc[g] = "work" => concSem > 0
                       /\ pc[g] = "unqueue" => concQueue > 0

\* No release ever blocks, on whichever path the request takes.
THEOREM ReleasesNeverBlock == Spec => []ReleasesReady
  <1>1. IInv => ReleasesReady
    <2> SUFFICES ASSUME IInv, NEW g \in Request
                 PROVE  /\ pc[g] = "work" => concSem > 0
                        /\ pc[g] = "unqueue" => concQueue > 0
      BY DEF ReleasesReady
    <2>1. ASSUME NEW P, pc[g] \in P PROVE Cardinality(At(P)) > 0
      <3>1. g \in At(P) /\ At(P) \subseteq Goroutine
        BY <2>1 DEF At, Goroutine
      <3> QED BY <3>1, GoroutinesFinite, FS_Subset, FS_EmptySet, FS_CardinalityType
    <2>2. pc[g] = "work" => Cardinality(At({"work"})) > 0
      BY <2>1
    <2>3. pc[g] = "unqueue" => Cardinality(At(Queued)) > 0
      BY <2>1 DEF Queued
    <2> QED BY <2>2, <2>3 DEF IInv, TokensExact
  <1> QED BY <1>1, InvariantIInv, PTL

\* What RefusedOnlyWhenRoomFull comes to in the code: a request that is refused at
\* the gate leaves at least two times, instead of three times, the active slots
\* of requests that hold a place without being served.
RefusedWithRoomTaken ==
    [][\A g \in Request :
          pc[g] = "gate" /\ pc'[g] = "leave" =>
              Cardinality(At({"wait", "unqueue"})) >= 2 * MaxConc]_vars

\* No request is refused at the gate with less than two thirds of the room taken
\* by requests that are not served, for any capacity and load.
THEOREM RefusalsHaveTakenRoom == Spec => RefusedWithRoomTaken
  <1>1. IInv /\ [Next]_vars =>
          [\A g \in Request :
              pc[g] = "gate" /\ pc'[g] = "leave" =>
                  Cardinality(At({"wait", "unqueue"})) >= 2 * MaxConc]_vars
    <2> SUFFICES ASSUME IInv, [Next]_vars, NEW g \in Request, pc[g] = "gate", pc'[g] = "leave"
                 PROVE  Cardinality(At({"wait", "unqueue"})) >= 2 * MaxConc
      OBVIOUS
    <2> DEFINE served == At({"work"})
               waiting == At({"wait", "unqueue"})
    <2>1. ~(concQueue < QueueSize)
      <3>1. ASSUME NEW f \in Request, Gate(f) PROVE ~(concQueue < QueueSize)
        BY <3>1 DEF Gate, Go, IInv, TypeOK
      <3>2. CASE UNCHANGED vars
        BY <3>2 DEF vars
      <3>3. ASSUME NEW f \in Request,
                   Arrive(f) \/ Wait(f) \/ FreeSlot(f) \/ Unqueue(f) \/ Leave(f)
            PROVE  FALSE
        BY <3>3 DEF Arrive, Wait, TakeSlot, FreeSlot, Unqueue, Leave, Go, IInv, TypeOK
      <3>4. ASSUME NEW f \in Probe, Probed(f) \/ Leave(f) PROVE FALSE
        BY <3>4, RequestsAreNotProbes DEF Probed, Leave, Go, IInv, TypeOK
      <3> QED BY <3>1, <3>2, <3>3, <3>4 DEF Next, Serve
    <2>2. /\ IsFiniteSet(served) /\ IsFiniteSet(waiting)
          /\ Cardinality(served) \in Nat /\ Cardinality(waiting) \in Nat
      <3>1. served \subseteq Goroutine /\ waiting \subseteq Goroutine
        BY DEF At, Goroutine
      <3> QED BY <3>1, GoroutinesFinite, FS_Subset, FS_CardinalityType
    <2>3. At(Queued) = served \cup waiting /\ served \cap waiting = {}
      BY DEF At, Queued
    <2>4. Cardinality(At(Queued)) = Cardinality(served) + Cardinality(waiting)
      BY <2>2, <2>3, FS_Union, FS_EmptySet
    <2>5. /\ concQueue = Cardinality(At(Queued)) /\ concSem = Cardinality(served)
          /\ concQueue \in Nat /\ concSem <= MaxConc /\ MaxConc \in Nat
          /\ QueueSize = MaxConc * 3
      BY BackendAssumption DEF IInv, TypeOK, TokensExact, QueueSize
    <2> QED BY <2>1, <2>2, <2>4, <2>5
  <1> QED BY <1>1, InvariantIInv, PTL DEF Spec, RefusedWithRoomTaken

-----------------------------------------------------------------------------
\* The balancer in front of it.

LEMMA OwnIsFinite == IsFiniteSet(Own)
  BY FS_Subset, BackendAssumption, ServiceAssumption

\* The backend cannot tell the balancer from any other client.
LEMMA BackendSteps == [ServiceNext]_svars => [Next]_vars
  <1>1. ASSUME NEW h \in Own, Forwarding(h) PROVE [Next]_vars
    <2>1. h \in Request
      BY ServiceAssumption
    <2>2. CASE Send(h)
      BY <2>1, <2>2 DEF Send, Next
    <2>3. CASE UNCHANGED vars
      BY <2>3
    <2> QED BY <1>1, <2>2, <2>3 DEF Forwarding, Accept, SendFails, Answered, Abandon, Finish
  <1>2. BackendAlone => Next
    BY DEF BackendAlone, Next
  <1>3. Shutdown \/ MainReturns \/ Crash \/ Restart => UNCHANGED vars
    BY DEF Shutdown, MainReturns, Crash, Restart, Die
  <1>4. UNCHANGED svars => UNCHANGED vars
    BY DEF svars
  <1> QED BY <1>1, <1>2, <1>3, <1>4 DEF ServiceNext

\* Whatever the balancer does, fails to do, or leaves behind when it dies, the
\* backend behaves as it does with any clients.
THEOREM BackendIsUnaware == ServiceSpec => Init /\ [][Next]_vars
  <1>1. ServiceInit => Init
    BY DEF ServiceInit
  <1> QED BY <1>1, BackendSteps, PTL DEF ServiceSpec

LEMMA BackendInvariant == ServiceSpec => []IInv
  <1>1. ServiceInit => IInv
    BY InitIInv DEF ServiceInit
  <1>2. IInv /\ [ServiceNext]_svars => IInv'
    BY BackendSteps, NextIInv
  <1> QED BY <1>1, <1>2, PTL DEF ServiceSpec

\* So Backend keeps its types, and its counter and tokens count exactly the
\* requests that hold them, behind a balancer that fails, stops or dies as well
\* (ServiceHandler, and the release of both by its deferred functions).
THEOREM TokensExactBehindBalancer == ServiceSpec => [](TypeOK /\ TokensExact)
  BY BackendInvariant, PTL DEF IInv

-----------------------------------------------------------------------------
Stages == {"idle", "sending", "waiting", "leaving"}

InProgress == {h \in Own : lb[h] # "idle"}

\* ClientRIF counts the requests in progress.
SInv == ServiceTypeOK /\ clientRIF = Cardinality(InProgress)

LEMMA MoveCounts ==
  ASSUME ServiceTypeOK, NEW h \in Own, NEW from \in Stages, NEW to \in Stages, Move(h, from, to)
  PROVE  /\ lb' \in [Own -> Stages]
         /\ Cardinality(InProgress) \in Nat
         /\ from # "idle" /\ to # "idle" => Cardinality(InProgress)' = Cardinality(InProgress)
         /\ from = "idle" /\ to # "idle" => Cardinality(InProgress)' = Cardinality(InProgress) + 1
         /\ from # "idle" /\ to = "idle" => /\ Cardinality(InProgress) > 0
                                            /\ Cardinality(InProgress)' = Cardinality(InProgress) - 1
  <1>1. lb \in [Own -> Stages] /\ lb[h] = from /\ lb' = [lb EXCEPT ![h] = to]
    BY DEF ServiceTypeOK, Stages, Move
  <1>2. IsFiniteSet(InProgress) /\ Cardinality(InProgress) \in Nat
    BY OwnIsFinite, FS_Subset, FS_CardinalityType DEF InProgress
  <1>3. from # "idle" /\ to # "idle" => InProgress' = InProgress
    BY <1>1 DEF InProgress
  <1>4. ASSUME from = "idle", to # "idle"
        PROVE  Cardinality(InProgress)' = Cardinality(InProgress) + 1
    <2>1. InProgress' = InProgress \cup {h} /\ h \notin InProgress
      BY <1>1, <1>4 DEF InProgress
    <2> QED BY <1>2, <2>1, FS_AddElement
  <1>5. ASSUME from # "idle", to = "idle"
        PROVE  /\ Cardinality(InProgress) > 0
               /\ Cardinality(InProgress)' = Cardinality(InProgress) - 1
    <2>1. InProgress' = InProgress \ {h} /\ h \in InProgress
      BY <1>1, <1>5 DEF InProgress
    <2>2. Cardinality(InProgress \ {h}) = Cardinality(InProgress) - 1
      BY <1>2, <2>1, FS_RemoveElement
    <2>3. Cardinality(InProgress) # 0
      BY <1>2, <2>1, FS_EmptySet
    <2> QED BY <1>2, <2>1, <2>2, <2>3
  <1> QED BY <1>1, <1>2, <1>3, <1>4, <1>5

LEMMA InitSInv == ServiceInit => SInv
  <1> SUFFICES ASSUME ServiceInit PROVE SInv
    OBVIOUS
  <1>1. InProgress = {}
    BY DEF ServiceInit, InProgress
  <1> QED BY <1>1, FS_EmptySet DEF ServiceInit, SInv, ServiceTypeOK, Down

LEMMA NextSInv == SInv /\ [ServiceNext]_svars => SInv'
  <1> SUFFICES ASSUME SInv, [ServiceNext]_svars PROVE SInv'
    OBVIOUS
  <1> USE DEF SInv
  <1>1. Stages = {"idle", "sending", "waiting", "leaving"}
    BY DEF Stages
  <1>2. life \in {"serving", "closed"} \cup Down /\ clientRIF \in Nat
    BY DEF ServiceTypeOK
  <1>3. ASSUME NEW h \in Own, Accept(h) PROVE SInv'
    <2>1. Move(h, "idle", "sending")
      BY <1>3 DEF Accept
    <2> QED BY <1>1, <1>2, <1>3, <2>1, MoveCounts DEF Accept, ServiceTypeOK, Down
  <1>4. ASSUME NEW h \in Own, Send(h) \/ SendFails(h) \/ Answered(h) \/ Abandon(h) PROVE SInv'
    <2>1. PICK from \in Stages \ {"idle"}, to \in Stages \ {"idle"} : Move(h, from, to)
      BY <1>1, <1>4 DEF Send, SendFails, Answered, Abandon
    <2>2. UNCHANGED <<life, clientRIF>>
      BY <1>4 DEF Send, SendFails, Answered, Abandon
    <2> QED BY <1>1, <1>2, <2>1, <2>2, MoveCounts DEF ServiceTypeOK
  <1>5. ASSUME NEW h \in Own, Finish(h) PROVE SInv'
    <2>1. Move(h, "leaving", "idle") /\ UNCHANGED life /\ clientRIF' = clientRIF - 1
      BY <1>5 DEF Finish
    <2> QED BY <1>1, <1>2, <2>1, MoveCounts DEF ServiceTypeOK
  <1>6. ASSUME MainReturns \/ Crash PROVE SInv'
    <2>1. life' \in Down /\ clientRIF' = 0 /\ lb' = [h \in Own |-> "idle"]
      BY <1>6 DEF MainReturns, Crash, Die, Down
    <2>2. InProgress' = {}
      BY <2>1 DEF InProgress
    <2> QED BY <2>1, <2>2, FS_EmptySet DEF ServiceTypeOK
  <1>7. ASSUME Shutdown \/ Restart \/ BackendAlone \/ UNCHANGED svars PROVE SInv'
    <2>1. UNCHANGED <<clientRIF, lb>> /\ life' \in {"serving", "closed", life}
      BY <1>7 DEF Shutdown, Restart, BackendAlone, balancer, svars
    <2>2. InProgress' = InProgress
      BY <2>1 DEF InProgress
    <2> QED BY <1>2, <2>1, <2>2 DEF ServiceTypeOK, Down
  <1> QED BY <1>3, <1>4, <1>5, <1>6, <1>7 DEF ServiceNext, Forwarding

LEMMA InvariantSInv == ServiceSpec => []SInv
  BY InitSInv, NextSInv, PTL DEF ServiceSpec

\* Every variable of the balancer has its type; ClientRIF in particular never goes
\* below zero, through failures, clients that give up, crashes and restarts.
THEOREM ServiceTypeCorrect == ServiceSpec => []ServiceTypeOK
  BY InvariantSInv, PTL DEF SInv

-----------------------------------------------------------------------------
\* The two counters have in common the calls that wait at the backend.
LEMMA CountersReconcile == IInv /\ SInv => RIFsReconcile
  <1> SUFFICES ASSUME IInv, SInv PROVE RIFsReconcile
    OBVIOUS
  <1> DEFINE Shared == {h \in Own : lb[h] = "waiting" /\ pc[h] # "idle"}
  <1>1. IsFiniteSet(Shared) /\ IsFiniteSet(InTransit) /\ IsFiniteSet(Foreign)
    <2>1. Shared \subseteq Own /\ InTransit \subseteq Own /\ Foreign \subseteq Goroutine
      BY DEF InTransit, Foreign, AtBackend, Goroutine
    <2> QED BY <2>1, OwnIsFinite, GoroutinesFinite, FS_Subset
  <1>2. lb \in [Own -> Stages] /\ Own \subseteq Request
    BY ServiceAssumption DEF SInv, ServiceTypeOK, Stages
  <1>3. InProgress = InTransit \cup Shared /\ InTransit \cap Shared = {}
    BY <1>2 DEF InProgress, InTransit, Stages
  <1>4. AtBackend = Foreign \cup Shared /\ Foreign \cap Shared = {}
    BY <1>2 DEF AtBackend, Foreign
  <1>5. At(InFlight) = AtBackend
    BY DEF IInv, TypeOK, At, InFlight, Queued, AtBackend
  <1> HIDE DEF Shared
  <1>6. clientRIF = Cardinality(InTransit) + Cardinality(Shared)
    <2>1. /\ Cardinality(InTransit \cup Shared)
               = Cardinality(InTransit) + Cardinality(Shared) - Cardinality(InTransit \cap Shared)
          /\ Cardinality(InTransit) \in Nat /\ Cardinality(Shared) \in Nat
      BY <1>1, FS_Union, FS_CardinalityType
    <2>2. Cardinality(InTransit \cap Shared) = 0
      BY <1>3, FS_EmptySet
    <2> QED BY <1>3, <2>1, <2>2 DEF SInv
  <1>7. serverRIF = Cardinality(Foreign) + Cardinality(Shared)
    <2>1. /\ Cardinality(Foreign \cup Shared)
               = Cardinality(Foreign) + Cardinality(Shared) - Cardinality(Foreign \cap Shared)
          /\ Cardinality(Foreign) \in Nat /\ Cardinality(Shared) \in Nat
      BY <1>1, FS_Union, FS_CardinalityType
    <2>2. Cardinality(Foreign \cap Shared) = 0
      BY <1>4, FS_EmptySet
    <2> QED BY <1>4, <1>5, <2>1, <2>2 DEF IInv, TokensExact
  <1> QED BY <1>1, <1>6, <1>7, FS_CardinalityType DEF RIFsReconcile

\* ClientRIF and serverRIF differ by the calls in transit and by the work at the
\* backend that the balancer does not know of, whatever fails and however many
\* clients there are.
THEOREM CountersStayReconciled == ServiceSpec => []RIFsReconcile
  BY BackendInvariant, InvariantSInv, CountersReconcile, PTL
=============================================================================
