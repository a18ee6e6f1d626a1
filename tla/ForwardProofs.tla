--------------------------- MODULE ForwardProofs ---------------------------
(***************************************************************************)
(* ClientRIF, the active gauge and the counters of Healthz are exact for   *)
(* any number of servers, of request goroutines and of requests.           *)
(***************************************************************************)
EXTENDS Forward, FiniteSetTheorems, TLAPS

AllPoints == Unassigned \cup Answered \cup Forwarding \cup {"enter"}

\* The sizes of two sets of goroutines that differ in h at most.
SizesFollow(A, B, h) ==
    /\ Cardinality(A) \in Nat /\ Cardinality(B) \in Nat
    /\ (h \in A <=> h \in B) => Cardinality(B) = Cardinality(A)
    /\ h \notin A /\ h \in B => Cardinality(B) = Cardinality(A) + 1
    /\ h \in A /\ h \notin B => Cardinality(B) = Cardinality(A) - 1

LEMMA OneMoves ==
  ASSUME NEW h \in Handler, NEW A \in SUBSET Handler, NEW B \in SUBSET Handler,
         A \ {h} = B \ {h}
  PROVE  SizesFollow(A, B, h)
  <1>1. IsFiniteSet(A) /\ IsFiniteSet(B)
    BY FS_Subset, ForwardAssumption
  <1>2. Cardinality(A) \in Nat /\ Cardinality(B) \in Nat
    BY <1>1, FS_CardinalityType
  <1>3. (h \in A <=> h \in B) => A = B
    OBVIOUS
  <1>4. ASSUME h \notin A, h \in B PROVE Cardinality(B) = Cardinality(A) + 1
    <2>1. B = A \cup {h}
      BY <1>4
    <2> QED BY <2>1, <1>1, <1>4, FS_AddElement
  <1>5. ASSUME h \in A, h \notin B PROVE Cardinality(B) = Cardinality(A) - 1
    <2>1. B = A \ {h}
      BY <1>5
    <2>2. Cardinality(A \ {h}) = Cardinality(A) - 1
      BY <1>1, <1>5, FS_RemoveElement
    <2> QED BY <2>1, <2>2
  <1> QED BY <1>2, <1>3, <1>4, <1>5 DEF SizesFollow

\* The locals of every goroutine but h stay as they are.
OnlyMoves(h) ==
    \A g \in Handler \ {h} : pc'[g] = pc[g] /\ server'[g] = server[g] /\ result'[g] = result[g]

\* Each set counted by a property follows the goroutine that moves.
LEMMA CountsFollow ==
  ASSUME NEW h \in Handler, OnlyMoves(h)
  PROVE  /\ SizesFollow(Serving, Serving', h)
         /\ SizesFollow(Failing, Failing', h)
         /\ SizesFollow(Uncounted, Uncounted', h)
         /\ SizesFollow({g \in Handler : pc[g] \in Active}, {g \in Handler : pc'[g] \in Active}, h)
         /\ \A s \in Server : SizesFollow(InFlight(s), InFlight(s)', h)
  <1>1. SizesFollow(Serving, Serving', h)
    <2>1. Serving \ {h} = Serving' \ {h}
      BY DEF OnlyMoves, Serving
    <2> QED BY <2>1, OneMoves DEF Serving
  <1>2. SizesFollow(Failing, Failing', h)
    <2>1. Failing \ {h} = Failing' \ {h}
      BY DEF OnlyMoves, Failing
    <2> QED BY <2>1, OneMoves DEF Failing
  <1>3. SizesFollow(Uncounted, Uncounted', h)
    <2>1. Uncounted \ {h} = Uncounted' \ {h}
      BY DEF OnlyMoves, Uncounted
    <2> QED BY <2>1, OneMoves DEF Uncounted
  <1>4. SizesFollow({g \in Handler : pc[g] \in Active}, {g \in Handler : pc'[g] \in Active}, h)
    <2>1. {g \in Handler : pc[g] \in Active} \ {h} = {g \in Handler : pc'[g] \in Active} \ {h}
      BY DEF OnlyMoves
    <2> QED BY <2>1, OneMoves
  <1>5. ASSUME NEW s \in Server PROVE SizesFollow(InFlight(s), InFlight(s)', h)
    <2>1. InFlight(s) \ {h} = InFlight(s)' \ {h}
      BY DEF OnlyMoves, InFlight
    <2> QED BY <2>1, OneMoves DEF InFlight
  <1> QED BY <1>1, <1>2, <1>3, <1>4, <1>5

\* One step of the goroutine h.
Step(h) ==
    \/ Arrive(h) \/ Select(h) \/ CountRejected(h) \/ Reject(h)
    \/ Enter(h) \/ IncActive(h) \/ Load(h, "load", "store") \/ Store(h, "store", "parse")
    \/ Parse(h) \/ Relay(h) \/ HandleError(h) \/ CountError(h)
    \/ Leave(h) \/ DecActive(h) \/ Load(h, "reload", "restore") \/ Store(h, "restore", "count")
    \/ Finish(h)

\* A goroutine changes no local of another one.
LEMMA StepOnlyMoves ==
  ASSUME TypeOK, NEW h \in Handler, Step(h)
  PROVE  OnlyMoves(h)
  <1>1. CASE Arrive(h)
    BY <1>1 DEF Arrive, Go, OnlyMoves, TypeOK
  <1>2. CASE Select(h)
    BY <1>2 DEF Select, Go, OnlyMoves, TypeOK
  <1>3. CASE CountRejected(h)
    BY <1>3 DEF CountRejected, Go, OnlyMoves, TypeOK
  <1>4. CASE Reject(h)
    BY <1>4 DEF Reject, Go, End, OnlyMoves, TypeOK
  <1>5. CASE Enter(h)
    BY <1>5 DEF Enter, Go, OnlyMoves, TypeOK
  <1>6. CASE IncActive(h)
    BY <1>6 DEF IncActive, Go, OnlyMoves, TypeOK
  <1>7. CASE Load(h, "load", "store")
    BY <1>7 DEF Load, Go, OnlyMoves, TypeOK
  <1>8. CASE Store(h, "store", "parse")
    BY <1>8 DEF Store, Go, OnlyMoves, TypeOK
  <1>9. CASE Parse(h)
    BY <1>9 DEF Parse, Go, OnlyMoves, TypeOK
  <1>10. CASE Relay(h)
    BY <1>10 DEF Relay, Go, OnlyMoves, TypeOK
  <1>11. CASE HandleError(h)
    BY <1>11 DEF HandleError, Go, OnlyMoves, TypeOK
  <1>12. CASE CountError(h)
    BY <1>12 DEF CountError, Go, OnlyMoves, TypeOK
  <1>13. CASE Leave(h)
    BY <1>13 DEF Leave, Go, OnlyMoves, TypeOK
  <1>14. CASE DecActive(h)
    BY <1>14 DEF DecActive, Go, OnlyMoves, TypeOK
  <1>15. CASE Load(h, "reload", "restore")
    BY <1>15 DEF Load, Go, OnlyMoves, TypeOK
  <1>16. CASE Store(h, "restore", "count")
    BY <1>16 DEF Store, Go, OnlyMoves, TypeOK
  <1>17. CASE Finish(h)
    BY <1>17 DEF Finish, Go, End, OnlyMoves, TypeOK
  <1> QED BY <1>1, <1>2, <1>3, <1>4, <1>5, <1>6, <1>7, <1>8, <1>9, <1>10, <1>11, <1>12, <1>13, <1>14, <1>15, <1>16, <1>17 DEF Step

\* TypeOK in two parts, what is shared and what each goroutine has.
Shared ==
    /\ clientRIF \in [Server -> Int] /\ gauge \in [Server -> Int]
    /\ active \in Int /\ total \in Int /\ ok \in Int /\ failed \in Int /\ errors \in Int
    /\ answered \in [Outcome -> Nat]

Local ==
    /\ pc \in [Handler -> AllPoints]
    /\ server \in [Handler -> Server \cup {NoServer}]
    /\ loaded \in [Handler -> Int]
    /\ result \in [Handler -> Outcome \cup {NoResult}]
    /\ \A h \in Handler : /\ server[h] \in Server <=> pc[h] \notin Unassigned
                          /\ result[h] \in Outcome <=> pc[h] \in Answered

LEMMA TypeOKSplit == TypeOK <=> Shared /\ Local
  BY DEF TypeOK, Shared, Local, AllPoints

LEMMA TypeOKSplitNext == TypeOK' <=> Shared' /\ Local'
  BY DEF TypeOK, Shared, Local, AllPoints

\* The shared variables keep their types.
LEMMA StepShared ==
  ASSUME Shared, Local, NEW h \in Handler, Step(h)
  PROVE  Shared'
  <1>a. /\ loaded[h] \in Int
        /\ pc[h] \in {"enter", "leave"} => server[h] \in Server
        /\ pc[h] \in {"rejected", "count"} => result[h] \in Outcome
    BY DEF Local, AllPoints, Unassigned, Answered
  <1>1. CASE Arrive(h)
    BY <1>1 DEF Arrive, Go, stats, Shared
  <1>2. CASE Select(h)
    BY <1>2 DEF Select, Go, stats, Shared
  <1>3. CASE CountRejected(h)
    BY <1>3 DEF CountRejected, Go, stats, Shared
  <1>4. CASE Reject(h)
    BY <1>a, <1>4 DEF Reject, Go, stats, End, Shared
  <1>5. CASE Enter(h)
    BY <1>a, <1>5 DEF Enter, Go, stats, Shared
  <1>6. CASE IncActive(h)
    BY <1>6 DEF IncActive, Go, stats, Shared
  <1>7. CASE Load(h, "load", "store")
    BY <1>a, <1>7 DEF Load, Go, stats, Shared
  <1>8. CASE Store(h, "store", "parse")
    BY <1>a, <1>8 DEF Store, Go, stats, Shared
  <1>9. CASE Parse(h)
    BY <1>9 DEF Parse, Go, stats, Shared
  <1>10. CASE Relay(h)
    BY <1>10 DEF Relay, Go, stats, Shared
  <1>11. CASE HandleError(h)
    BY <1>11 DEF HandleError, Go, stats, Shared
  <1>12. CASE CountError(h)
    BY <1>12 DEF CountError, Go, stats, Shared
  <1>13. CASE Leave(h)
    BY <1>a, <1>13 DEF Leave, Go, stats, Shared
  <1>14. CASE DecActive(h)
    BY <1>14 DEF DecActive, Go, stats, Shared
  <1>15. CASE Load(h, "reload", "restore")
    BY <1>a, <1>15 DEF Load, Go, stats, Shared
  <1>16. CASE Store(h, "restore", "count")
    BY <1>a, <1>16 DEF Store, Go, stats, Shared
  <1>17. CASE Finish(h)
    BY <1>a, <1>17 DEF Finish, Go, stats, End, Shared
  <1> QED BY <1>1, <1>2, <1>3, <1>4, <1>5, <1>6, <1>7, <1>8, <1>9, <1>10, <1>11, <1>12, <1>13, <1>14, <1>15, <1>16, <1>17 DEF Step

\* So do the locals, and a goroutine has a server and a result where it should.
LEMMA StepLocal ==
  ASSUME Shared, Local, NEW h \in Handler, Step(h)
  PROVE  Local'
  <1>1. CASE Arrive(h)
    BY <1>1, ForwardAssumption DEF Arrive, Go, stats, Shared, Local, AllPoints, Outcome, Unassigned, Answered, Forwarding, NoServer, NoResult
  <1>2. CASE Select(h)
    BY <1>2, ForwardAssumption DEF Select, Go, stats, Shared, Local, AllPoints, Outcome, Unassigned, Answered, Forwarding, NoServer, NoResult
  <1>3. CASE CountRejected(h)
    BY <1>3, ForwardAssumption DEF CountRejected, Go, stats, Shared, Local, AllPoints, Outcome, Unassigned, Answered, Forwarding, NoServer, NoResult
  <1>4. CASE Reject(h)
    BY <1>4, ForwardAssumption DEF Reject, Go, stats, End, Shared, Local, AllPoints, Outcome, Unassigned, Answered, Forwarding, NoServer, NoResult
  <1>5. CASE Enter(h)
    BY <1>5, ForwardAssumption DEF Enter, Go, stats, Shared, Local, AllPoints, Outcome, Unassigned, Answered, Forwarding, NoServer, NoResult
  <1>6. CASE IncActive(h)
    BY <1>6, ForwardAssumption DEF IncActive, Go, stats, Shared, Local, AllPoints, Outcome, Unassigned, Answered, Forwarding, NoServer, NoResult
  <1>7. CASE Load(h, "load", "store")
    BY <1>7, ForwardAssumption DEF Load, Go, stats, Shared, Local, AllPoints, Outcome, Unassigned, Answered, Forwarding, NoServer, NoResult
  <1>8. CASE Store(h, "store", "parse")
    BY <1>8, ForwardAssumption DEF Store, Go, stats, Shared, Local, AllPoints, Outcome, Unassigned, Answered, Forwarding, NoServer, NoResult
  <1>9. CASE Parse(h)
    BY <1>9, ForwardAssumption DEF Parse, Go, stats, Shared, Local, AllPoints, Outcome, Unassigned, Answered, Forwarding, NoServer, NoResult
  <1>10. CASE Relay(h)
    BY <1>10, ForwardAssumption DEF Relay, Go, stats, Shared, Local, AllPoints, Outcome, Unassigned, Answered, Forwarding, NoServer, NoResult
  <1>11. CASE HandleError(h)
    BY <1>11, ForwardAssumption DEF HandleError, Go, stats, Shared, Local, AllPoints, Outcome, Unassigned, Answered, Forwarding, NoServer, NoResult
  <1>12. CASE CountError(h)
    BY <1>12, ForwardAssumption DEF CountError, Go, stats, Shared, Local, AllPoints, Outcome, Unassigned, Answered, Forwarding, NoServer, NoResult
  <1>13. CASE Leave(h)
    BY <1>13, ForwardAssumption DEF Leave, Go, stats, Shared, Local, AllPoints, Outcome, Unassigned, Answered, Forwarding, NoServer, NoResult
  <1>14. CASE DecActive(h)
    BY <1>14, ForwardAssumption DEF DecActive, Go, stats, Shared, Local, AllPoints, Outcome, Unassigned, Answered, Forwarding, NoServer, NoResult
  <1>15. CASE Load(h, "reload", "restore")
    BY <1>15, ForwardAssumption DEF Load, Go, stats, Shared, Local, AllPoints, Outcome, Unassigned, Answered, Forwarding, NoServer, NoResult
  <1>16. CASE Store(h, "restore", "count")
    BY <1>16, ForwardAssumption DEF Store, Go, stats, Shared, Local, AllPoints, Outcome, Unassigned, Answered, Forwarding, NoServer, NoResult
  <1>17. CASE Finish(h)
    BY <1>17, ForwardAssumption DEF Finish, Go, stats, End, Shared, Local, AllPoints, Outcome, Unassigned, Answered, Forwarding, NoServer, NoResult
  <1> QED BY <1>1, <1>2, <1>3, <1>4, <1>5, <1>6, <1>7, <1>8, <1>9, <1>10, <1>11, <1>12, <1>13, <1>14, <1>15, <1>16, <1>17 DEF Step

\* ClientRIF and the active gauge follow the requests between their two updates.
LEMMA StepInFlight ==
  ASSUME TypeOK, InFlightExact, NEW h \in Handler, Step(h)
  PROVE  InFlightExact'
  <1> DEFINE Act == {g \in Handler : pc[g] \in Active}
             ActNext == {g \in Handler : pc'[g] \in Active}
  <1>a. /\ SizesFollow(Act, ActNext, h)
        /\ \A s \in Server : SizesFollow(InFlight(s), InFlight(s)', h)
    BY StepOnlyMoves, CountsFollow
  <1>b. /\ h \in Act <=> pc[h] \in Active
        /\ h \in ActNext <=> pc'[h] \in Active
    OBVIOUS
  <1>c. \A s \in Server : /\ h \in InFlight(s) <=> server[h] = s /\ pc[h] \in Forwarding
                          /\ h \in InFlight(s)' <=> server'[h] = s /\ pc'[h] \in Forwarding
    BY DEF InFlight
  <1>d. /\ active = Cardinality(Act)
        /\ InFlightExact' <=> /\ \A s \in Server : clientRIF'[s] = Cardinality(InFlight(s)')
                              /\ active' = Cardinality(ActNext)
        /\ \A s \in Server : clientRIF[s] = Cardinality(InFlight(s))
    BY DEF InFlightExact
  <1>e. /\ clientRIF \in [Server -> Int] /\ active \in Int
        /\ pc \in [Handler -> AllPoints] /\ server \in [Handler -> Server \cup {NoServer}]
    BY DEF TypeOK, AllPoints
  <1> HIDE DEF Act, ActNext
  <1>1. CASE Arrive(h)
    BY <1>1, <1>a, <1>b, <1>c, <1>d, <1>e DEF Arrive, Go, stats, SizesFollow, Active, Forwarding
  <1>2. CASE Select(h)
    BY <1>2, <1>a, <1>b, <1>c, <1>d, <1>e DEF Select, Go, stats, SizesFollow, Active, Forwarding
  <1>3. CASE CountRejected(h)
    BY <1>3, <1>a, <1>b, <1>c, <1>d, <1>e DEF CountRejected, Go, stats, SizesFollow, Active, Forwarding
  <1>4. CASE Reject(h)
    BY <1>4, <1>a, <1>b, <1>c, <1>d, <1>e DEF Reject, Go, stats, End, SizesFollow, Active, Forwarding
  <1>5. CASE Enter(h)
    BY <1>5, <1>a, <1>b, <1>c, <1>d, <1>e DEF Enter, Go, stats, SizesFollow, Active, Forwarding
  <1>6. CASE IncActive(h)
    BY <1>6, <1>a, <1>b, <1>c, <1>d, <1>e DEF IncActive, Go, stats, SizesFollow, Active, Forwarding
  <1>7. CASE Load(h, "load", "store")
    BY <1>7, <1>a, <1>b, <1>c, <1>d, <1>e DEF Load, Go, stats, SizesFollow, Active, Forwarding
  <1>8. CASE Store(h, "store", "parse")
    BY <1>8, <1>a, <1>b, <1>c, <1>d, <1>e DEF Store, Go, stats, SizesFollow, Active, Forwarding
  <1>9. CASE Parse(h)
    BY <1>9, <1>a, <1>b, <1>c, <1>d, <1>e DEF Parse, Go, stats, SizesFollow, Active, Forwarding
  <1>10. CASE Relay(h)
    BY <1>10, <1>a, <1>b, <1>c, <1>d, <1>e DEF Relay, Go, stats, SizesFollow, Active, Forwarding
  <1>11. CASE HandleError(h)
    BY <1>11, <1>a, <1>b, <1>c, <1>d, <1>e DEF HandleError, Go, stats, SizesFollow, Active, Forwarding
  <1>12. CASE CountError(h)
    BY <1>12, <1>a, <1>b, <1>c, <1>d, <1>e DEF CountError, Go, stats, SizesFollow, Active, Forwarding
  <1>13. CASE Leave(h)
    BY <1>13, <1>a, <1>b, <1>c, <1>d, <1>e DEF Leave, Go, stats, SizesFollow, Active, Forwarding
  <1>14. CASE DecActive(h)
    BY <1>14, <1>a, <1>b, <1>c, <1>d, <1>e DEF DecActive, Go, stats, SizesFollow, Active, Forwarding
  <1>15. CASE Load(h, "reload", "restore")
    BY <1>15, <1>a, <1>b, <1>c, <1>d, <1>e DEF Load, Go, stats, SizesFollow, Active, Forwarding
  <1>16. CASE Store(h, "restore", "count")
    BY <1>16, <1>a, <1>b, <1>c, <1>d, <1>e DEF Store, Go, stats, SizesFollow, Active, Forwarding
  <1>17. CASE Finish(h)
    BY <1>17, <1>a, <1>b, <1>c, <1>d, <1>e DEF Finish, Go, stats, End, SizesFollow, Active, Forwarding
  <1> QED BY <1>1, <1>2, <1>3, <1>4, <1>5, <1>6, <1>7, <1>8, <1>9, <1>10, <1>11, <1>12, <1>13, <1>14, <1>15, <1>16, <1>17 DEF Step

\* Which results a goroutine can hold at the places where they are counted: the
\* ledger needs it, and is not inductive without it.
ResultFits ==
    \A h \in Handler : result[h] = "noServer" <=> pc[h] \in {"reject", "rejected"}

\* A rejected request goes no further, and no other one is rejected.
LEMMA StepResultFits ==
  ASSUME Local, ResultFits, NEW h \in Handler, Step(h)
  PROVE  ResultFits'
  <1>1. CASE Arrive(h)
    BY <1>1 DEF Arrive, Go, Local, Answered, Outcome, ResultFits, NoResult
  <1>2. CASE Select(h)
    BY <1>2 DEF Select, Go, Local, Answered, Outcome, ResultFits, NoResult
  <1>3. CASE CountRejected(h)
    BY <1>3 DEF CountRejected, Go, Local, Answered, Outcome, ResultFits, NoResult
  <1>4. CASE Reject(h)
    BY <1>4 DEF Reject, Go, End, Local, Answered, Outcome, ResultFits, NoResult
  <1>5. CASE Enter(h)
    BY <1>5 DEF Enter, Go, Local, Answered, Outcome, ResultFits, NoResult
  <1>6. CASE IncActive(h)
    BY <1>6 DEF IncActive, Go, Local, Answered, Outcome, ResultFits, NoResult
  <1>7. CASE Load(h, "load", "store")
    BY <1>7 DEF Load, Go, Local, Answered, Outcome, ResultFits, NoResult
  <1>8. CASE Store(h, "store", "parse")
    BY <1>8 DEF Store, Go, Local, Answered, Outcome, ResultFits, NoResult
  <1>9. CASE Parse(h)
    BY <1>9 DEF Parse, Go, Local, Answered, Outcome, ResultFits, NoResult
  <1>10. CASE Relay(h)
    BY <1>10 DEF Relay, Go, Local, Answered, Outcome, ResultFits, NoResult
  <1>11. CASE HandleError(h)
    BY <1>11 DEF HandleError, Go, Local, Answered, Outcome, ResultFits, NoResult
  <1>12. CASE CountError(h)
    BY <1>12 DEF CountError, Go, Local, Answered, Outcome, ResultFits, NoResult
  <1>13. CASE Leave(h)
    BY <1>13 DEF Leave, Go, Local, Answered, Outcome, ResultFits, NoResult
  <1>14. CASE DecActive(h)
    BY <1>14 DEF DecActive, Go, Local, Answered, Outcome, ResultFits, NoResult
  <1>15. CASE Load(h, "reload", "restore")
    BY <1>15 DEF Load, Go, Local, Answered, Outcome, ResultFits, NoResult
  <1>16. CASE Store(h, "restore", "count")
    BY <1>16 DEF Store, Go, Local, Answered, Outcome, ResultFits, NoResult
  <1>17. CASE Finish(h)
    BY <1>17 DEF Finish, Go, End, Local, Answered, Outcome, ResultFits, NoResult
  <1> QED BY <1>1, <1>2, <1>3, <1>4, <1>5, <1>6, <1>7, <1>8, <1>9, <1>10, <1>11, <1>12, <1>13, <1>14, <1>15, <1>16, <1>17 DEF Step

\* Every ending of a request is entered once where the ledger says, and the
\* requests that are between two counters are those of Failing and Uncounted.
LEMMA StepLedger ==
  ASSUME TypeOK, ResultFits, Ledger, NEW h \in Handler, Step(h)
  PROVE  Ledger'
  <1>a. /\ SizesFollow(Serving, Serving', h)
        /\ SizesFollow(Failing, Failing', h)
        /\ SizesFollow(Uncounted, Uncounted', h)
    BY StepOnlyMoves, CountsFollow
  <1>b. /\ h \in Serving <=> pc[h] # "idle"
        /\ h \in Serving' <=> pc'[h] # "idle"
        /\ h \in Failing <=> pc[h] = "rejected" \/ result[h] = "upstreamError"
        /\ h \in Failing' <=> pc'[h] = "rejected" \/ result'[h] = "upstreamError"
        /\ h \in Uncounted <=> pc[h] \in {"rejected", "handle"}
        /\ h \in Uncounted' <=> pc'[h] \in {"rejected", "handle"}
    BY DEF Serving, Failing, Uncounted
  <1>c. /\ total \in Int /\ ok \in Int /\ failed \in Int /\ errors \in Int
        /\ answered \in [Outcome -> Nat]
        /\ pc \in [Handler -> AllPoints] /\ result \in [Handler -> Outcome \cup {NoResult}]
        /\ result[h] \in Outcome <=> pc[h] \in Answered
        /\ result[h] = "noServer" <=> pc[h] \in {"reject", "rejected"}
    BY DEF TypeOK, ResultFits, AllPoints
  <1>1. CASE Arrive(h)
    BY <1>1, <1>a, <1>b, <1>c DEF Arrive, Go, stats, SizesFollow, Ledger, Outcome, Answered, NoResult
  <1>2. CASE Select(h)
    BY <1>2, <1>a, <1>b, <1>c DEF Select, Go, stats, SizesFollow, Ledger, Outcome, Answered, NoResult
  <1>3. CASE CountRejected(h)
    BY <1>3, <1>a, <1>b, <1>c DEF CountRejected, Go, stats, SizesFollow, Ledger, Outcome, Answered, NoResult
  <1>4. CASE Reject(h)
    <2>1. /\ pc[h] = "rejected" /\ pc'[h] = "idle" /\ result[h] = "noServer" /\ result'[h] = NoResult
      BY <1>4, <1>c DEF Reject, Go, End
    <2>2. /\ answered'["noServer"] = answered["noServer"] + 1
          /\ \A o \in Outcome \ {"noServer"} : answered'[o] = answered[o]
          /\ total' = total /\ ok' = ok /\ failed' = failed /\ errors' = errors + 1
      BY <1>4, <1>c, <2>1 DEF Reject, End, Outcome
    <2>3. /\ Cardinality(Serving') = Cardinality(Serving) - 1
          /\ Cardinality(Failing') = Cardinality(Failing) - 1
          /\ Cardinality(Uncounted') = Cardinality(Uncounted) - 1
      BY <1>a, <1>b, <2>1 DEF SizesFollow, NoResult
    <2> QED BY <1>a, <1>c, <2>2, <2>3 DEF SizesFollow, Ledger, Outcome
  <1>5. CASE Enter(h)
    BY <1>5, <1>a, <1>b, <1>c DEF Enter, Go, stats, SizesFollow, Ledger, Outcome, Answered, NoResult
  <1>6. CASE IncActive(h)
    BY <1>6, <1>a, <1>b, <1>c DEF IncActive, Go, stats, SizesFollow, Ledger, Outcome, Answered, NoResult
  <1>7. CASE Load(h, "load", "store")
    BY <1>7, <1>a, <1>b, <1>c DEF Load, Go, stats, SizesFollow, Ledger, Outcome, Answered, NoResult
  <1>8. CASE Store(h, "store", "parse")
    BY <1>8, <1>a, <1>b, <1>c DEF Store, Go, stats, SizesFollow, Ledger, Outcome, Answered, NoResult
  <1>9. CASE Parse(h)
    BY <1>9, <1>a, <1>b, <1>c DEF Parse, Go, stats, SizesFollow, Ledger, Outcome, Answered, NoResult
  <1>10. CASE Relay(h)
    BY <1>10, <1>a, <1>b, <1>c DEF Relay, Go, stats, SizesFollow, Ledger, Outcome, Answered, NoResult
  <1>11. CASE HandleError(h)
    BY <1>11, <1>a, <1>b, <1>c DEF HandleError, Go, stats, SizesFollow, Ledger, Outcome, Answered, NoResult
  <1>12. CASE CountError(h)
    BY <1>12, <1>a, <1>b, <1>c DEF CountError, Go, stats, SizesFollow, Ledger, Outcome, Answered, NoResult
  <1>13. CASE Leave(h)
    BY <1>13, <1>a, <1>b, <1>c DEF Leave, Go, stats, SizesFollow, Ledger, Outcome, Answered, NoResult
  <1>14. CASE DecActive(h)
    BY <1>14, <1>a, <1>b, <1>c DEF DecActive, Go, stats, SizesFollow, Ledger, Outcome, Answered, NoResult
  <1>15. CASE Load(h, "reload", "restore")
    BY <1>15, <1>a, <1>b, <1>c DEF Load, Go, stats, SizesFollow, Ledger, Outcome, Answered, NoResult
  <1>16. CASE Store(h, "restore", "count")
    BY <1>16, <1>a, <1>b, <1>c DEF Store, Go, stats, SizesFollow, Ledger, Outcome, Answered, NoResult
  <1>17. CASE Finish(h)
    BY <1>17, <1>a, <1>b, <1>c DEF Finish, Go, stats, End, SizesFollow, Ledger, Outcome, Answered, NoResult
  <1> QED BY <1>1, <1>2, <1>3, <1>4, <1>5, <1>6, <1>7, <1>8, <1>9, <1>10, <1>11, <1>12, <1>13, <1>14, <1>15, <1>16, <1>17 DEF Step

\* The inductive invariant.
IInv == TypeOK /\ InFlightExact /\ ResultFits /\ Ledger

LEMMA InitIInv == Init => IInv
  <1> SUFFICES ASSUME Init PROVE IInv
    OBVIOUS
  <1>1. TypeOK
    BY ForwardAssumption DEF Init, TypeOK, Unassigned, Answered, Outcome, NoServer, NoResult
  <1>2. /\ \A s \in Server : InFlight(s) = {}
        /\ {h \in Handler : pc[h] \in Active} = {}
        /\ Serving = {} /\ Failing = {} /\ Uncounted = {}
    BY DEF Init, InFlight, Active, Forwarding, Serving, Failing, Uncounted, NoResult
  <1>3. InFlightExact
    BY <1>2, FS_EmptySet DEF InFlightExact, Init
  <1>4. Ledger
    BY <1>2, FS_EmptySet DEF Ledger, Init, Outcome
  <1>5. ResultFits
    BY DEF ResultFits, Init, NoResult
  <1> QED BY <1>1, <1>3, <1>4, <1>5 DEF IInv

LEMMA NextIInv == IInv /\ [Next]_vars => IInv'
  <1> SUFFICES ASSUME IInv, [Next]_vars PROVE IInv'
    OBVIOUS
  <1>1. ASSUME NEW h \in Handler, Step(h) PROVE IInv'
    <2>1. TypeOK'
      BY <1>1, StepShared, StepLocal, TypeOKSplit, TypeOKSplitNext DEF IInv
    <2>2. InFlightExact'
      BY <1>1, StepInFlight DEF IInv
    <2>3. ResultFits'
      BY <1>1, StepResultFits, TypeOKSplit DEF IInv
    <2>4. Ledger'
      BY <1>1, StepLedger DEF IInv
    <2> QED BY <2>1, <2>2, <2>3, <2>4 DEF IInv
  <1>2. ASSUME UNCHANGED vars PROVE IInv'
    BY <1>2 DEF IInv, vars, stats, locals, TypeOK, InFlightExact, InFlight, ResultFits, Ledger,
                Serving, Failing, Uncounted
  <1>3. Next => \E h \in Handler : Step(h)
    BY DEF Next, Step
  <1> QED BY <1>1, <1>2, <1>3

LEMMA InvariantIInv == Spec => []IInv
  BY InitIInv, NextIInv, PTL DEF Spec

\* Every variable has its type, and forwardRequest is never entered without a
\* server, for any fleet and any number of concurrent requests.
THEOREM TypeCorrect == Spec => []TypeOK
  BY InvariantIInv, PTL DEF IInv

\* ClientRIF and lb_active_requests count the requests in flight exactly, on
\* every way out of forwardRequest, the panic included.
THEOREM InFlightStaysExact == Spec => []InFlightExact
  BY InvariantIInv, PTL DEF IInv

\* What TotalRequests, SuccessfulRequests and FailedRequests of Healthz and
\* lb_request_errors_total say of the requests so far, at every moment.
THEOREM LedgerBalances == Spec => []Ledger
  BY InvariantIInv, PTL DEF IInv

\* With no request in progress lb_request_errors_total counts the failed attempts
\* exactly when none of them was answered with 500 or broke off: those two endings
\* are all that FailuresCounted overlooks.
THEOREM OnlyTwoEndingsUncounted ==
  Spec => [](Quiet => (FailuresCounted <=> /\ answered["internalError"] = 0
                                           /\ answered["aborted"] = 0))
  <1>1. ASSUME IInv, Quiet
        PROVE  FailuresCounted <=> answered["internalError"] = 0 /\ answered["aborted"] = 0
    <2>1. Failing = {} /\ Uncounted = {}
      BY <1>1 DEF Quiet, Failing, Uncounted, IInv, TypeOK, Outcome, Answered
    <2>2. errors = failed /\ failed = answered["noServer"] + answered["upstreamError"]
      BY <1>1, <2>1, FS_EmptySet DEF IInv, Ledger, TypeOK, Outcome
    <2>3. \A o \in Outcome : answered[o] \in Nat
      BY <1>1 DEF IInv, TypeOK
    <2> QED BY <1>1, <2>2, <2>3 DEF FailuresCounted, Outcome
  <1> QED BY <1>1, InvariantIInv, PTL

-----------------------------------------------------------------------------
\* The gauge, with one request at a time.

\* The gauge of a server follows ClientRIF but between a change of that and the
\* store, and what is stored there is what ClientRIF still is.
GaugeFollows ==
    \A h \in Handler, s \in Server :
        /\ gauge[s] # clientRIF[s]
              => s = server[h] /\ pc[h] \in {"entered", "load", "store", "left", "reload", "restore"}
        /\ (s = server[h] /\ pc[h] \in {"store", "restore"}) => loaded[h] = clientRIF[s]

LEMMA GaugeStep ==
  ASSUME TypeOK, GaugeFollows, NEW h \in Handler, Handler = {h}, Step(h)
  PROVE  GaugeFollows'
  <1> USE DEF GaugeFollows, TypeOK, Go
  <1>1. CASE Arrive(h)
    BY <1>1 DEF Arrive
  <1>2. CASE Select(h)
    BY <1>2 DEF Select
  <1>3. CASE CountRejected(h)
    BY <1>3 DEF CountRejected
  <1>4. CASE Reject(h)
    BY <1>4 DEF Reject, End
  <1>5. CASE Enter(h)
    BY <1>5 DEF Enter
  <1>6. CASE IncActive(h)
    BY <1>6 DEF IncActive
  <1>7. CASE Load(h, "load", "store") \/ Load(h, "reload", "restore")
    BY <1>7 DEF Load
  <1>8. ASSUME NEW from \in {"store", "restore"}, NEW to \in {"parse", "count"},
               Store(h, from, to)
        PROVE  GaugeFollows'
    <2>1. /\ pc[h] = from /\ pc'[h] = to
          /\ UNCHANGED <<clientRIF, server, loaded>>
          /\ gauge' = [gauge EXCEPT ![server[h]] = loaded[h]]
      BY <1>8 DEF Store
    <2>2. ASSUME NEW s \in Server PROVE gauge'[s] = clientRIF'[s]
      <3>1. CASE s = server[h]
        BY <2>1, <3>1
      <3>2. CASE s # server[h]
        BY <2>1, <3>2
      <3> QED BY <3>1, <3>2
    <2> QED BY <2>1, <2>2
  <1>9. CASE Parse(h)
    BY <1>9 DEF Parse
  <1>10. CASE Relay(h)
    BY <1>10 DEF Relay
  <1>11. CASE HandleError(h)
    BY <1>11 DEF HandleError
  <1>12. CASE CountError(h)
    BY <1>12 DEF CountError
  <1>13. CASE Leave(h)
    BY <1>13 DEF Leave
  <1>14. CASE DecActive(h)
    BY <1>14 DEF DecActive
  <1>15. CASE Finish(h)
    BY <1>15 DEF Finish, End
  <1> QED BY <1>1, <1>2, <1>3, <1>4, <1>5, <1>6, <1>7, <1>8, <1>9, <1>10, <1>11, <1>12, <1>13,
             <1>14, <1>15 DEF Step

\* While requests do not overlap, lb_server_rif settles on ClientRIF, whatever way
\* each request ends: it is the overlap, and not a path of forwardRequest, that
\* leaves a stale value.
THEOREM GaugeSettlesWithoutOverlap ==
  ASSUME NEW CONSTANT h, Handler = {h}
  PROVE  Spec => []GaugeSettles
  <1>1. Init => GaugeFollows
    BY DEF Init, GaugeFollows
  <1>2. IInv /\ GaugeFollows /\ [Next]_vars => GaugeFollows'
    <2> SUFFICES ASSUME IInv, GaugeFollows, [Next]_vars PROVE GaugeFollows'
      OBVIOUS
    <2>1. CASE Next
      <3>1. Step(h)
        BY <2>1 DEF Next, Step
      <3> QED BY <3>1, GaugeStep DEF IInv
    <2>2. CASE UNCHANGED vars
      BY <2>2 DEF vars, locals, GaugeFollows
    <2> QED BY <2>1, <2>2
  <1>3. IInv /\ GaugeFollows => GaugeSettles
    <2> SUFFICES ASSUME IInv, GaugeFollows, Quiet PROVE gauge = clientRIF
      BY DEF GaugeSettles
    <2>1. ASSUME NEW s \in Server PROVE gauge[s] = clientRIF[s]
      BY DEF GaugeFollows, Quiet
    <2>2. gauge \in [Server -> Int] /\ clientRIF \in [Server -> Int]
      BY DEF IInv, TypeOK
    <2> QED BY <2>1, <2>2
  <1> QED BY <1>1, <1>2, <1>3, InvariantIInv, PTL DEF Spec
=============================================================================
