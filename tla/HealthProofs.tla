---------------------------- MODULE HealthProofs ----------------------------
(***************************************************************************)
(* The recorded health and the gauge each implement the failure detector,  *)
(* up to its fairness, for any interval, timeout and start of the prober   *)
(* and any number of probes at once.                                       *)
(***************************************************************************)
EXTENDS Health, FiniteSetTheorems, TLAPS

\* A call that may report an old state of the backend was sent before the last
\* change, so it is over a timeout after it; and a result that is to be published
\* is a single one, which was recorded within this tick.
Calls ==
    \A p \in Probe :
        /\ phase[p] = "sent" =>
              left[p] <= Timeout /\ (may[p] # {up} => left[p] + stable <= Timeout)
        /\ phase[p] = "publish" =>
              (\E r \in BOOLEAN : may[p] = {r}) /\ (may[p] # {up} => stable <= Timeout)

\* The next tick of the prober is an interval away at most, or it is the first.
Early == due + stable <= Timeout + Interval
Ticker ==
    \/ due <= Interval
    \/ Early /\ \A p \in Periodic : phase[p] = "idle"

\* A call that can only report the truth, and will in time.
Fresh(p) == phase[p] = "sent" /\ may[p] = {up} /\ left[p] + stable <= Lag

\* A wrong verdict is one that the next tick comes in time for, or that a call
\* under way corrects.
HealthDue == healthy = up \/ Early \/ \E p \in Periodic : Fresh(p)
GaugeDue ==
    \/ gauge = up \/ Early
    \/ \E p \in Periodic : Fresh(p) \/ (phase[p] = "publish" /\ may[p] = {up})

IInv == TypeOK /\ Calls /\ Ticker /\ HealthDue /\ GaugeDue

LEMMA Numbers ==
  /\ Interval \in Nat /\ Interval > 0 /\ Timeout \in Nat
  /\ Lag \in Nat /\ Lag = Timeout + Interval + Timeout
  BY HealthAssumption DEF Lag

LEMMA InitIInv == Init => IInv
  <1> SUFFICES ASSUME Init PROVE IInv
    OBVIOUS
  <1>1. Start \in Nat /\ Start <= Timeout + Interval
    BY HealthAssumption
  <1>2. /\ phase = [p \in Probe |-> "idle"] /\ left = [p \in Probe |-> 0]
        /\ may = [p \in Probe |-> {}]
        /\ due = Start /\ stable = 0
    BY DEF Init
  <1>3. /\ phase \in [Probe -> {"idle", "sent", "publish"}]
        /\ left \in [Probe -> Nat] /\ may \in [Probe -> SUBSET BOOLEAN]
        /\ \A p \in Probe : phase[p] = "idle"
    BY <1>2
  <1>4. stable \in 0..(Lag + 1) /\ due \in Nat
    BY <1>1, <1>2, Numbers
  <1>5. TypeOK
    BY <1>3, <1>4 DEF Init, TypeOK, Probe
  <1>6. Calls
    BY <1>3 DEF Calls
  <1>7. Early
    BY <1>1, <1>2, Numbers DEF Early
  <1>8. Ticker
    BY <1>3, <1>7 DEF Ticker, Probe
  <1> QED BY <1>5, <1>6, <1>7, <1>8 DEF IInv, HealthDue, GaugeDue

\* What a call that is sent changes.
LEMMA SendFacts ==
  ASSUME IInv, NEW p \in Probe, Send(p)
  PROVE  /\ phase' = [phase EXCEPT ![p] = "sent"] /\ phase[p] = "idle"
         /\ left' = [left EXCEPT ![p] = Timeout]
         /\ may' = [may EXCEPT ![p] = {up}]
         /\ phase \in [Probe -> {"idle", "sent", "publish"}]
         /\ left \in [Probe -> Nat] /\ may \in [Probe -> SUBSET BOOLEAN]
  BY DEF Send, IInv, TypeOK

\* What a call can return is old only within a timeout of the change.
LEMMA Results ==
  ASSUME IInv, NEW p \in Probe, phase[p] = "sent", NEW r \in may[p]
  PROVE  r \in BOOLEAN /\ (r # up => stable <= Timeout)
  <1>1. left[p] \in Nat /\ stable \in Nat /\ may[p] \in SUBSET BOOLEAN
    BY Numbers DEF IInv, TypeOK
  <1>2. r # up => may[p] # {up}
    OBVIOUS
  <1> QED BY <1>1, <1>2, Numbers DEF IInv, Calls

\* While a periodic probe is under way, or within a timeout of the start, the
\* next one is in time to correct what was recorded within a timeout of a change.
LEMMA InTime ==
  ASSUME IInv, stable <= Timeout,
         due <= Interval \/ Early
  PROVE  Early
  BY Numbers DEF IInv, TypeOK, Early

-----------------------------------------------------------------------------
LEMMA FlipIInv == IInv /\ Flip => IInv'
  <1> SUFFICES ASSUME IInv, Flip PROVE IInv'
    OBVIOUS
  <1>1. up' \in BOOLEAN /\ stable' = 0 /\ UNCHANGED <<healthy, gauge, due, phase, left>>
    BY DEF Flip
  <1>2. /\ may' \in [Probe -> SUBSET BOOLEAN]
        /\ \A p \in Probe : may'[p] = IF phase[p] = "sent" THEN BOOLEAN ELSE may[p]
    BY DEF Flip, IInv, TypeOK
  <1>3. due \in Nat /\ due <= Timeout + Interval /\ left \in [Probe -> Nat] /\ stable \in Nat
    BY Numbers DEF IInv, TypeOK, Ticker, Early
  <1>4. TypeOK'
    BY <1>1, <1>2, Numbers DEF IInv, TypeOK
  <1>5. Calls'
    BY <1>1, <1>2, <1>3, Numbers DEF IInv, Calls
  <1>6. Early'
    BY <1>1, <1>3, Numbers DEF Early
  <1>7. Ticker'
    BY <1>1, <1>6 DEF IInv, Ticker
  <1> QED BY <1>4, <1>5, <1>6, <1>7 DEF IInv, HealthDue, GaugeDue

\* What time takes from one number it gives to the other, at most.
LEMMA Countdown ==
  \A d, s, t \in Nat : t <= s + 1 => (d - 1) + t <= d + s
  OBVIOUS

LEMMA TickIInv == IInv /\ Tick => IInv'
  <1> SUFFICES ASSUME IInv, Tick PROVE IInv'
    OBVIOUS
  <1>1. /\ due' = due - 1 /\ due \in Nat /\ due > 0
        /\ stable \in Nat /\ stable' \in Nat /\ stable' <= Lag + 1
        /\ stable' <= stable + 1
        /\ UNCHANGED <<up, healthy, gauge, phase, may>>
        /\ left \in [Probe -> Nat]
    BY Numbers DEF Tick, IInv, TypeOK
  <1>2. /\ left' \in [Probe -> Nat]
        /\ \A p \in Probe : /\ phase[p] # "publish"
                            /\ phase[p] = "sent" => left'[p] = left[p] - 1 /\ left[p] > 0
    BY <1>1 DEF Tick, IInv, TypeOK, Min0
  <1>3. TypeOK'
    BY <1>1, <1>2, Numbers DEF IInv, TypeOK
  <1>4. Calls'
    BY <1>1, <1>2, Numbers DEF IInv, Calls
  <1>5. Early => Early'
    <2>1. due' + stable' <= due + stable
      BY <1>1, Countdown
    <2>2. due' + stable' \in Int /\ due + stable \in Int /\ Timeout + Interval \in Int
      BY <1>1, Numbers
    <2> QED BY <2>1, <2>2 DEF Early
  <1>6. Ticker'
    BY <1>1, <1>5, Numbers DEF IInv, Ticker
  <1>7. ASSUME NEW p \in Periodic, Fresh(p) PROVE Fresh(p)'
    BY <1>1, <1>2, <1>7, Numbers DEF Fresh, Probe
  <1>8. HealthDue'
    BY <1>1, <1>5, <1>7 DEF IInv, HealthDue
  <1>9. GaugeDue'
    BY <1>1, <1>2, <1>5, <1>7 DEF IInv, GaugeDue, Probe
  <1> QED BY <1>3, <1>4, <1>6, <1>8, <1>9 DEF IInv

\* Whatever else a call that is sent changes, the verdicts stay due.
LEMMA SendKeeps ==
  ASSUME IInv, NEW p \in Probe, Send(p), UNCHANGED <<up, stable, healthy, gauge>>
  PROVE  /\ Calls'
         /\ \A q \in Periodic : Fresh(q) => Fresh(q)'
         /\ \A q \in Periodic : phase[q] = "publish" => phase'[q] = "publish" /\ may'[q] = may[q]
  <1>1. Calls'
    BY SendFacts, Numbers DEF IInv, Calls, TypeOK
  <1>2. ASSUME NEW q \in Periodic, Fresh(q) PROVE Fresh(q)'
    <2>1. q \in Probe /\ q # p
      BY <1>2, SendFacts DEF Fresh, Probe
    <2> QED BY <1>2, <2>1, SendFacts DEF Fresh
  <1>3. ASSUME NEW q \in Periodic, phase[q] = "publish"
        PROVE  phase'[q] = "publish" /\ may'[q] = may[q]
    BY <1>3, SendFacts DEF Probe
  <1> QED BY <1>1, <1>2, <1>3

LEMMA ProbeAllIInv == IInv /\ ProbeAll => IInv'
  <1> SUFFICES ASSUME IInv, ProbeAll PROVE IInv'
    OBVIOUS
  <1>1. PICK p \in Periodic : Send(p)
    BY DEF ProbeAll
  <1>2. p \in Probe /\ due = 0 /\ due' = Interval /\ UNCHANGED <<up, stable, healthy, gauge>>
    BY DEF ProbeAll, Probe
  <1>3. TypeOK'
    BY <1>1, <1>2, SendFacts, Numbers DEF IInv, TypeOK, Probe
  <1>4. Ticker'
    BY <1>2, Numbers DEF Ticker
  <1>5. Early => Fresh(p)'
    BY <1>1, <1>2, SendFacts, Numbers DEF Early, Fresh, IInv, TypeOK
  <1>6. HealthDue'
    BY <1>1, <1>2, <1>5, SendKeeps DEF IInv, HealthDue
  <1>7. GaugeDue'
    BY <1>1, <1>2, <1>5, SendKeeps DEF IInv, GaugeDue
  <1> QED BY <1>1, <1>2, <1>3, <1>4, <1>6, <1>7, SendKeeps DEF IInv

LEMMA TriggerIInv == \A p \in Triggered : IInv /\ Trigger(p) => IInv'
  <1> SUFFICES ASSUME NEW p \in Triggered, IInv, Trigger(p) PROVE IInv'
    OBVIOUS
  <1>1. p \in Probe /\ p \notin Periodic /\ Send(p) /\ UNCHANGED <<up, stable, healthy, gauge, due>>
    BY HealthAssumption DEF Trigger, Probe
  <1>2. TypeOK'
    BY <1>1, SendFacts, Numbers DEF IInv, TypeOK, Probe
  <1>3. Ticker'
    BY <1>1, SendFacts DEF IInv, Ticker, Early, Probe
  <1>4. HealthDue' /\ GaugeDue'
    BY <1>1, SendKeeps DEF IInv, HealthDue, GaugeDue, Early
  <1> QED BY <1>1, <1>2, <1>3, <1>4, SendKeeps DEF IInv

\* A call that ends is not sent any more, and the others stay as they are.
LEMMA EndKeeps ==
  ASSUME IInv, NEW p \in Probe, NEW to \in {"idle", "publish"}, NEW R \in SUBSET BOOLEAN,
         End(p, to, R), UNCHANGED <<up, stable, due>>,
         to = "publish" => (\E r \in BOOLEAN : R = {r}) /\ (R # {up} => stable <= Timeout)
  PROVE  /\ phase' \in [Probe -> {"idle", "sent", "publish"}]
         /\ left' \in [Probe -> Nat] /\ may' \in [Probe -> SUBSET BOOLEAN]
         /\ phase'[p] = to /\ may'[p] = R
         /\ \A q \in Probe \ {p} : phase'[q] = phase[q] /\ may'[q] = may[q] /\ left'[q] = left[q]
         /\ Calls'
         /\ Early => Early'
         /\ \A q \in Periodic \ {p} : Fresh(q) => Fresh(q)'
  <1>1. /\ phase' \in [Probe -> {"idle", "sent", "publish"}]
        /\ left' \in [Probe -> Nat] /\ may' \in [Probe -> SUBSET BOOLEAN]
        /\ phase'[p] = to /\ may'[p] = R
        /\ \A q \in Probe \ {p} : phase'[q] = phase[q] /\ may'[q] = may[q] /\ left'[q] = left[q]
    BY DEF End, IInv, TypeOK
  <1>2. Calls'
    BY <1>1 DEF IInv, Calls
  <1>3. Early => Early'
    BY DEF Early
  <1>4. \A q \in Periodic \ {p} : Fresh(q) => Fresh(q)'
    BY <1>1 DEF Fresh, Probe
  <1> QED BY <1>1, <1>2, <1>3, <1>4

LEMMA RecordIInv == \A p \in Periodic, r \in BOOLEAN : IInv /\ Record(p, r) => IInv'
  <1> SUFFICES ASSUME NEW p \in Periodic, NEW r \in BOOLEAN, IInv, Record(p, r) PROVE IInv'
    OBVIOUS
  <1>1. /\ p \in Probe /\ phase[p] = "sent" /\ r \in may[p] /\ End(p, "publish", {r})
        /\ healthy' = r /\ UNCHANGED <<up, stable, gauge, due>>
    BY DEF Record, Probe
  <1>2. r # up => stable <= Timeout
    BY <1>1, Results
  <1>3. {r} # {up} => stable <= Timeout
    BY <1>2
  <1>4. due <= Interval
    BY <1>1 DEF IInv, Ticker
  <1>5. /\ phase' \in [Probe -> {"idle", "sent", "publish"}]
        /\ left' \in [Probe -> Nat] /\ may' \in [Probe -> SUBSET BOOLEAN]
        /\ phase'[p] = "publish" /\ may'[p] = {r}
        /\ \A q \in Probe \ {p} : phase'[q] = phase[q] /\ may'[q] = may[q] /\ left'[q] = left[q]
        /\ Calls'
        /\ Early => Early'
        /\ \A q \in Periodic \ {p} : Fresh(q) => Fresh(q)'
    BY <1>1, <1>3, EndKeeps
  <1>6. TypeOK'
    BY <1>1, <1>5, HealthAssumption DEF IInv, TypeOK, Probe
  <1>7. Ticker'
    BY <1>1, <1>4 DEF Ticker
  <1>8. r # up => Early
    BY <1>2, <1>4, InTime
  <1>9. HealthDue'
    BY <1>1, <1>5, <1>8 DEF HealthDue
  <1>10. GaugeDue'
    <2>1. CASE r # up
      BY <1>5, <1>8, <2>1 DEF GaugeDue
    <2>2. CASE r = up
      BY <1>1, <1>5, <2>2 DEF GaugeDue
    <2> QED BY <2>1, <2>2
  <1> QED BY <1>5, <1>6, <1>7, <1>9, <1>10 DEF IInv

LEMMA PublishIInv == \A p \in Periodic : IInv /\ Publish(p) => IInv'
  <1> SUFFICES ASSUME NEW p \in Periodic, IInv, Publish(p) PROVE IInv'
    OBVIOUS
  <1>1. /\ p \in Probe /\ phase[p] = "publish" /\ End(p, "idle", {})
        /\ gauge' \in may[p] /\ UNCHANGED <<up, stable, healthy, due>>
    BY DEF Publish, Probe
  <1>2. PICK r \in BOOLEAN : may[p] = {r} /\ gauge' = r
    BY <1>1 DEF IInv, Calls
  <1>3. due <= Interval
    BY <1>1 DEF IInv, Ticker
  <1>4. r # up => stable <= Timeout
    BY <1>1, <1>2 DEF IInv, Calls
  <1>5. r # up => Early
    BY <1>3, <1>4, InTime
  <1>6. /\ phase' \in [Probe -> {"idle", "sent", "publish"}]
        /\ left' \in [Probe -> Nat] /\ may' \in [Probe -> SUBSET BOOLEAN]
        /\ phase'[p] = "idle"
        /\ \A q \in Probe \ {p} : phase'[q] = phase[q] /\ may'[q] = may[q] /\ left'[q] = left[q]
        /\ Calls'
        /\ Early => Early'
        /\ \A q \in Periodic \ {p} : Fresh(q) => Fresh(q)'
    BY <1>1, EndKeeps
  <1>7. TypeOK'
    BY <1>1, <1>2, <1>6 DEF IInv, TypeOK, Probe
  <1>8. Ticker'
    BY <1>1, <1>3 DEF Ticker
  <1>9. HealthDue'
    <2>1. \A q \in Periodic : Fresh(q) => q # p
      BY <1>1 DEF Fresh
    <2> QED BY <1>1, <1>6, <2>1 DEF IInv, HealthDue
  <1>10. GaugeDue'
    BY <1>1, <1>2, <1>5, <1>6 DEF GaugeDue
  <1> QED BY <1>6, <1>7, <1>8, <1>9, <1>10 DEF IInv

LEMMA RecordTriggeredIInv ==
  \A p \in Triggered, r \in BOOLEAN : IInv /\ RecordTriggered(p, r) => IInv'
  <1> SUFFICES ASSUME NEW p \in Triggered, NEW r \in BOOLEAN, IInv, RecordTriggered(p, r)
               PROVE  IInv'
    OBVIOUS
  <1>1. /\ p \in Probe /\ p \notin Periodic /\ phase[p] = "sent" /\ r \in may[p]
        /\ End(p, "idle", {}) /\ healthy' = (healthy \/ r) /\ UNCHANGED <<up, stable, gauge, due>>
    BY HealthAssumption DEF RecordTriggered, Probe
  <1>2. healthy' \in BOOLEAN /\ healthy' \in {healthy, r}
    BY <1>1 DEF IInv, TypeOK
  <1>3. r # up => stable <= Timeout
    BY <1>1, Results
  <1>4. r # up => Early
    BY <1>3, InTime DEF IInv, Ticker
  <1>5. /\ phase' \in [Probe -> {"idle", "sent", "publish"}]
        /\ left' \in [Probe -> Nat] /\ may' \in [Probe -> SUBSET BOOLEAN]
        /\ phase'[p] = "idle"
        /\ \A q \in Probe \ {p} : phase'[q] = phase[q] /\ may'[q] = may[q] /\ left'[q] = left[q]
        /\ Calls'
        /\ Early => Early'
        /\ \A q \in Periodic \ {p} : Fresh(q) => Fresh(q)'
    BY <1>1, EndKeeps
  <1>6. TypeOK'
    BY <1>1, <1>2, <1>5 DEF IInv, TypeOK, Probe
  <1>7. \A q \in Periodic : q \in Probe \ {p}
    BY <1>1 DEF Probe
  <1>8. Ticker'
    BY <1>1, <1>5, <1>7 DEF IInv, Ticker
  <1>9. HealthDue'
    BY <1>1, <1>2, <1>4, <1>5, <1>7 DEF IInv, HealthDue
  <1>10. GaugeDue'
    BY <1>1, <1>5, <1>7 DEF IInv, GaugeDue
  <1> QED BY <1>5, <1>6, <1>8, <1>9, <1>10 DEF IInv

LEMMA NextIInv == IInv /\ [Next]_vars => IInv'
  <1>1. IInv /\ UNCHANGED vars => IInv'
    BY DEF vars, probes, IInv, TypeOK, Calls, Ticker, Early, HealthDue, GaugeDue, Fresh
  <1> QED BY <1>1, FlipIInv, TickIInv, ProbeAllIInv, TriggerIInv, RecordIInv, PublishIInv,
             RecordTriggeredIInv DEF Next

LEMMA InvariantIInv == Spec => []IInv
  BY InitIInv, NextIInv, PTL DEF Spec

\* Every variable has its type; a call under way can return the present state of the
\* backend, and no triggered probe gets as far as the gauge.
THEOREM TypeCorrect == Spec => []TypeOK
  BY InvariantIInv, PTL DEF IInv

-----------------------------------------------------------------------------
\* A verdict that is wrong when its time is over would have been corrected.
LEMMA InTimeAtTick ==
  ASSUME IInv, Tick, stable = Lag
  PROVE  healthy = up /\ gauge = up
  <1>1. due \in Nat /\ due > 0 /\ left \in [Probe -> Nat]
    BY DEF Tick, IInv, TypeOK
  <1>2. ~Early
    BY <1>1, Numbers DEF Early
  <1>3. ASSUME NEW p \in Periodic PROVE ~Fresh(p) /\ phase[p] # "publish"
    BY <1>1, Numbers DEF Tick, Fresh, Probe
  <1> QED BY <1>2, <1>3 DEF IInv, HealthDue, GaugeDue

LEMMA HealthStep == IInv /\ [Next]_vars => [HealthOf!Next]_(HealthOf!vars)
  <1> SUFFICES ASSUME IInv, [Next]_vars PROVE [HealthOf!Next]_(HealthOf!vars)
    OBVIOUS
  <1>1. stable \in Nat /\ healthy \in BOOLEAN
    BY Numbers DEF IInv, TypeOK
  <1>2. CASE Flip
    BY <1>2 DEF Flip, HealthOf!Next, HealthOf!Flip
  <1>3. CASE Tick
    <2>1. CASE stable > Lag
      BY <1>3, <2>1 DEF Tick, HealthOf!vars
    <2>2. CASE stable <= Lag
      <3>1. stable' = stable + 1 /\ UNCHANGED <<up, healthy>>
        BY <1>1, <1>3, <2>2, Numbers DEF Tick
      <3> QED BY <1>3, <2>2, <3>1, InTimeAtTick DEF HealthOf!Next, HealthOf!Tick
    <2> QED BY <1>1, <2>1, <2>2, Numbers
  <1>4. ASSUME NEW p \in Periodic, NEW r \in BOOLEAN, Record(p, r)
        PROVE  HealthOf!Report
    <2>1. p \in Probe /\ phase[p] = "sent" /\ r \in may[p] /\ healthy' = r /\ UNCHANGED <<up, stable>>
      BY <1>4 DEF Record, Probe
    <2>2. stable > Timeout => r = up
      BY <1>1, <2>1, Results, Numbers
    <2> QED BY <2>1, <2>2 DEF HealthOf!Report
  <1>5. ASSUME NEW p \in Triggered, NEW r \in BOOLEAN, RecordTriggered(p, r)
        PROVE  HealthOf!Report \/ UNCHANGED HealthOf!vars
    <2>1. /\ p \in Probe /\ phase[p] = "sent" /\ r \in may[p]
          /\ healthy' = (healthy \/ r) /\ UNCHANGED <<up, stable>>
      BY <1>5 DEF RecordTriggered, Probe
    <2>2. stable > Timeout => r = up
      BY <1>1, <2>1, Results, Numbers
    <2>3. healthy' = healthy \/ healthy' = r
      BY <1>1, <2>1
    <2> QED BY <2>1, <2>2, <2>3 DEF HealthOf!Report, HealthOf!vars
  <1>6. ASSUME ProbeAll \/ (\E p \in Periodic : Publish(p)) \/ (\E p \in Triggered : Trigger(p))
               \/ UNCHANGED vars
        PROVE  UNCHANGED HealthOf!vars
    BY <1>6 DEF ProbeAll, Publish, Trigger, vars, HealthOf!vars
  <1> QED BY <1>2, <1>3, <1>4, <1>5, <1>6 DEF Next, HealthOf!Next

LEMMA GaugeStep == IInv /\ [Next]_vars => [GaugeOf!Next]_(GaugeOf!vars)
  <1> SUFFICES ASSUME IInv, [Next]_vars PROVE [GaugeOf!Next]_(GaugeOf!vars)
    OBVIOUS
  <1>1. stable \in Nat /\ gauge \in BOOLEAN
    BY Numbers DEF IInv, TypeOK
  <1>2. CASE Flip
    BY <1>2 DEF Flip, GaugeOf!Next, GaugeOf!Flip
  <1>3. CASE Tick
    <2>1. CASE stable > Lag
      BY <1>3, <2>1 DEF Tick, GaugeOf!vars
    <2>2. CASE stable <= Lag
      <3>1. stable' = stable + 1 /\ UNCHANGED <<up, gauge>>
        BY <1>1, <1>3, <2>2, Numbers DEF Tick
      <3> QED BY <1>3, <2>2, <3>1, InTimeAtTick DEF GaugeOf!Next, GaugeOf!Tick
    <2> QED BY <1>1, <2>1, <2>2, Numbers
  <1>4. ASSUME NEW p \in Periodic, Publish(p)
        PROVE  GaugeOf!Report
    <2>1. p \in Probe /\ phase[p] = "publish" /\ gauge' \in may[p] /\ UNCHANGED <<up, stable>>
      BY <1>4 DEF Publish, Probe
    <2>2. PICK r \in BOOLEAN : may[p] = {r} /\ gauge' = r
      BY <2>1 DEF IInv, Calls
    <2>3. stable > Timeout => r = up
      BY <1>1, <2>1, <2>2, Numbers DEF IInv, Calls
    <2> QED BY <2>1, <2>2, <2>3 DEF GaugeOf!Report
  <1>5. ASSUME \/ ProbeAll \/ UNCHANGED vars
               \/ \E p \in Periodic, r \in BOOLEAN : Record(p, r)
               \/ \E p \in Triggered : Trigger(p)
               \/ \E p \in Triggered, r \in BOOLEAN : RecordTriggered(p, r)
        PROVE  UNCHANGED GaugeOf!vars
    BY <1>5 DEF ProbeAll, Record, Trigger, RecordTriggered, vars, GaugeOf!vars
  <1> QED BY <1>2, <1>3, <1>4, <1>5 DEF Next, GaugeOf!Next

\* Server.IsHealthy is right from two timeouts and an interval after a change of
\* the backend, and takes no wrong value later than a timeout after it, whatever
\* order the probes end in.
THEOREM HealthIsDetector == Spec => HealthOf!Safety
  <1>1. Init => HealthOf!Init
    BY DEF Init, HealthOf!Init
  <1> QED BY <1>1, InvariantIInv, HealthStep, PTL DEF Spec, HealthOf!Safety

\* So is lb_server_health, although it is set after the lock is released.
THEOREM GaugeIsDetector == Spec => GaugeOf!Safety
  <1>1. Init => GaugeOf!Init
    BY DEF Init, GaugeOf!Init
  <1> QED BY <1>1, InvariantIInv, GaugeStep, PTL DEF Spec, GaugeOf!Safety

-----------------------------------------------------------------------------
\* How many periodic probes are under way at once.

Busy == {p \in Periodic : phase[p] # "idle"}

\* a gives each probe under way its age when its call was last seen to be under way:
\* they were sent an interval apart, and the last one when the ticker last fired.
Spaced(a) ==
    \A p \in Busy :
        /\ a[p] \in 0..Timeout /\ a[p] + due >= Interval
        /\ phase[p] = "sent" => left[p] = Timeout - a[p]
        /\ \A q \in Busy : q # p => a[p] >= a[q] + Interval \/ a[q] >= a[p] + Interval

SpacedInv == \E a \in [Periodic -> Nat] : Spaced(a)

LEMMA TickSpaced == IInv /\ SpacedInv /\ Tick => SpacedInv'
  <1> SUFFICES ASSUME IInv, SpacedInv, Tick PROVE SpacedInv'
    OBVIOUS
  <1>1. PICK a \in [Periodic -> Nat] : Spaced(a)
    BY DEF SpacedInv
  <1> DEFINE b == [p \in Periodic |-> a[p] + 1]
  <1>2. b \in [Periodic -> Nat] /\ \A p \in Periodic : b[p] = a[p] + 1 /\ a[p] \in Nat
    OBVIOUS
  <1>3. /\ due' = due - 1 /\ due \in Nat /\ due > 0 /\ phase' = phase /\ Busy' = Busy
        /\ \A p \in Busy : /\ p \in Periodic /\ phase[p] = "sent"
                          /\ left[p] \in Nat /\ left[p] > 0 /\ left'[p] = left[p] - 1
    BY DEF Tick, Min0, Busy, Probe, IInv, TypeOK
  <1> HIDE DEF b
  <1>4. ASSUME NEW p \in Busy
        PROVE  /\ b[p] \in 0..Timeout /\ b[p] + due' >= Interval
               /\ left'[p] = Timeout - b[p]
    <2>1. a[p] \in 0..Timeout /\ a[p] + due >= Interval /\ left[p] = Timeout - a[p]
      BY <1>1, <1>3 DEF Spaced
    <2>2. b[p] = a[p] + 1 /\ a[p] \in Nat
      BY <1>2, <1>3
    <2>3. due' = due - 1 /\ left'[p] = left[p] - 1 /\ left[p] > 0 /\ left[p] \in Nat /\ due \in Nat
      BY <1>3
    <2> QED BY <2>1, <2>2, <2>3, Numbers
  <1>5. ASSUME NEW p \in Busy, NEW q \in Busy, q # p
        PROVE  b[p] >= b[q] + Interval \/ b[q] >= b[p] + Interval
    <2>1. a[p] >= a[q] + Interval \/ a[q] >= a[p] + Interval
      BY <1>1, <1>5 DEF Spaced
    <2> QED BY <1>2, <1>3, <2>1, Numbers
  <1>6. Spaced(b)'
    BY <1>3, <1>4, <1>5 DEF Spaced
  <1> QED BY <1>2, <1>6 DEF SpacedInv

LEMMA ProbeAllSpaced == IInv /\ SpacedInv /\ ProbeAll => SpacedInv'
  <1> SUFFICES ASSUME IInv, SpacedInv, ProbeAll PROVE SpacedInv'
    OBVIOUS
  <1>1. PICK a \in [Periodic -> Nat] : Spaced(a)
    BY DEF SpacedInv
  <1>2. PICK n \in Periodic : Send(n)
    BY DEF ProbeAll
  <1> DEFINE b == [p \in Periodic |-> IF p = n THEN 0 ELSE a[p]]
  <1>3. /\ b \in [Periodic -> Nat] /\ b[n] = 0
        /\ \A p \in Periodic : a[p] \in Nat /\ (p # n => b[p] = a[p])
    OBVIOUS
  <1> HIDE DEF b
  <1>4. /\ n \in Probe /\ due = 0 /\ due' = Interval /\ n \notin Busy /\ Busy' = Busy \cup {n}
        /\ phase'[n] = "sent" /\ left'[n] = Timeout
        /\ \A p \in Busy : p \in Periodic /\ p # n /\ phase'[p] = phase[p] /\ left'[p] = left[p]
    <2>1. n \in Probe /\ due = 0 /\ due' = Interval
      BY DEF ProbeAll, Probe
    <2> QED BY <1>2, <2>1, SendFacts DEF Busy, Probe
  <1>5. ASSUME NEW p \in Busy
        PROVE  /\ b[p] = a[p] /\ a[p] \in 0..Timeout /\ a[p] >= Interval
               /\ phase[p] = "sent" => left[p] = Timeout - a[p]
               /\ \A q \in Busy : q # p => a[p] >= a[q] + Interval \/ a[q] >= a[p] + Interval
    <2>1. a[p] + 0 >= Interval /\ a[p] \in 0..Timeout
      BY <1>1, <1>4 DEF Spaced
    <2> QED BY <1>1, <1>3, <1>4, <2>1 DEF Spaced
  <1>6. ASSUME NEW p \in Busy'
        PROVE  /\ b[p] \in 0..Timeout /\ b[p] + due' >= Interval
               /\ phase'[p] = "sent" => left'[p] = Timeout - b[p]
    <2>1. CASE p = n
      BY <1>3, <1>4, <2>1, Numbers
    <2>2. CASE p # n
      <3>1. p \in Busy
        BY <1>4, <2>2
      <3>2. b[p] = a[p] /\ a[p] \in 0..Timeout /\ a[p] >= Interval
            /\ (phase[p] = "sent" => left[p] = Timeout - a[p])
        BY <1>5, <3>1
      <3>3. a[p] + Interval >= Interval
        BY <3>2, Numbers
      <3> QED BY <1>4, <3>1, <3>2, <3>3
    <2> QED BY <2>1, <2>2
  <1>7. ASSUME NEW p \in Busy', NEW q \in Busy', q # p
        PROVE  b[p] >= b[q] + Interval \/ b[q] >= b[p] + Interval
    <2>1. CASE p = n
      <3>1. q \in Busy /\ b[q] >= 0 + Interval
        BY <1>4, <1>5, <1>7, <2>1, Numbers
      <3> QED BY <1>3, <2>1, <3>1
    <2>2. CASE q = n
      <3>1. p \in Busy /\ b[p] >= 0 + Interval
        BY <1>4, <1>5, <1>7, <2>2, Numbers
      <3> QED BY <1>3, <2>2, <3>1
    <2>3. CASE p # n /\ q # n
      <3>1. p \in Busy /\ q \in Busy
        BY <1>4, <2>3
      <3> QED BY <1>5, <1>7, <3>1
    <2> QED BY <2>1, <2>2, <2>3
  <1>8. Spaced(b)'
    BY <1>6, <1>7 DEF Spaced
  <1> QED BY <1>3, <1>8 DEF SpacedInv

\* The other steps start no periodic probe and take no time.
LEMMA OthersSpaced ==
  ASSUME SpacedInv, due' = due, Busy' \subseteq Busy,
         \A p \in Busy' : phase'[p] = "sent" => phase[p] = "sent" /\ left'[p] = left[p]
  PROVE  SpacedInv'
  <1>1. PICK a \in [Periodic -> Nat] : Spaced(a)
    BY DEF SpacedInv
  <1>2. Spaced(a)'
    BY <1>1 DEF Spaced
  <1> QED BY <1>2 DEF SpacedInv

LEMMA NextSpaced == IInv /\ SpacedInv /\ [Next]_vars => SpacedInv'
  <1> SUFFICES ASSUME IInv, SpacedInv, [Next]_vars PROVE SpacedInv'
    OBVIOUS
  <1>1. ASSUME UNCHANGED <<due, phase, left>> PROVE SpacedInv'
    BY <1>1, OthersSpaced DEF Busy
  <1>2. Flip \/ UNCHANGED vars => UNCHANGED <<due, phase, left>>
    BY DEF Flip, vars, probes
  <1>3. ASSUME NEW p \in Periodic, NEW to \in {"publish", "idle"}, NEW R,
               phase[p] # "idle", End(p, to, R), due' = due
        PROVE  SpacedInv'
    <2>1. /\ phase \in [Probe -> {"idle", "sent", "publish"}] /\ left \in [Probe -> Nat]
          /\ p \in Probe /\ p \in Busy
      BY <1>3 DEF IInv, TypeOK, Probe, Busy
    <2>2. /\ phase'[p] = to
          /\ \A q \in Probe \ {p} : phase'[q] = phase[q] /\ left'[q] = left[q]
      BY <1>3, <2>1 DEF End
    <2>3. Busy' \subseteq Busy
      BY <2>1, <2>2 DEF Busy, Probe
    <2>4. \A q \in Busy' : phase'[q] = "sent" => phase[q] = "sent" /\ left'[q] = left[q]
      BY <2>1, <2>2 DEF Busy, Probe
    <2> QED BY <1>3, <2>3, <2>4, OthersSpaced
  <1>4. ASSUME NEW p \in Periodic, NEW r \in BOOLEAN, Record(p, r) \/ Publish(p) PROVE SpacedInv'
    BY <1>3, <1>4 DEF Record, Publish
  <1>5. ASSUME NEW p \in Triggered, NEW r \in BOOLEAN, Trigger(p) \/ RecordTriggered(p, r)
        PROVE  SpacedInv'
    <2>1. /\ phase \in [Probe -> {"idle", "sent", "publish"}] /\ left \in [Probe -> Nat]
          /\ p \in Probe /\ p \notin Periodic
      BY HealthAssumption DEF IInv, TypeOK, Probe
    <2>2. due' = due /\ \A q \in Periodic : phase'[q] = phase[q] /\ left'[q] = left[q]
      BY <1>5, <2>1 DEF Trigger, Send, RecordTriggered, End, Probe
    <2>3. Busy' = Busy
      BY <2>2 DEF Busy
    <2> QED BY <2>2, <2>3, OthersSpaced DEF Busy
  <1> QED BY <1>1, <1>2, <1>4, <1>5, TickSpaced, ProbeAllSpaced DEF Next

LEMMA SlotsApart ==
  ASSUME NEW n \in Nat, n > 0, NEW a \in Nat, NEW b \in Nat, a >= b + n
  PROVE  a \div n # b \div n
  <1>1. PICK q \in Int, r \in 0..(n - 1) : a = q * n + r /\ q = a \div n
    BY SMT
  <1>2. PICK t \in Int, s \in 0..(n - 1) : b = t * n + s /\ t = b \div n
    BY SMT
  <1>3. q # t
    BY <1>1, <1>2
  <1> QED BY <1>1, <1>2, <1>3

LEMMA SlotInRange ==
  ASSUME NEW n \in Nat, n > 0, NEW a \in Nat, NEW b \in Nat, a <= b
  PROVE  a \div n \in 0..(b \div n) /\ b \div n \in Nat
  <1>1. PICK q \in Int, r \in 0..(n - 1) : a = q * n + r /\ q = a \div n
    BY SMT
  <1>2. PICK t \in Int, s \in 0..(n - 1) : b = t * n + s /\ t = b \div n
    BY SMT
  <1>3. q >= 0 /\ t >= 0
    BY SMT, <1>1, <1>2
  <1>4. ~(q >= t + 1)
    <2>1. ASSUME q >= t + 1 PROVE q * n >= (t + 1) * n
      BY <2>1, SMT
    <2>2. (t + 1) * n = t * n + n /\ t * n \in Int /\ q * n \in Int
      BY SMT
    <2> QED BY <1>1, <1>2, <2>1, <2>2
  <1> QED BY <1>1, <1>2, <1>3, <1>4

LEMMA SpacedBounded == IInv /\ SpacedInv => ProbesBounded
  <1> SUFFICES ASSUME IInv, SpacedInv PROVE ProbesBounded
    OBVIOUS
  <1>1. PICK a \in [Periodic -> Nat] : Spaced(a)
    BY DEF SpacedInv
  <1> DEFINE last == Timeout \div Interval
             slot == [p \in Busy |-> a[p] \div Interval]
  <1>2. last \in Nat /\ IsFiniteSet(0..last) /\ Cardinality(0..last) = last + 1
    <2>1. last \in Nat
      BY Numbers, SlotInRange
    <2> HIDE DEF last
    <2>2. 0 \in Int /\ last \in Int /\ ~(0 > last) /\ last - 0 + 1 = last + 1
      BY <2>1
    <2> QED BY <2>1, <2>2, FS_Interval
  <1>3. IsFiniteSet(Busy)
    BY HealthAssumption, FS_Subset DEF Busy
  <1>4. \A p \in Busy : a[p] \in Nat /\ a[p] <= Timeout /\ slot[p] = a[p] \div Interval
    BY <1>1 DEF Busy, Spaced
  <1>5. slot \in [Busy -> 0..last]
    <2>1. \A p \in Busy : a[p] \div Interval \in 0..last
      BY <1>4, Numbers, SlotInRange
    <2> HIDE DEF last
    <2> QED BY <2>1
  <1>6. ASSUME NEW p \in Busy, NEW q \in Busy, slot[p] = slot[q] PROVE p = q
    <2>1. SUFFICES ASSUME q # p PROVE FALSE
      OBVIOUS
    <2>2. a[p] >= a[q] + Interval \/ a[q] >= a[p] + Interval
      BY <1>1, <2>1 DEF Spaced
    <2>3. slot[p] # slot[q]
      BY <1>4, <2>2, Numbers, SlotsApart
    <2> QED BY <1>6, <2>3
  <1>7. slot \in Injection(Busy, 0..last)
    <2> HIDE DEF slot, last
    <2> QED BY <1>5, <1>6 DEF Injection, IsInjective
  <1>8. Cardinality(Busy) <= Cardinality(0..last)
    <2> HIDE DEF slot, last
    <2> QED BY <1>2, <1>3, <1>7, FS_Injection DEF ExistsInjection
  <1> QED BY <1>2, <1>8 DEF ProbesBounded, Busy

\* However long the backend hangs, no more periodic probes are under way at once
\* than a timeout has intervals, and one: nothing but the timeout holds them back.
THEOREM ProbesStayBounded == Spec => []ProbesBounded
  <1>1. Init => SpacedInv
    <2> SUFFICES ASSUME Init PROVE SpacedInv
      OBVIOUS
    <2>1. Busy = {}
      BY DEF Init, Busy, Probe
    <2>2. [p \in Periodic |-> 0] \in [Periodic -> Nat]
      OBVIOUS
    <2> QED BY <2>1, <2>2 DEF SpacedInv, Spaced
  <1> QED BY <1>1, InvariantIInv, NextSpaced, SpacedBounded, PTL DEF Spec
=============================================================================
