------------------------------ MODULE Detector ------------------------------
(***************************************************************************)
(* What a reader of a backend's recorded health may rely on: a failure     *)
(* detector that may err while the backend comes and goes, but whose       *)
(* verdict is right, and stays right, once the backend has been up or down *)
(* for long enough.  Nothing is said here of probes.                       *)
(***************************************************************************)
EXTENDS Integers

CONSTANTS
    Memory,          \* for how long an old state of the backend may be reported
    Lag              \* for how long the verdict may be wrong

VARIABLES
    up,              \* whether the backend is serving
    stable,          \* ticks since that last changed, counted up to Lag + 1
    view             \* the verdict

vars == <<up, stable, view>>

Init == up \in BOOLEAN /\ view \in BOOLEAN /\ stable = 0

Flip == up' = ~up /\ stable' = 0 /\ UNCHANGED view

\* A verdict: any at first, and only the right one later.
Report ==
    /\ view' \in (IF stable > Memory THEN {up} ELSE BOOLEAN)
    /\ UNCHANGED <<up, stable>>

\* Time passes, but not beyond Lag with a wrong verdict.
Tick ==
    /\ stable <= Lag
    /\ stable = Lag => view = up
    /\ stable' = stable + 1
    /\ UNCHANGED <<up, view>>

Next == Flip \/ Report \/ Tick

Safety == Init /\ [][Next]_vars

Spec == Safety /\ WF_vars(Tick)
=============================================================================
