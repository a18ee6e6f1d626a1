---------------------------- MODULE MCSelectors ----------------------------
(***************************************************************************)
(* Bounds by algorithm, and symmetry, for the run of Selectors.            *)
(***************************************************************************)
EXTENDS Selectors, TLC

\* Two requests are enough to disturb a comparison of two.  Weighted requests read
\* only what refreshes write: one at a time meets everything it can meet.
MCAtOnce == [roundrobin |-> 3, leastloaded |-> 3, llpo2c |-> 2, weightedrr |-> 1]

MCMaxProbes == [roundrobin |-> 1, leastloaded |-> 1, llpo2c |-> 1, weightedrr |-> 2]

Symmetry == Permutations(Handler)
=============================================================================
