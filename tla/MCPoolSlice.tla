---------------------------- MODULE MCPoolSlice ----------------------------
(***************************************************************************)
(* Inputs for checking PoolSlice.                                          *)
(***************************************************************************)
EXTENDS PoolSlice

CONSTANTS Times, RIFs, Latencies

MCSignal == [timestamp : Times, rif : RIFs, latency : Latencies]
Symmetry == Permutations(Probe)
=============================================================================
