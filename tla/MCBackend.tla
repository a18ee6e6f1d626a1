----------------------------- MODULE MCBackend -----------------------------
(***************************************************************************)
(* Symmetry for the safety runs of Backend.                                *)
(***************************************************************************)
EXTENDS Backend, TLC

Symmetry == Permutations(Request) \cup Permutations(Probe)
=============================================================================
