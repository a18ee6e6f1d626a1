----------------------------- MODULE MCForward -----------------------------
(***************************************************************************)
(* Symmetry for checking Forward.                                          *)
(***************************************************************************)
EXTENDS Forward, TLC

Symmetry == Permutations(Handler)
=============================================================================
