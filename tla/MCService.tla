----------------------------- MODULE MCService -----------------------------
(***************************************************************************)
(* The backend's other clients, and symmetry, for the runs of Service.     *)
(***************************************************************************)
EXTENDS Service, TLC

CONSTANT Background  \* requests of cmd/bgload

MCRequest == Own \cup Background

Symmetry == Permutations(Own) \cup Permutations(Background)
=============================================================================
