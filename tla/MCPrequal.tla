----------------------------- MODULE MCPrequal -----------------------------
(***************************************************************************)
(* Model values and inputs for checking Prequal.                           *)
(***************************************************************************)
EXTENDS Prequal, TLC

CONSTANTS RIFs, Latencies    \* what a backend may report and a probe measure

\* A backend answers /health with 200 and X-RIF, or the call fails and no
\* header is read.
MCProbeResult ==
    [isHealthy : {TRUE}, rif : RIFs, latency : Latencies]
        \cup [isHealthy : {FALSE}, rif : {NoRIF}, latency : {Min(Latencies)}]

Symmetry == Permutations(Server) \cup Permutations(Handler)
=============================================================================
