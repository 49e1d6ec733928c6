-------------------------- MODULE MCEnrichmentQueue --------------------------
(* Small instances of EnrichmentQueue for TLC. *)
EXTENDS EnrichmentQueue, TLC

CONSTANTS fox, lone, a1, a2, w1, w2

\* A focused vendor above one that sells everything.
MCTier == fox :> 1 @@ lone :> 2
MCFocus == fox :> "NC" @@ lone :> "both"
=============================================================================
