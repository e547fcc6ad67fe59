------------------------------ MODULE MCRunner ------------------------------
(***************************************************************************)
(* Instances of Runner: every program of up to MaxPhases phases with up to *)
(* MaxSources sources each, the phases without a source included, and one  *)
(* phase with as many sources as the bound Crowd.                          *)
(***************************************************************************)
EXTENDS Runner

CONSTANTS MaxPhases, MaxSources, Crowd

MCPrograms == UNION {[1..n -> 0..MaxSources] : n \in 1..MaxPhases} \cup {<<Crowd>>}
=============================================================================
