--------------------------- MODULE MCMergeSorted ---------------------------
(***************************************************************************)
(* Instances of MergeSorted: every pair of inputs of at most MaxLen        *)
(* records with keys 1..MaxKey that are sorted, in either direction.       *)
(***************************************************************************)
EXTENDS MergeSorted

CONSTANTS MaxKey, MaxLen

Keys == UNION {[1..n -> 1..MaxKey] : n \in 0..MaxLen}

MCInputs == [Side -> Keys]
=============================================================================
