----------------------------- MODULE MCUnionAll -----------------------------
(***************************************************************************)
(* Instances of UnionAll: every choice of input lengths up to MaxLen.      *)
(***************************************************************************)
EXTENDS UnionAll

CONSTANTS MaxLen

MCStreams == [Sources -> 0..MaxLen]
=============================================================================
