--------------------------- MODULE MCOrderedSink ---------------------------
(***************************************************************************)
(* Instances of OrderedSink: every choice of line counts up to MaxLen.     *)
(***************************************************************************)
EXTENDS OrderedSink

CONSTANTS MaxLen

MCLengths == [Sinks -> 0..MaxLen]
=============================================================================
