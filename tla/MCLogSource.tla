---------------------------- MODULE MCLogSource ----------------------------
(***************************************************************************)
(* Logs of up to MaxSize bytes, with times up to MaxTime, whose lines are  *)
(* sorted, read in every mode; ranges of all, some and no times.           *)
(***************************************************************************)
EXTENDS LogSource

CONSTANTS MaxSize, MaxTime

Contents == UNION {[1..n -> -1..MaxTime] : n \in 0..MaxSize}

MCFiles == {f \in Contents : SortedByTime(f)}

MCRanges == {<<0, 3>>, <<1, 2>>, <<1, 1>>, <<2, 2>>, <<2, 1>>, <<0, 0>>}
=============================================================================
