---------------------------- MODULE StreamMerge ----------------------------
(***************************************************************************)
(* What an operator with several inputs promises to those downstream of    *)
(* it (UNION ALL, UNION ALL SORTED BY): the output is an interleaving of   *)
(* the inputs that keeps the order of each of them, a record is taken from *)
(* an input only if it may go before the next record of every other input, *)
(* and the end of stream is announced once, after the last record.         *)
(* A subscriber may leave at any record it is handed.                      *)
(***************************************************************************)
EXTENDS Naturals, Sequences

CONSTANTS Sources,      \* the inputs of the operator
          Inputs,       \* the families of input streams considered
          Subscribers,  \* those downstream
          Before(_, _)  \* Before(a, b): record a may be emitted ahead of b

VARIABLES input,        \* the stream each source carries
          taken,        \* how many records of each source were emitted
          out,          \* the emitted records, <<source, position>>
          subscribers,  \* those that still listen
          finished      \* those that were told of the end of stream

vars == <<input, taken, out, subscribers, finished>>

Remaining(p) == taken[p] < Len(input[p])

Head1(p) == input[p][taken[p] + 1]

Init ==
  /\ input \in Inputs
  /\ taken = [p \in Sources |-> 0]
  /\ out = <<>>
  /\ subscribers = Subscribers
  /\ finished = {}

\* The next record of p goes downstream; any subscribers may leave on it.
Emit(p) ==
  /\ subscribers # {}
  /\ Remaining(p)
  /\ \A q \in Sources : Remaining(q) => Before(Head1(p), Head1(q))
  /\ taken' = [taken EXCEPT ![p] = @ + 1]
  /\ out' = Append(out, <<p, taken[p] + 1>>)
  /\ subscribers' \in SUBSET subscribers
  /\ UNCHANGED <<input, finished>>

\* Every input is exhausted: the subscribers left hear of it and are done.
Finish ==
  /\ subscribers # {}
  /\ \A p \in Sources : ~Remaining(p)
  /\ finished' = subscribers
  /\ subscribers' = {}
  /\ UNCHANGED <<input, taken, out>>

Next == Finish \/ \E p \in Sources : Emit(p)

Spec == Init /\ [][Next]_vars
=============================================================================
