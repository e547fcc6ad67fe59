--------------------------- MODULE OperationBase ---------------------------
(***************************************************************************)
(* OperationBase, the output side every physical operator inherits: the    *)
(* set of subscribers and emit, which drops the subscribers whose consume  *)
(* returned false.  The subscribers are left open: any of them may leave   *)
(* at any record (a LIMIT was reached, a join cannot match any more), and  *)
(* all of them leave at the final nullptr.                                 *)
(***************************************************************************)
EXTENDS Naturals, Sequences

CONSTANTS Subscribers   \* the subscribers output() registered

ASSUME SubscribersAssumption == Subscribers # {}

VARIABLES subscribers,  \* subscribers_
          finished,     \* the subscribers that were handed the final nullptr
          out,          \* the records handed to them, <<input, position>>
          taken         \* how many of those came from each input

Downstream == <<subscribers, finished, out, taken>>

InitDownstream(inputs) ==
  /\ subscribers = Subscribers
  /\ finished = {}
  /\ out = <<>>
  /\ taken = [s \in inputs |-> 0]

active == subscribers # {}

\* emit(record), the i-th record of input s.
emit(s, i) ==
  /\ IF active
     THEN /\ out' = Append(out, <<s, i>>)
          /\ taken' = [taken EXCEPT ![s] = @ + 1]
     ELSE UNCHANGED <<out, taken>>
  /\ subscribers' \in SUBSET subscribers
  /\ UNCHANGED finished

\* emit(nullptr): no subscriber of any kind continues after it.
emitLast ==
  /\ finished' = finished \cup subscribers
  /\ subscribers' = {}
  /\ UNCHANGED <<out, taken>>

TypeOKDownstream(inputs) ==
  /\ subscribers \subseteq Subscribers
  /\ finished \subseteq Subscribers
  /\ out \in Seq(inputs \X (Nat \ {0}))
  /\ taken \in [inputs -> Nat]
=============================================================================
