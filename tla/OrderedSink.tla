---------------------------- MODULE OrderedSink ----------------------------
(***************************************************************************)
(* OrderedSink, the buffered output of one query, and the chain run()      *)
(* links the sinks of all queries into (addSink).  Each sink is filled by  *)
(* the worker that runs its query; push is not locked, done() takes the    *)
(* lock all sinks share and holds it while it tells its successors.        *)
(***************************************************************************)
EXTENDS Naturals, Sequences

CONSTANTS N,            \* the number of queries, in query order
          Lengths       \* the families of line counts considered

ASSUME SinkAssumption ==
  /\ N \in Nat \ {0}
  /\ Lengths \subseteq [1..N -> Nat]

Sinks == 1..N

VARIABLES keep_order,   \* --keep-output-order
          length,       \* how many lines each query prints
          state,        \* state_
          buf,          \* buf_: how many lines are buffered
          printed,      \* os_: the flushed blocks, <<sink, number of lines>>
          notify        \* the sink whose prevCompleteLocked is to be called

vars == <<keep_order, length, state, buf, printed, notify>>

None == 0

States == {"ConsumingWaiting", "ConsumingReady", "DoneWaiting", "DoneComplete"}

Consuming(i) == state[i] \in {"ConsumingWaiting", "ConsumingReady"}

----------------------------------------------------------------------------
\* Mutated forms of definitions below; none is part of the specification.
next_Unchecked(i) == i + 1
StartWaiting_Off(i) == FALSE
PrevConsuming_Flush(j) ==
  /\ notify = j /\ state[j] = "ConsumingWaiting"
  /\ printed' = Append(printed, <<j, buf[j]>>)
  /\ buf' = [buf EXCEPT ![j] = 0]
  /\ state' = [state EXCEPT ![j] = "ConsumingReady"]
  /\ notify' = None
  /\ UNCHANGED <<keep_order, length>>
DoneReady_NoNotify(i) ==
  /\ state[i] = "ConsumingReady" /\ buf[i] = length[i] /\ notify = None
  /\ printed' = Append(printed, <<i, buf[i]>>)
  /\ buf' = [buf EXCEPT ![i] = 0]
  /\ state' = [state EXCEPT ![i] = "DoneComplete"]
  /\ UNCHANGED <<keep_order, length, notify>>
----------------------------------------------------------------------------
\* addSink: all sinks but the first wait, if the order is to be kept.
StartWaiting(i) == keep_order /\ i # 1

next(i) == IF i < N THEN i + 1 ELSE None

Init ==
  /\ keep_order \in BOOLEAN
  /\ length \in Lengths
  /\ state = [i \in Sinks |->
       IF StartWaiting(i) THEN "ConsumingWaiting" ELSE "ConsumingReady"]
  /\ buf = [i \in Sinks |-> 0]
  /\ printed = <<>>
  /\ notify = None

\* The shared lock is held for as long as there is a successor to tell.
lockFree == notify = None

flushLocked(i) ==
  /\ printed' = Append(printed, <<i, buf[i]>>)
  /\ buf' = [buf EXCEPT ![i] = 0]

become(i, st) == state' = [state EXCEPT ![i] = st]

\* push: not under the lock, it interleaves with the other sinks' done().
push(i) ==
  /\ Consuming(i)
  /\ buf[i] < length[i]
  /\ buf' = [buf EXCEPT ![i] = @ + 1]
  /\ UNCHANGED <<keep_order, length, state, printed, notify>>

\* done(), called once, at the end of the query's output.
done(i) == Consuming(i) /\ buf[i] = length[i] /\ lockFree

DoneWaits(i) ==
  /\ done(i)
  /\ state[i] = "ConsumingWaiting"
  /\ become(i, "DoneWaiting")
  /\ UNCHANGED <<keep_order, length, buf, printed, notify>>

DoneReady(i) ==
  /\ done(i)
  /\ state[i] = "ConsumingReady"
  /\ become(i, "DoneComplete")
  /\ flushLocked(i)
  /\ notify' = next(i)
  /\ UNCHANGED <<keep_order, length>>

\* prevCompleteLocked, on a sink that is still filled, ...
PrevConsuming(j) ==
  /\ notify = j
  /\ state[j] = "ConsumingWaiting"
  /\ become(j, "ConsumingReady")
  /\ notify' = None
  /\ UNCHANGED <<keep_order, length, buf, printed>>

\* ... that was only waiting for its predecessors, ...
PrevDone(j) ==
  /\ notify = j
  /\ state[j] = "DoneWaiting"
  /\ become(j, "DoneComplete")
  /\ flushLocked(j)
  /\ notify' = next(j)
  /\ UNCHANGED <<keep_order, length>>

\* ... or that does not wait for them.
PrevIgnored(j) ==
  /\ notify = j
  /\ state[j] \in {"ConsumingReady", "DoneComplete"}
  /\ notify' = None
  /\ UNCHANGED <<keep_order, length, state, buf, printed>>

Step(i) ==
  \/ push(i) \/ DoneWaits(i) \/ DoneReady(i)
  \/ PrevConsuming(i) \/ PrevDone(i) \/ PrevIgnored(i)

AllDone == lockFree /\ \A i \in Sinks : ~Consuming(i)

Next == (\E i \in Sinks : Step(i)) \/ (AllDone /\ UNCHANGED vars)

\* Every query's output ends, and a thread that holds the lock goes on.
Fairness == \A i \in Sinks : WF_vars(Step(i))

Spec == Init /\ [][Next]_vars /\ Fairness
----------------------------------------------------------------------------
TypeOK ==
  /\ keep_order \in BOOLEAN
  /\ length \in Lengths
  /\ state \in [Sinks -> States]
  /\ buf \in [Sinks -> Nat] /\ \A i \in Sinks : buf[i] <= length[i]
  /\ printed \in Seq(Sinks \X Nat)
  /\ notify \in Sinks \cup {None}

\* --keep-output-order: whatever the order in which the queries end, the
\* blocks on standard output are those of the first queries, in query order.
QueryOrder ==
  keep_order => \A k \in 1..Len(printed) : printed[k][1] = k

\* With or without an order, a query's block is printed once and holds all of
\* its lines: no flush runs while the query still pushes, none is repeated.
WholeBlocks ==
  /\ \A k \in 1..Len(printed) : printed[k][2] = length[printed[k][1]]
  /\ \A k, l \in 1..Len(printed) : printed[k][1] = printed[l][1] => k = l

\* Every query's block is printed in the end: no finished sink is forgotten
\* by its predecessors.
AllPrinted ==
  <>[](\A i \in Sinks : \E k \in 1..Len(printed) : printed[k][1] = i)
=============================================================================
