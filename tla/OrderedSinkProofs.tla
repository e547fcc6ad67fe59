------------------------- MODULE OrderedSinkProofs -------------------------
(***************************************************************************)
(* Proofs about OrderedSink, for any number of queries, any line counts,   *)
(* with and without --keep-output-order.                                   *)
(*                                                                         *)
(* The inductive invariant says what a state of a sink means for what is   *)
(* printed: a sink is complete exactly when its block is out, a waiting    *)
(* sink that is done still has its whole block, and, if the order is kept, *)
(* the only sink that may print next is the first unprinted one: either it *)
(* is ready, or it is the one that is being told.                          *)
(***************************************************************************)
EXTENDS OrderedSink, TLAPS

\* What is printed is whole, and only complete sinks have printed.
Blocks ==
  /\ \A k \in 1..Len(printed) :
       /\ printed[k][2] = length[printed[k][1]]
       /\ state[printed[k][1]] = "DoneComplete"
  /\ \A k, l \in 1..Len(printed) : printed[k][1] = printed[l][1] => k = l
  /\ \A i \in Sinks : state[i] = "DoneWaiting" => buf[i] = length[i]

\* The order: sinks 1..Len(printed) are complete, the next one is in turn.
Turns ==
  keep_order =>
    /\ \A k \in 1..Len(printed) : printed[k][1] = k
    /\ \A i \in Sinks : state[i] = "DoneComplete" <=> i <= Len(printed)
    /\ \A i \in Sinks :
         state[i] = "ConsumingReady" => i = Len(printed) + 1 /\ notify = None
    /\ notify # None => notify = Len(printed) + 1

IInv == TypeOK /\ Blocks /\ Turns

\* The components of a printed block.
LEMMA BlockType ==
  ASSUME printed \in Seq(Sinks \X Nat)
  PROVE  \A k \in 1..Len(printed) : printed[k][1] \in Sinks /\ printed[k][2] \in Nat
<1> TAKE k \in 1..Len(printed)
<1>1. printed[k] \in Sinks \X Nat
  OBVIOUS
<1> QED
  BY <1>1

\* Flushing keeps the types.
LEMMA FlushType ==
  ASSUME TypeOK, NEW i \in Sinks, flushLocked(i)
  PROVE  /\ printed' \in Seq(Sinks \X Nat) /\ buf' \in [Sinks -> Nat]
         /\ \A j \in Sinks : buf'[j] <= length[j]
<1>1. <<i, buf[i]>> \in Sinks \X Nat
  BY DEF TypeOK
<1>2. length \in [Sinks -> Nat] /\ buf \in [Sinks -> Nat]
  BY SinkAssumption DEF TypeOK, Sinks
<1>3. buf' = [buf EXCEPT ![i] = 0] /\ 0 <= length[i]
  BY <1>2 DEF flushLocked
<1>4. \A j \in Sinks : buf'[j] <= length[j]
  BY <1>2, <1>3 DEF TypeOK
<1> QED
  BY <1>1, <1>4 DEF TypeOK, flushLocked

\* The type invariant of the chain of sinks holds in every reachable state.
THEOREM TypeCorrect == Spec => []TypeOK
<1> USE SinkAssumption DEF TypeOK, Sinks, States, None, Consuming
<1>1. Init => TypeOK
  BY DEF Init, StartWaiting
<1>2. TypeOK /\ [Next]_vars => TypeOK'
  <2> SUFFICES ASSUME TypeOK, [Next]_vars PROVE TypeOK'
    OBVIOUS
  <2>1. ASSUME NEW i \in Sinks, push(i) PROVE TypeOK'
    <3>1. buf' = [buf EXCEPT ![i] = buf[i] + 1] /\ buf[i] < length[i]
      BY <2>1 DEF push
    <3>2. length \in [Sinks -> Nat] /\ buf \in [Sinks -> Nat]
      OBVIOUS
    <3>3. buf[i] + 1 \in Nat /\ buf[i] + 1 <= length[i]
      BY <3>1, <3>2
    <3>4. buf' \in [Sinks -> Nat]
      BY <3>1, <3>2, <3>3
    <3>5. \A j \in Sinks : buf'[j] <= length[j]
      BY <3>1, <3>2, <3>3
    <3> QED
      BY <2>1, <3>4, <3>5 DEF push
  <2>2. ASSUME NEW i \in Sinks, DoneWaits(i) PROVE TypeOK'
    BY <2>2 DEF DoneWaits, done, become
  <2>3. ASSUME NEW i \in Sinks, DoneReady(i) PROVE TypeOK'
    <3>1. printed' \in Seq(Sinks \X Nat) /\ buf' \in [Sinks -> Nat]
      BY <2>3, FlushType DEF DoneReady
    <3>2. \A j \in Sinks : buf'[j] <= length'[j]
      BY <2>3, FlushType DEF DoneReady
    <3>3. state' \in [Sinks -> States] /\ notify' \in Sinks \cup {None}
      BY <2>3 DEF DoneReady, become, next
    <3> QED
      BY <2>3, <3>1, <3>2, <3>3 DEF DoneReady
  <2>4. ASSUME NEW i \in Sinks, PrevConsuming(i) PROVE TypeOK'
    BY <2>4 DEF PrevConsuming, become
  <2>5. ASSUME NEW i \in Sinks, PrevDone(i) PROVE TypeOK'
    <3>1. printed' \in Seq(Sinks \X Nat) /\ buf' \in [Sinks -> Nat]
      BY <2>5, FlushType DEF PrevDone
    <3>2. \A j \in Sinks : buf'[j] <= length'[j]
      BY <2>5, FlushType DEF PrevDone
    <3>3. state' \in [Sinks -> States] /\ notify' \in Sinks \cup {None}
      BY <2>5 DEF PrevDone, become, next
    <3> QED
      BY <2>5, <3>1, <3>2, <3>3 DEF PrevDone
  <2>6. ASSUME NEW i \in Sinks, PrevIgnored(i) PROVE TypeOK'
    BY <2>6 DEF PrevIgnored
  <2>7. CASE UNCHANGED vars
    BY <2>7 DEF vars
  <2> QED
    BY <2>1, <2>2, <2>3, <2>4, <2>5, <2>6, <2>7 DEF Next, Step
<1> QED
  BY <1>1, <1>2, PTL DEF Spec

\* A block that is flushed joins the ones printed before it: it is whole, its
\* sink was not complete yet, and, if the order is kept, it is the next one.
LEMMA Flush ==
  ASSUME IInv, NEW i \in Sinks, flushLocked(i), become(i, "DoneComplete"),
         state[i] # "DoneComplete", buf[i] = length[i], UNCHANGED <<keep_order, length>>,
         notify' = next(i), keep_order => i = Len(printed) + 1,
         keep_order => \A j \in Sinks : state[j] = "ConsumingReady" => j = i
  PROVE  Blocks' /\ Turns'
<1>0. /\ Len(printed) \in Nat
      /\ state \in [Sinks -> States]
      /\ buf \in [Sinks -> Nat]
      /\ printed \in Seq(Sinks \X Nat)
      /\ Blocks /\ Turns
  BY DEF IInv, TypeOK
<1> DEFINE n == Len(printed) + 1
<1>b. printed' = Append(printed, <<i, buf[i]>>) /\ <<i, buf[i]>> \in Sinks \X Nat
  BY <1>0 DEF flushLocked
<1>c. Len(printed') = n /\ printed'[n] = <<i, buf[i]>>
  BY <1>0, <1>b
<1>d. \A k \in 1..Len(printed) : printed'[k] = printed[k]
  BY <1>0, <1>b
<1>1. /\ Len(printed') = n
      /\ printed'[n][1] = i /\ printed'[n][2] = buf[i]
      /\ \A k \in 1..Len(printed) :
           printed'[k][1] = printed[k][1] /\ printed'[k][2] = printed[k][2]
  BY <1>c, <1>d
<1>2. \A k \in 1..Len(printed) : printed[k][1] \in Sinks /\ printed[k][1] # i
  BY <1>0, BlockType DEF Blocks
<1>3. state' = [state EXCEPT ![i] = "DoneComplete"]
  BY DEF become
<1>a. \A k \in 1..Len(printed') : k \in 1..Len(printed) \/ k = n
  BY <1>0, <1>1
<1>4. \A k \in 1..Len(printed') : state'[printed'[k][1]] = "DoneComplete"
  <2>1. \A k \in 1..Len(printed) : state'[printed[k][1]] = "DoneComplete"
    BY <1>0, <1>2, <1>3 DEF Blocks
  <2>2. state'[i] = "DoneComplete"
    BY <1>0, <1>3
  <2> HIDE DEF n
  <2> QED
    BY <1>1, <2>1, <2>2, <1>a
<1>5. \A k \in 1..Len(printed') : printed'[k][2] = length'[printed'[k][1]]
  <2>1. \A k \in 1..Len(printed) : printed[k][2] = length[printed[k][1]]
    BY <1>0 DEF Blocks
  <2> HIDE DEF n
  <2> QED
    BY <1>1, <2>1, <1>a
<1>6. \A k, l \in 1..Len(printed') : printed'[k][1] = printed'[l][1] => k = l
  <2>1. \A k, l \in 1..Len(printed) : printed[k][1] = printed[l][1] => k = l
    BY <1>0 DEF Blocks
  <2> HIDE DEF n
  <2> QED
    BY <1>1, <1>2, <2>1, <1>a
<1>7. \A j \in Sinks : state'[j] = "DoneWaiting" => buf'[j] = length'[j]
  BY <1>0, <1>3 DEF Blocks, flushLocked
<1>8. Turns'
  <2> SUFFICES ASSUME keep_order PROVE Turns'
    BY SinkAssumption DEF Turns
  <2>1. \A k \in 1..Len(printed') : printed'[k][1] = k
    <3>1. i = n /\ \A k \in 1..Len(printed) : printed[k][1] = k
      BY <1>0 DEF Turns
    <3> HIDE DEF n
    <3> QED
      BY <1>1, <3>1, <1>a
  <2>2. \A j \in Sinks : state'[j] = "DoneComplete" <=> j <= Len(printed')
    BY <1>0, <1>1, <1>3, SinkAssumption DEF Turns, Sinks
  <2>3. \A j \in Sinks : state'[j] # "ConsumingReady"
    BY <1>0, <1>3
  <2>4. notify' # None => notify' = Len(printed') + 1
    BY <1>1 DEF next
  <2> QED
    BY <2>1, <2>2, <2>3, <2>4 DEF Turns
<1> QED
  BY <1>4, <1>5, <1>6, <1>7, <1>8 DEF Blocks

\* The invariant that carries the order and the integrity of the blocks.
THEOREM Inductive == Spec => []IInv
<1> USE SinkAssumption DEF Sinks, States, None, Consuming
<1>1. Init => Blocks /\ Turns
  BY DEF Init, StartWaiting, Blocks, Turns
<1>2. IInv /\ TypeOK' /\ [Next]_vars => IInv'
  <2> SUFFICES ASSUME IInv, TypeOK', [Next]_vars PROVE Blocks' /\ Turns'
    BY DEF IInv
  <2> USE DEF IInv, TypeOK
  <2>1. ASSUME NEW i \in Sinks, push(i) PROVE Blocks' /\ Turns'
    BY <2>1 DEF push, Blocks, Turns
  <2>2. ASSUME NEW i \in Sinks, DoneWaits(i) PROVE Blocks' /\ Turns'
    <3>1. Blocks'
      BY <2>2, BlockType DEF DoneWaits, done, become, Blocks
    <3>2. Turns'
      BY <2>2 DEF DoneWaits, done, become, Turns
    <3> QED
      BY <3>1, <3>2
  <2>3. ASSUME NEW i \in Sinks, DoneReady(i) PROVE Blocks' /\ Turns'
    <3>1. /\ keep_order => i = Len(printed) + 1
          /\ keep_order => \A j \in Sinks : state[j] = "ConsumingReady" => j = i
      BY <2>3 DEF DoneReady, Turns
    <3> QED
      BY <2>3, <3>1, Flush DEF DoneReady, done
  <2>4. ASSUME NEW i \in Sinks, PrevConsuming(i) PROVE Blocks' /\ Turns'
    <3>1. Blocks'
      BY <2>4, BlockType DEF PrevConsuming, become, Blocks
    <3>2. Turns'
      BY <2>4 DEF PrevConsuming, become, Turns
    <3> QED
      BY <3>1, <3>2
  <2>5. ASSUME NEW i \in Sinks, PrevDone(i) PROVE Blocks' /\ Turns'
    <3>1. /\ keep_order => i = Len(printed) + 1
          /\ keep_order => \A j \in Sinks : state[j] = "ConsumingReady" => j = i
      BY <2>5 DEF PrevDone, Turns
    <3> QED
      BY <2>5, <3>1, Flush DEF PrevDone, Blocks
  <2>6. ASSUME NEW i \in Sinks, PrevIgnored(i) PROVE Blocks' /\ Turns'
    BY <2>6 DEF PrevIgnored, Blocks, Turns
  <2>7. CASE UNCHANGED vars
    BY <2>7 DEF vars, Blocks, Turns
  <2> QED
    BY <2>1, <2>2, <2>3, <2>4, <2>5, <2>6, <2>7 DEF Next, Step
<1> QED
  BY <1>1, <1>2, TypeCorrect, PTL DEF Spec, IInv

\* With --keep-output-order standard output holds the blocks of the first
\* queries in query order, in every reachable state.
THEOREM KeepsQueryOrder == Spec => []QueryOrder
<1>1. IInv => QueryOrder
  BY DEF IInv, Turns, QueryOrder
<1> QED
  BY <1>1, Inductive, PTL

\* Every block on standard output is whole and there is one per query.
THEOREM PrintsWholeBlocks == Spec => []WholeBlocks
<1>1. IInv => WholeBlocks
  BY DEF IInv, Blocks, WholeBlocks
<1> QED
  BY <1>1, Inductive, PTL
=============================================================================
