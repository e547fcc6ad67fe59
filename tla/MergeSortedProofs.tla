------------------------- MODULE MergeSortedProofs -------------------------
(***************************************************************************)
(* For inputs of any length and any subscribers: MergeSorted implements    *)
(* the abstract merge in sort order, so that its output is sorted and      *)
(* complete, its verify_dbg assertions hold, it stops promptly and retains *)
(* nothing.                                                                *)
(*                                                                         *)
(* The operator is in one of three modes.  While it is live, a buffer is   *)
(* the run of accepted records that are not emitted, so that the fronts    *)
(* that drain() compares are the next records of both inputs; a side at    *)
(* its end with an empty buffer has no next record.  When the last         *)
(* subscriber leaves, one side may still be upstream: it is sent away by   *)
(* its next call.  Then everything is reset.                               *)
(***************************************************************************)
EXTENDS MergeSorted, TLAPS

\* The record of side s that drain(side, record) holds in its hand.
InHand(s) == IF pc[s] = "feed" THEN 1 ELSE 0

\* One side of a live operator.
LiveSide(s) ==
  /\ Len(buffers[s]) + InHand(s) + taken[s] = got[s]
  /\ \A k \in 1..Len(buffers[s]) : buffers[s][k] = taken[s] + k
  /\ pc[s] = "feed" => buffers[s] = <<>>
  /\ eof[s] <=> pc[s] \in {"eofdrain", "gone"}
  /\ eof[s] => got[s] = Len(input[s])

Live ==
  /\ active /\ ~delay_done /\ finished = {}
  /\ \A s \in Side : LiveSide(s)
  /\ \A s \in Side : pc[s] \in InConsume => pc[Other(s)] \notin InConsume
  /\ \E s \in Side : pc[s] # "gone"

\* The last subscriber has left; one side does not know yet.
Stopped ==
  /\ ~active /\ delay_done
  /\ \E s \in Side : pc[s] = "gone" /\ eof[s] /\ pc[Other(s)] = "ready"

Over ==
  /\ ~active /\ ~delay_done
  /\ \A s \in Side : pc[s] = "gone" /\ buffers[s] = <<>> /\ ~eof[s]

\* What was emitted may go before what was not.
Ahead ==
  \A n \in 1..Len(out) : \A s \in Side : \A i \in (taken[s] + 1)..Len(input[s]) :
    Before(OutKey(n), key(s, i))

\* The emitted records are records of the inputs.
OutValid == \A n \in 1..Len(out) : out[n][1] \in Side /\ out[n][2] \in 1..Len(input[out[n][1]])

IInv ==
  /\ TypeOK /\ \A s \in Side : Sorted(input[s])
  /\ OutValid /\ MergeOrder /\ Ahead
  /\ Live \/ Stopped \/ Over
----------------------------------------------------------------------------
\* There are two sides.
LEMMA Sides ==
  /\ Left \in Side /\ Right \in Side /\ Other(Left) = Right /\ Other(Right) = Left
  /\ \A s \in Side : Other(s) \in Side /\ Other(s) # s /\ Other(Other(s)) = s
  /\ \A s, t \in Side : t = s \/ t = Other(s)
<1> QED
  BY DEF Side, Left, Right, Other

LEMMA TypeFacts ==
  ASSUME TypeOK, NEW s \in Side
  PROVE  /\ input[s] \in Seq(Int) /\ Len(input[s]) \in Nat
         /\ got[s] \in Nat /\ taken[s] \in Nat /\ got[s] <= Len(input[s])
         /\ buffers[s] \in Seq(Nat) /\ Len(buffers[s]) \in Nat
         /\ (Len(buffers[s]) = 0 <=> buffers[s] = <<>>)
         /\ \A i \in 1..Len(input[s]) : key(s, i) \in Int
<1>1. input[s] \in Seq(Int)
  BY MergeAssumption DEF TypeOK
<1>2. got[s] \in Nat /\ taken[s] \in Nat /\ got[s] <= Len(input[s]) /\ buffers[s] \in Seq(Nat)
  BY DEF TypeOK, TypeOKDownstream
<1> QED
  BY <1>1, <1>2 DEF key

\* Before is a total preorder of the keys, and less respects it.
LEMMA BeforeFacts ==
  /\ \A a \in Int : Before(a, a)
  /\ \A a, b, c \in Int : Before(a, b) /\ Before(b, c) => Before(a, c)
  /\ \A a, b \in Int : IF less(a, b) THEN Before(a, b) ELSE Before(b, a)
<1> QED
  BY DEF Before, less

\* The abstract merge may take the next record of side p.
MayEmit(p) ==
  /\ active /\ taken[p] < Len(input[p])
  /\ \A q \in Side : taken[q] < Len(input[q]) =>
       Before(key(p, taken[p] + 1), key(q, taken[q] + 1))

\* Emitting a record that may go next keeps the output sorted, and ahead of
\* what is not emitted.
LEMMA EmitSorted ==
  ASSUME IInv, NEW p \in Side, MayEmit(p), emit(p, taken[p] + 1), UNCHANGED <<desc, input>>
  PROVE  /\ OutValid' /\ MergeOrder' /\ Ahead'
         /\ TypeOKDownstream(Side)'
         /\ taken' = [taken EXCEPT ![p] = @ + 1]
         /\ subscribers' \in SUBSET subscribers /\ finished' = finished
<1>0. PICK x, n : x = taken[p] + 1 /\ n = Len(out) + 1
  OBVIOUS
<1>1. /\ out' = Append(out, <<p, x>>) /\ taken' = [taken EXCEPT ![p] = @ + 1]
      /\ subscribers' \in SUBSET subscribers /\ finished' = finished
  BY <1>0 DEF emit, MayEmit
<1>2. /\ out \in Seq(Side \X (Nat \ {0})) /\ Len(out) \in Nat /\ taken \in [Side -> Nat]
      /\ subscribers \subseteq Subscribers /\ finished \subseteq Subscribers
  BY DEF IInv, TypeOK, TypeOKDownstream
<1>3. x \in Nat \ {0} /\ x \in 1..Len(input[p]) /\ <<p, x>> \in Side \X (Nat \ {0})
  BY <1>0, TypeFacts DEF IInv, MayEmit
<1>4. TypeOKDownstream(Side)'
  BY <1>1, <1>2, <1>3 DEF TypeOKDownstream
<1>5. /\ Len(out') = n /\ out'[n] = <<p, x>>
      /\ \A m \in 1..Len(out) : out'[m] = out[m]
      /\ \A m \in 1..Len(out') : m \in 1..Len(out) \/ m = n
      /\ n \notin 1..Len(out)
  BY <1>0, <1>1, <1>2, <1>3
<1>6. out'[n][1] = p /\ out'[n][2] = x
  BY <1>5
<1>7. OutValid'
  BY <1>3, <1>5, <1>6 DEF IInv, OutValid
<1>8. \A m \in 1..Len(out) : OutKey(m) \in Int /\ OutKey(m)' = OutKey(m)
  <2>1. \A m \in 1..Len(out) : OutKey(m) \in Int
    BY TypeFacts DEF IInv, OutValid, OutKey
  <2>2. \A m \in 1..Len(out) : OutKey(m)' = OutKey(m)
    BY <1>5 DEF OutKey, key
  <2> QED
    BY <2>1, <2>2
<1>9. OutKey(n)' = key(p, x) /\ key(p, x) \in Int
  <2>1. OutKey(n)' = input'[out'[n][1]][out'[n][2]]
    BY DEF OutKey, key
  <2>2. OutKey(n)' = key(p, x)
    BY <1>6, <2>1 DEF key
  <2>3. key(p, x) \in Int
    BY <1>3, TypeFacts DEF IInv
  <2> QED
    BY <2>2, <2>3
<1>10. \A a, b : Before(a, b)' <=> Before(a, b)
  BY DEF Before
<1>11. \A s \in Side : \A i : key(s, i)' = key(s, i)
  BY DEF key
<1>12. MergeOrder'
  <2> SUFFICES ASSUME NEW l \in 1..Len(out'), NEW m \in 1..Len(out'), l <= m
               PROVE  Before(OutKey(l)', OutKey(m)')
    BY <1>10 DEF MergeOrder
  <2>1. CASE l \in 1..Len(out) /\ m \in 1..Len(out)
    BY <2>1, <1>8 DEF IInv, MergeOrder
  <2>2. CASE l \in 1..Len(out) /\ m = n
    <3>1. x \in (taken[p] + 1)..Len(input[p])
      BY <1>0, <1>2, <1>3, TypeFacts DEF IInv
    <3>2. Before(OutKey(l), key(p, x))
      BY <2>2, <3>1 DEF IInv, Ahead
    <3> QED
      BY <2>2, <3>2, <1>8, <1>9
  <2>3. CASE l = n /\ m = n
    BY <2>3, <1>9, BeforeFacts
  <2>4. ~(l = n /\ m \in 1..Len(out))
    BY <1>0, <1>2
  <2> QED
    BY <2>1, <2>2, <2>3, <2>4, <1>5
<1>13. Ahead'
  <2> SUFFICES ASSUME NEW m \in 1..Len(out'), NEW s \in Side,
                      NEW i \in (taken'[s] + 1)..Len(input[s])
               PROVE  Before(OutKey(m)', key(s, i))
    BY <1>10, <1>11 DEF Ahead
  <2>1. /\ taken[s] \in Nat /\ taken[s] <= taken'[s] /\ Len(input[s]) \in Nat
        /\ i \in (taken[s] + 1)..Len(input[s]) /\ i \in 1..Len(input[s])
        /\ taken[s] + 1 \in 1..Len(input[s]) /\ taken[s] < Len(input[s]) /\ taken[s] + 1 <= i
    <3>1. taken[s] \in Nat /\ Len(input[s]) \in Nat
      BY TypeFacts DEF IInv
    <3>2. taken'[s] = taken[s] \/ taken'[s] = taken[s] + 1
      BY <1>1, <1>2
    <3> QED
      BY <3>1, <3>2
  <2>2. CASE m \in 1..Len(out)
    BY <2>1, <2>2, <1>8 DEF IInv, Ahead
  <2>3. CASE m = n
    <3>1. Before(key(p, x), key(s, taken[s] + 1))
      BY <1>0, <2>1 DEF MayEmit
    <3>2. Before(key(s, taken[s] + 1), key(s, i))
      BY <2>1 DEF IInv, Sorted, key
    <3>3. key(s, taken[s] + 1) \in Int /\ key(s, i) \in Int
      BY <2>1, TypeFacts DEF IInv
    <3> QED
      BY <2>3, <3>1, <3>2, <3>3, <1>9, BeforeFacts
  <2> QED
    BY <2>2, <2>3, <1>5
<1> QED
  BY <1>1, <1>4, <1>7, <1>12, <1>13

\* A side that is inside consume is alone there, and knows the operator live.
LEMMA InsideFacts ==
  ASSUME IInv, NEW s \in Side, pc[s] \in InConsume
  PROVE  Live /\ pc[Other(s)] \in {"ready", "gone"}
<1>1. Live
  BY Sides DEF IInv, Stopped, Over, InConsume
<1> QED
  BY <1>1, Sides DEF IInv, TypeOK, Live

\* reset() keeps the types.
LEMMA ResetTypes ==
  ASSUME reset
  PROVE  /\ buffers' \in [Side -> Seq(Nat)] /\ eof' \in [Side -> BOOLEAN] /\ delay_done' \in BOOLEAN
         /\ \A s \in Side : \A k \in DOMAIN buffers'[s] : buffers'[s][k] \in 1..got'[s]
<1>1. buffers' = [s \in Side |-> <<>>] /\ eof' = [s \in Side |-> FALSE] /\ delay_done' = FALSE
  BY DEF reset
<1>2. buffers' \in [Side -> Seq(Nat)]
  BY <1>1
<1>3. eof' \in [Side -> BOOLEAN]
  BY <1>1
<1>4. delay_done' \in BOOLEAN
  BY <1>1
<1>5. ASSUME NEW s \in Side, NEW k \in DOMAIN buffers'[s] PROVE buffers'[s][k] \in 1..got'[s]
  <2>1. buffers'[s] = <<>>
    BY <1>1
  <2>2. DOMAIN buffers'[s] = 1..0
    BY <2>1
  <2> QED
    BY <2>2
<1> QED
  BY <1>2, <1>3, <1>4, <1>5

\* What is left in the buffers by a step that emits.
LeftOver(s, l, left) ==
  /\ left \in [Side -> Seq(Nat)]
  /\ \A t \in Side : \A k \in 1..Len(left[t]) : left[t][k] = taken'[t] + k
  /\ Len(left[s]) + (IF l = "feed" THEN 1 ELSE 0) + taken'[s] = got[s]
  /\ Len(left[Other(s)]) + taken'[Other(s)] = got[Other(s)]
  /\ l = "feed" => left[s] = <<>>

\* The step that emits keeps the operator live, or ends it.
LEMMA EmitStep ==
  ASSUME IInv, NEW s \in Side, pc[s] \in InConsume, NEW p \in Side, NEW left,
         NEW l \in {"ready", "drain", "eofdrain", "feed"}, l = "eofdrain" <=> pc[s] = "eofdrain",
         MayEmit(p), emit(p, taken[p] + 1), UNCHANGED <<desc, input, got>>,
         LeftOver(s, l, left), AfterEmit(s, l, left)
  PROVE  IInv'
<1>1. /\ OutValid' /\ MergeOrder' /\ Ahead' /\ TypeOKDownstream(Side)'
      /\ subscribers' \in SUBSET subscribers /\ finished' = finished
  BY EmitSorted
<1>2. Live /\ pc[Other(s)] \in {"ready", "gone"} /\ Other(s) \in Side /\ Other(s) # s
  BY InsideFacts, Sides
<1>3. pc \in [Side -> {"ready", "gone"} \cup InConsume] /\ eof \in [Side -> BOOLEAN]
  BY DEF IInv, TypeOK
<1>4. \A t \in Side : Sorted(input[t])'
  BY DEF IInv, Sorted, Before
<1>5. ASSUME NEW t \in Side, NEW k \in DOMAIN left[t] PROVE left[t][k] \in 1..got[t]
  <2>1. left[t] \in Seq(Nat) /\ k \in 1..Len(left[t]) /\ Len(left[t]) \in Nat
    BY DEF LeftOver
  <2>2. taken'[t] \in Nat /\ got[t] \in Nat
    BY <1>1, TypeFacts DEF TypeOKDownstream, IInv
  <2>3. Len(left[t]) + taken'[t] <= got[t]
    <3>1. CASE t = s
      BY <3>1, <2>1, <2>2 DEF LeftOver
    <3>2. CASE t = Other(s)
      BY <3>2, <2>1, <2>2 DEF LeftOver
    <3> QED
      BY <3>1, <3>2, Sides
  <2>4. left[t][k] = taken'[t] + k
    BY <2>1 DEF LeftOver
  <2> QED
    BY <2>1, <2>2, <2>3, <2>4
<1>6. CASE active'
  <2>1. /\ buffers' = left /\ pc' = [pc EXCEPT ![s] = l]
        /\ UNCHANGED <<eof, delay_done>>
    BY <1>6 DEF AfterEmit, goto
  <2>2. TypeOK'
    <3>1. pc' \in [Side -> {"ready", "gone"} \cup InConsume]
      BY <1>3, <2>1 DEF InConsume
    <3> QED
      BY <1>1, <1>5, <2>1, <3>1 DEF IInv, TypeOK, LeftOver
  <2>3. pc'[s] = l /\ pc'[Other(s)] = pc[Other(s)]
    BY <1>2, <1>3, <2>1
  <2>4. LiveSide(s)'
    BY <1>2, <2>1, <2>3 DEF Live, LiveSide, LeftOver, InHand, InConsume
  <2>5. LiveSide(Other(s))'
    <3>1. InHand(Other(s))' = 0
      BY <1>2, <2>3 DEF InHand
    <3>2. taken'[Other(s)] \in Nat /\ Len(left[Other(s)]) \in Nat
      BY <1>1, <1>2 DEF TypeOKDownstream, LeftOver
    <3> QED
      BY <1>2, <2>1, <2>3, <3>1, <3>2 DEF Live, LiveSide, LeftOver
  <2>6. \A t \in Side : LiveSide(t)'
    BY <2>4, <2>5, Sides
  <2>7. \A t \in Side : pc'[t] \in InConsume => pc'[Other(t)] \notin InConsume
    BY <1>2, <2>3, Sides DEF InConsume
  <2>8. Live'
    BY <1>1, <1>2, <1>6, <2>1, <2>3, <2>6, <2>7 DEF Live
  <2> QED
    BY <1>1, <1>4, <2>2, <2>8 DEF IInv
<1>7. CASE ~active'
  <2>1. terminate(s, left) /\ pc' = [pc EXCEPT ![s] = "gone"]
    BY <1>7 DEF AfterEmit, goto
  <2>2. pc'[s] = "gone" /\ pc'[Other(s)] = pc[Other(s)]
    BY <1>2, <1>3, <2>1
  <2>3. pc' \in [Side -> {"ready", "gone"} \cup InConsume]
    BY <1>3, <2>1
  <2>4. CASE eof[Other(s)]
    <3>1. reset
      BY <2>1, <2>4 DEF terminate
    <3>2. pc[Other(s)] = "gone"
      BY <1>2, <2>4 DEF Live, LiveSide
    <3>3. \A t \in Side : pc'[t] = "gone"
      BY <2>2, <3>2, Sides
    <3>4. Over'
      BY <1>7, <3>1, <3>3 DEF Over, reset
    <3>5. TypeOK'
      BY <1>1, <2>3, <3>1, ResetTypes DEF IInv, TypeOK
    <3> QED
      BY <1>1, <1>4, <3>4, <3>5 DEF IInv
  <2>5. CASE ~eof[Other(s)]
    <3>1. buffers' = left /\ eof' = [eof EXCEPT ![s] = TRUE] /\ delay_done' = TRUE
      BY <2>1, <2>5 DEF terminate
    <3>2. pc[Other(s)] = "ready"
      BY <1>2, <2>5 DEF Live, LiveSide
    <3>3. eof' \in [Side -> BOOLEAN] /\ eof'[s] = TRUE
      BY <1>3, <3>1
    <3>4. Stopped'
      BY <1>7, <2>2, <3>1, <3>2, <3>3 DEF Stopped
    <3>5. TypeOK'
      BY <1>1, <1>5, <2>3, <3>1, <3>3 DEF IInv, TypeOK, LeftOver
    <3> QED
      BY <1>1, <1>4, <3>4, <3>5 DEF IInv
  <2> QED
    BY <2>4, <2>5
<1> QED
  BY <1>6, <1>7

\* The front of a buffer is the next record of its side.
LEMMA FrontFacts ==
  ASSUME IInv, Live, NEW s \in Side, buffers[s] # <<>>
  PROVE  /\ Head(buffers[s]) = taken[s] + 1 /\ Front(s) = key(s, taken[s] + 1)
         /\ taken[s] < Len(input[s]) /\ Front(s) \in Int
         /\ Tail(buffers[s]) \in Seq(Nat)
         /\ Len(Tail(buffers[s])) = Len(buffers[s]) - 1
         /\ \A k \in 1..Len(Tail(buffers[s])) : Tail(buffers[s])[k] = taken[s] + 1 + k
<1>1. /\ buffers[s] \in Seq(Nat) /\ Len(buffers[s]) \in Nat \ {0} /\ taken[s] \in Nat
      /\ got[s] \in Nat /\ got[s] <= Len(input[s]) /\ Len(input[s]) \in Nat
  BY TypeFacts DEF IInv
<1>2. /\ \A k \in 1..Len(buffers[s]) : buffers[s][k] = taken[s] + k
      /\ Len(buffers[s]) + InHand(s) + taken[s] = got[s] /\ InHand(s) \in Nat
  BY DEF Live, LiveSide, InHand
<1>3. Head(buffers[s]) = taken[s] + 1
  BY <1>1, <1>2
<1>4. taken[s] < Len(input[s]) /\ taken[s] + 1 \in 1..Len(input[s])
  BY <1>1, <1>2
<1>5. /\ Tail(buffers[s]) \in Seq(Nat) /\ Len(Tail(buffers[s])) = Len(buffers[s]) - 1
      /\ \A k \in 1..Len(Tail(buffers[s])) : Tail(buffers[s])[k] = buffers[s][k + 1]
  BY <1>1
<1>6. \A k \in 1..Len(Tail(buffers[s])) : k + 1 \in 1..Len(buffers[s]) /\ taken[s] + (k + 1) = taken[s] + 1 + k
  BY <1>1, <1>5
<1> QED
  BY <1>2, <1>3, <1>4, <1>5, <1>6, TypeFacts DEF Front, IInv

\* The numbers of a live side.
LEMMA LiveNumbers ==
  ASSUME IInv, Live, NEW s \in Side
  PROVE  /\ Len(buffers[s]) + InHand(s) + taken[s] = got[s]
         /\ InHand(s) \in {0, 1} /\ (InHand(s) = 1 <=> pc[s] = "feed")
         /\ (eof[s] => InHand(s) = 0 /\ got[s] = Len(input[s]))
         /\ \A k \in 1..Len(buffers[s]) : buffers[s][k] = taken[s] + k
<1>1. LiveSide(s)
  BY DEF Live
<1>2. Len(buffers[s]) + InHand(s) + taken[s] = got[s]
  BY <1>1 DEF LiveSide
<1>3. InHand(s) \in {0, 1} /\ (InHand(s) = 1 <=> pc[s] = "feed")
  BY DEF InHand
<1>4. eof[s] => InHand(s) = 0 /\ got[s] = Len(input[s])
  BY <1>1 DEF LiveSide, InHand
<1>5. \A k \in 1..Len(buffers[s]) : buffers[s][k] = taken[s] + k
  BY <1>1 DEF LiveSide
<1> QED
  BY <1>2, <1>3, <1>4, <1>5

\* The buffers after a record of side p is moved out.
LEMMA PopFacts ==
  ASSUME IInv, Live, NEW p \in Side, buffers[p] # <<>>, taken' = [taken EXCEPT ![p] = @ + 1]
  PROVE  /\ pop(p) \in [Side -> Seq(Nat)]
         /\ \A t \in Side : \A k \in 1..Len(pop(p)[t]) : pop(p)[t][k] = taken'[t] + k
         /\ \A t \in Side : Len(pop(p)[t]) + taken'[t] = Len(buffers[t]) + taken[t]
         /\ \A t \in Side : buffers[t] = <<>> => pop(p)[t] = <<>>
<1>1. buffers \in [Side -> Seq(Nat)] /\ taken \in [Side -> Nat]
  BY DEF IInv, TypeOK, TypeOKDownstream
<1>2. /\ Tail(buffers[p]) \in Seq(Nat) /\ Len(Tail(buffers[p])) = Len(buffers[p]) - 1
      /\ \A k \in 1..Len(Tail(buffers[p])) : Tail(buffers[p])[k] = taken[p] + 1 + k
  BY FrontFacts
<1>3. /\ pop(p) = [buffers EXCEPT ![p] = Tail(buffers[p])] /\ pop(p)[p] = Tail(buffers[p])
      /\ \A t \in Side : t # p => pop(p)[t] = buffers[t]
      /\ taken'[p] = taken[p] + 1 /\ \A t \in Side : t # p => taken'[t] = taken[t]
  BY <1>1 DEF pop
<1>4. pop(p) \in [Side -> Seq(Nat)]
  BY <1>1, <1>2, <1>3
<1>5. ASSUME NEW t \in Side
      PROVE  /\ \A k \in 1..Len(pop(p)[t]) : pop(p)[t][k] = taken'[t] + k
             /\ Len(pop(p)[t]) + taken'[t] = Len(buffers[t]) + taken[t]
             /\ buffers[t] = <<>> => pop(p)[t] = <<>>
  <2>1. CASE t = p
    <3>1. Len(buffers[p]) \in Nat /\ taken[p] \in Nat
      BY <1>1
    <3>2. Len(pop(p)[p]) = Len(buffers[p]) - 1 /\ taken'[p] = taken[p] + 1
      BY <1>2, <1>3
    <3>3. Len(pop(p)[p]) + taken'[p] = Len(buffers[p]) + taken[p]
      BY <3>1, <3>2
    <3>4. \A k \in 1..Len(pop(p)[p]) : pop(p)[p][k] = taken'[p] + k
      BY <1>2, <1>3
    <3> QED
      BY <2>1, <3>3, <3>4
  <2>2. CASE t # p
    BY <1>3, <2>2, LiveNumbers
  <2> QED
    BY <2>1, <2>2
<1> QED
  BY <1>4, <1>5

\* A side with an empty buffer and an end has nothing left to emit.
LEMMA Exhausted ==
  ASSUME IInv, Live, NEW s \in Side, eof[s], buffers[s] = <<>>
  PROVE  taken[s] = Len(input[s])
<1>1. Len(buffers[s]) = 0 /\ taken[s] \in Nat
  BY TypeFacts DEF IInv
<1> QED
  BY <1>1, LiveNumbers

\* drain() pops a record that may go next.
LEMMA DrainStep ==
  ASSUME IInv, NEW s \in Side, NEW p \in Side, DrainOne(s, p)
  PROVE  IInv' /\ MayEmit(p) /\ emit(p, taken[p] + 1)
<1>1. pc[s] \in {"drain", "eofdrain"} /\ pc[s] \in InConsume
  BY DEF DrainOne, Draining, InConsume
<1>2. Live /\ pc[Other(s)] \in {"ready", "gone"}
  BY <1>1, InsideFacts
<1>3. buffers[p] # <<>>
  BY DEF DrainOne, Pops, Side, Left, Right
<1>4. Head(buffers[p]) = taken[p] + 1 /\ Front(p) = key(p, taken[p] + 1) /\ taken[p] < Len(input[p])
  BY <1>2, <1>3, FrontFacts
<1>5. emit(p, taken[p] + 1)
  BY <1>4 DEF DrainOne
<1>6. ASSUME NEW q \in Side, taken[q] < Len(input[q])
      PROVE  Before(key(p, taken[p] + 1), key(q, taken[q] + 1))
  <2>1. Front(p) \in Int
    BY <1>2, <1>3, FrontFacts
  <2>2. CASE q = p
    BY <1>4, <2>1, <2>2, BeforeFacts
  <2>3. CASE q # p
    <3>1. q = Other(p) /\ p = Other(q)
      BY <2>3, Sides
    <3>2. buffers[q] # <<>>
      <4>1. SUFFICES ASSUME buffers[q] = <<>> PROVE FALSE
        OBVIOUS
      <4>2. eof[q]
        BY <3>1, <4>1 DEF DrainOne, Pops, Side, Left, Right, Other
      <4>3. taken[q] = Len(input[q]) /\ Len(input[q]) \in Nat
        BY <1>2, <4>1, <4>2, Exhausted, TypeFacts DEF IInv
      <4> QED
        BY <1>6, <4>3
    <3>3. Front(q) = key(q, taken[q] + 1) /\ Front(q) \in Int
      BY <1>2, <3>2, FrontFacts
    <3>4. CASE p = Left
      <4>1. q = Right
        BY <3>1, <3>4, Sides
      <4>2. less(Front(p), Front(q))
        BY <1>3, <3>2, <3>4, <4>1 DEF DrainOne, Pops, Left, Right
      <4> QED
        BY <1>4, <2>1, <3>3, <4>2, BeforeFacts
    <3>5. CASE p = Right
      <4>1. q = Left
        BY <3>1, <3>5, Sides
      <4>2. ~less(Front(q), Front(p))
        BY <1>3, <3>2, <3>5, <4>1 DEF DrainOne, Pops, Left, Right
      <4> QED
        BY <1>4, <2>1, <3>3, <4>2, BeforeFacts
    <3> QED
      BY <3>4, <3>5 DEF Side
  <2> QED
    BY <2>2, <2>3
<1>7. MayEmit(p)
  BY <1>2, <1>4, <1>6 DEF MayEmit, Live
<1>8. taken' = [taken EXCEPT ![p] = @ + 1]
  BY <1>2, <1>5 DEF emit, Live
<1>9. LeftOver(s, pc[s], pop(p))
  <2>1. Other(s) \in Side
    BY Sides
  <2>2. InHand(s) = 0 /\ InHand(Other(s)) = 0
    BY <1>1, <1>2 DEF InHand
  <2>3. Len(buffers[s]) + taken[s] = got[s] /\ Len(buffers[Other(s)]) + taken[Other(s)] = got[Other(s)]
    <3>1. \A t \in Side : Len(buffers[t]) \in Nat /\ taken[t] \in Nat
      BY TypeFacts DEF IInv
    <3>2. \A t \in Side : Len(buffers[t]) + InHand(t) + taken[t] = got[t]
      BY <1>2, LiveNumbers
    <3> QED
      BY <2>1, <2>2, <3>1, <3>2
  <2>4. Len(pop(p)[s]) + 0 + taken'[s] = got[s] /\ Len(pop(p)[Other(s)]) + taken'[Other(s)] = got[Other(s)]
    <3>1. \A t \in Side : Len(pop(p)[t]) \in Nat
      BY <1>2, <1>3, <1>8, PopFacts
    <3>2. \A t \in Side : Len(pop(p)[t]) + taken'[t] = Len(buffers[t]) + taken[t]
      BY <1>2, <1>3, <1>8, PopFacts
    <3> QED
      BY <2>1, <2>3, <3>1, <3>2
  <2> QED
    BY <1>1, <1>2, <1>3, <1>8, <2>4, PopFacts DEF LeftOver
<1>10. AfterEmit(s, pc[s], pop(p)) /\ UNCHANGED <<desc, input, got>>
  BY DEF DrainOne
<1> QED
  BY <1>1, <1>5, <1>7, <1>9, <1>10, EmitStep

\* What drain(side, record) starts from: side s has its record in hand and no
\* buffer, the other side has a buffer.
LEMMA FeedFacts ==
  ASSUME IInv, NEW s \in Side, Feeding(s), buffers[Other(s)] # <<>>
  PROVE  /\ Live /\ pc[s] \in InConsume /\ Other(s) \in Side /\ Other(s) # s
         /\ buffers[s] = <<>> /\ got[s] = taken[s] + 1 /\ taken[s] < Len(input[s])
         /\ key(s, got[s]) \in Int
         /\ Len(buffers[Other(s)]) + taken[Other(s)] = got[Other(s)]
<1>1. pc[s] = "feed" /\ pc[s] \in InConsume /\ Other(s) \in Side /\ Other(s) # s
  BY Sides DEF Feeding, InConsume
<1>2. Live /\ pc[Other(s)] \in {"ready", "gone"}
  BY <1>1, InsideFacts
<1>3. buffers[s] = <<>>
  BY <1>1, <1>2 DEF Live, LiveSide
<1>4. InHand(s) = 1 /\ InHand(Other(s)) = 0
  BY <1>1, <1>2 DEF InHand
<1>5. \A t \in Side : /\ Len(buffers[t]) \in Nat /\ taken[t] \in Nat /\ got[t] \in Nat
                       /\ got[t] <= Len(input[t]) /\ Len(input[t]) \in Nat
                       /\ (buffers[t] = <<>> => Len(buffers[t]) = 0)
  BY TypeFacts DEF IInv
<1>6. \A t \in Side : Len(buffers[t]) + InHand(t) + taken[t] = got[t]
  BY <1>2, LiveNumbers
<1>7. got[s] = taken[s] + 1 /\ taken[s] < Len(input[s]) /\ got[s] \in 1..Len(input[s])
  BY <1>3, <1>4, <1>5, <1>6
<1>8. Len(buffers[Other(s)]) + taken[Other(s)] = got[Other(s)]
  BY <1>1, <1>4, <1>5, <1>6
<1>9. key(s, got[s]) \in Int
  BY <1>7, TypeFacts DEF IInv
<1> QED
  BY <1>1, <1>2, <1>3, <1>7, <1>8, <1>9

\* The record in hand is emitted when it may go next.
LEMMA FeedRecordStep ==
  ASSUME IInv, NEW s \in Side, FeedRecord(s)
  PROVE  IInv' /\ MayEmit(s) /\ emit(s, taken[s] + 1)
<1> DEFINE o == Other(s)
<1>1. Feeding(s) /\ buffers[o] # <<>>
  BY DEF FeedRecord
<1>2. /\ Live /\ pc[s] \in InConsume /\ o \in Side /\ o # s
      /\ buffers[s] = <<>> /\ got[s] = taken[s] + 1 /\ taken[s] < Len(input[s])
      /\ key(s, got[s]) \in Int
      /\ Len(buffers[o]) + taken[o] = got[o]
  BY <1>1, FeedFacts
<1>3. emit(s, taken[s] + 1)
  BY <1>2 DEF FeedRecord
<1>4. Front(o) = key(o, taken[o] + 1) /\ Front(o) \in Int
  BY <1>1, <1>2, FrontFacts
<1>5. less(key(s, taken[s] + 1), Front(o))
  BY <1>2 DEF FeedRecord
<1>6. \A q \in Side : Before(key(s, taken[s] + 1), key(q, taken[q] + 1))
  BY <1>2, <1>4, <1>5, BeforeFacts, Sides
<1>7. MayEmit(s)
  BY <1>2, <1>6 DEF MayEmit, Live
<1>8. taken' = [taken EXCEPT ![s] = @ + 1] /\ taken \in [Side -> Nat]
  BY <1>2, <1>3 DEF emit, Live, IInv, TypeOK, TypeOKDownstream
<1>9. LeftOver(s, "ready", buffers)
  <2>1. taken'[s] = got[s] /\ taken'[o] = taken[o] /\ got[s] \in Nat
    BY <1>2, <1>8, TypeFacts DEF IInv
  <2>2. buffers \in [Side -> Seq(Nat)] /\ Len(buffers[s]) = 0
    BY <1>2, TypeFacts DEF IInv, TypeOK
  <2>3. \A k \in 1..Len(buffers[o]) : buffers[o][k] = taken'[o] + k
    BY <1>2, <2>1, LiveNumbers
  <2>4. \A t \in Side : \A k \in 1..Len(buffers[t]) : buffers[t][k] = taken'[t] + k
    <3>1. \A k \in 1..Len(buffers[s]) : buffers[s][k] = taken'[s] + k
      BY <2>2
    <3>2. \A t \in Side : t = s \/ t = o
      BY Sides
    <3> HIDE DEF o
    <3> QED
      BY <2>3, <3>1, <3>2
  <2>5. Len(buffers[s]) + 0 + taken'[s] = got[s] /\ Len(buffers[o]) + taken'[o] = got[o]
    BY <1>2, <2>1, <2>2
  <2> QED
    BY <2>2, <2>4, <2>5 DEF LeftOver
<1>10. AfterEmit(s, "ready", buffers) /\ UNCHANGED <<desc, input, got>> /\ pc[s] # "eofdrain"
  BY <1>1 DEF FeedRecord, Feeding
<1> QED
  BY <1>2, <1>3, <1>7, <1>9, <1>10, EmitStep

\* A record held back is emitted before the one in hand when it may go next.
LEMMA FeedOtherStep ==
  ASSUME IInv, NEW s \in Side, FeedOther(s)
  PROVE  IInv' /\ MayEmit(Other(s)) /\ emit(Other(s), taken[Other(s)] + 1)
<1>0. PICK o : o = Other(s)
  OBVIOUS
<1>1. Feeding(s) /\ buffers[o] # <<>>
  BY <1>0 DEF FeedOther
<1>2. /\ Live /\ pc[s] \in InConsume /\ o \in Side /\ o # s
      /\ buffers[s] = <<>> /\ got[s] = taken[s] + 1 /\ taken[s] < Len(input[s])
      /\ key(s, got[s]) \in Int
      /\ Len(buffers[o]) + taken[o] = got[o]
  BY <1>0, <1>1, FeedFacts
<1>3. /\ Front(o) = key(o, taken[o] + 1) /\ Front(o) \in Int /\ Head(buffers[o]) = taken[o] + 1
      /\ taken[o] < Len(input[o])
  BY <1>1, <1>2, FrontFacts
<1>4. emit(o, taken[o] + 1)
  BY <1>0, <1>3 DEF FeedOther
<1>5. ~less(key(s, taken[s] + 1), Front(o))
  BY <1>0, <1>2 DEF FeedOther
<1>6. \A q \in Side : Before(key(o, taken[o] + 1), key(q, taken[q] + 1))
  BY <1>0, <1>2, <1>3, <1>5, BeforeFacts, Sides
<1>7. MayEmit(o)
  BY <1>2, <1>3, <1>6 DEF MayEmit, Live
<1>8. taken' = [taken EXCEPT ![o] = @ + 1] /\ taken \in [Side -> Nat]
  BY <1>2, <1>4 DEF emit, Live, IInv, TypeOK, TypeOKDownstream
<1>9. LeftOver(s, "feed", pop(o))
  <2>1. /\ pop(o) \in [Side -> Seq(Nat)]
        /\ \A t \in Side : \A k \in 1..Len(pop(o)[t]) : pop(o)[t][k] = taken'[t] + k
        /\ Len(pop(o)[o]) + taken'[o] = Len(buffers[o]) + taken[o]
        /\ pop(o)[s] = <<>>
    BY <1>1, <1>2, <1>8, PopFacts
  <2>2. taken'[s] = taken[s] /\ taken[s] \in Nat
    BY <1>2, <1>8
  <2>3. Len(pop(o)[s]) = 0
    BY <2>1
  <2>4. Len(pop(o)[s]) + 1 + taken'[s] = got[s] /\ Len(pop(o)[o]) + taken'[o] = got[o]
    BY <1>2, <2>1, <2>2, <2>3
  <2> QED
    BY <1>0, <2>1, <2>4 DEF LeftOver
<1>10. AfterEmit(s, "feed", pop(o)) /\ UNCHANGED <<desc, input, got>> /\ pc[s] # "eofdrain"
  BY <1>0, <1>1 DEF FeedOther, Feeding
<1>11. IInv'
  BY <1>2, <1>4, <1>7, <1>9, <1>10, EmitStep
<1> QED
  BY <1>0, <1>4, <1>7, <1>11
----------------------------------------------------------------------------
\* A step that emits nothing keeps what is known of the output.
LEMMA QuietStep ==
  ASSUME IInv, UNCHANGED <<desc, input, out, taken>>, TypeOK', Live' \/ Stopped' \/ Over'
  PROVE  IInv'
<1>1. \A t \in Side : Sorted(input[t])'
  BY DEF IInv, Sorted, Before
<1>2. OutValid' /\ MergeOrder' /\ Ahead'
  BY DEF IInv, OutValid, MergeOrder, Ahead, OutKey, key, Before
<1> QED
  BY <1>1, <1>2 DEF IInv

\* A step of side s that leaves the operator live.
LEMMA LiveStep ==
  ASSUME IInv, Live, NEW s \in Side, NEW l \in {"ready", "gone"} \cup InConsume,
         pc' = [pc EXCEPT ![s] = l], pc[Other(s)] \notin InConsume,
         l # "gone" \/ pc[Other(s)] # "gone",
         UNCHANGED <<desc, input, delay_done, Downstream>>,
         got' \in [Side -> Nat], buffers' \in [Side -> Seq(Nat)], eof' \in [Side -> BOOLEAN],
         got'[Other(s)] = got[Other(s)], buffers'[Other(s)] = buffers[Other(s)],
         eof'[Other(s)] = eof[Other(s)], got'[s] <= Len(input[s]), LiveSide(s)'
  PROVE  IInv'
<1> DEFINE o == Other(s)
<1>1. o \in Side /\ o # s /\ Other(o) = s /\ \A t \in Side : t = s \/ t = o
  BY Sides
<1>2. pc \in [Side -> {"ready", "gone"} \cup InConsume]
  BY DEF IInv, TypeOK
<1>3. pc'[s] = l /\ pc'[o] = pc[o] /\ pc' \in [Side -> {"ready", "gone"} \cup InConsume]
  BY <1>1, <1>2
<1>4. LiveSide(o)'
  <2>1. LiveSide(o) /\ InHand(o)' = InHand(o) /\ taken' = taken
    BY <1>1, <1>3 DEF Live, InHand, Downstream
  <2>2. /\ Len(buffers'[o]) + InHand(o)' + taken'[o] = got'[o]
        /\ \A k \in 1..Len(buffers'[o]) : buffers'[o][k] = taken'[o] + k
    BY <2>1 DEF LiveSide
  <2>3. pc'[o] = "feed" => buffers'[o] = <<>>
    BY <1>3, <2>1 DEF LiveSide
  <2>4. eof'[o] <=> pc'[o] \in {"eofdrain", "gone"}
    BY <1>3, <2>1 DEF LiveSide
  <2>5. eof'[o] => got'[o] = Len(input'[o])
    BY <2>1 DEF LiveSide
  <2> HIDE DEF o
  <2> QED
    BY <2>2, <2>3, <2>4, <2>5 DEF LiveSide
<1>5. \A t \in Side : LiveSide(t)'
  BY <1>1, <1>4
<1>6. \A t \in Side : pc'[t] \in InConsume => pc'[Other(t)] \notin InConsume
  BY <1>1, <1>3
<1>7. Live'
  BY <1>1, <1>3, <1>5, <1>6 DEF Live, Downstream, active
<1>8. TypeOK'
  <2>1. TypeOKDownstream(Side)' /\ taken' \in [Side -> Nat]
    BY DEF IInv, TypeOK, TypeOKDownstream, Downstream
  <2>2. \A t \in Side : got'[t] <= Len(input'[t])
    BY <1>1, TypeFacts DEF IInv
  <2>3. ASSUME NEW t \in Side, NEW k \in DOMAIN buffers'[t] PROVE buffers'[t][k] \in 1..got'[t]
    <3>1. buffers'[t] \in Seq(Nat) /\ Len(buffers'[t]) \in Nat /\ k \in 1..Len(buffers'[t])
      OBVIOUS
    <3>2. /\ Len(buffers'[t]) + InHand(t)' + taken'[t] = got'[t] /\ InHand(t)' \in Nat
          /\ buffers'[t][k] = taken'[t] + k
      BY <1>5, <3>1 DEF LiveSide, InHand
    <3>3. taken'[t] \in Nat /\ got'[t] \in Nat
      BY <2>1
    <3>4. PICK a, h, w, g \in Nat :
            a = Len(buffers'[t]) /\ h = InHand(t)' /\ w = taken'[t] /\ g = got'[t]
      BY <3>1, <3>2, <3>3
    <3>5. k \in 1..a /\ a + h + w = g
      BY <3>1, <3>2, <3>4
    <3>6. w + k \in 1..g
      BY <3>5
    <3> QED
      BY <3>2, <3>4, <3>6
  <2>4. desc' \in BOOLEAN /\ input' \in Inputs /\ delay_done' \in BOOLEAN
    BY DEF IInv, TypeOK
  <2> QED
    BY <1>3, <2>1, <2>2, <2>3, <2>4 DEF TypeOK
<1> QED
  BY <1>7, <1>8, QuietStep DEF Downstream

\* A side outside consume whose call is neither late nor its last.
LEMMA EnterFacts ==
  ASSUME IInv, NEW s \in Side, Enter(s), ~delay_done
  PROVE  /\ Live /\ pc[Other(s)] \notin InConsume /\ ~eof[s]
         /\ Len(buffers[s]) + taken[s] = got[s]
<1>1. pc[s] = "ready" /\ pc[Other(s)] \notin InConsume
  BY DEF Enter, mutexFree
<1>2. Live
  BY <1>1 DEF IInv, Stopped, Over
<1>3. LiveSide(s) /\ InHand(s) = 0
  BY <1>1, <1>2 DEF Live, InHand
<1>4. Len(buffers[s]) \in Nat
  BY TypeFacts DEF IInv
<1>5. Len(buffers[s]) + taken[s] = got[s]
  BY <1>3, <1>4 DEF LiveSide
<1> QED
  BY <1>1, <1>2, <1>3, <1>5 DEF LiveSide

\* The last held back record follows the others.
LEMMA PushFacts ==
  ASSUME IInv, Live, NEW s \in Side, NEW i \in Nat, i = taken[s] + Len(buffers[s]) + 1, push(s, i)
  PROVE  /\ buffers' \in [Side -> Seq(Nat)] /\ buffers'[Other(s)] = buffers[Other(s)]
         /\ Len(buffers'[s]) = Len(buffers[s]) + 1
         /\ \A k \in 1..Len(buffers'[s]) : buffers'[s][k] = taken[s] + k
<1>1. buffers \in [Side -> Seq(Nat)] /\ buffers[s] \in Seq(Nat)
  BY DEF IInv, TypeOK
<1>2. buffers' = [buffers EXCEPT ![s] = Append(buffers[s], i)]
  BY <1>1 DEF push
<1>3. buffers'[s] = Append(buffers[s], i) /\ Append(buffers[s], i) \in Seq(Nat)
  BY <1>1, <1>2
<1>4. buffers'[Other(s)] = buffers[Other(s)]
  BY <1>1, <1>2, Sides
<1>5. buffers' \in [Side -> Seq(Nat)]
  BY <1>1, <1>2, <1>3
<1>6. Len(buffers'[s]) = Len(buffers[s]) + 1
  BY <1>1, <1>3
<1>7. ASSUME NEW k \in 1..Len(buffers'[s]) PROVE buffers'[s][k] = taken[s] + k
  <2>1. Len(buffers[s]) \in Nat /\ taken[s] \in Nat
    BY TypeFacts DEF IInv
  <2>2. CASE k \in 1..Len(buffers[s])
    <3>1. buffers'[s][k] = buffers[s][k]
      BY <1>1, <1>3, <2>2
    <3> QED
      BY <2>2, <3>1, LiveNumbers
  <2>3. CASE k = Len(buffers[s]) + 1
    <3>1. buffers'[s][k] = i
      BY <1>1, <1>3, <2>3
    <3> QED
      BY <2>1, <2>3, <3>1
  <2> QED
    BY <1>6, <2>1, <2>2, <2>3
<1> QED
  BY <1>4, <1>5, <1>6, <1>7

\* A record is accepted: it is pushed, or taken in hand with an empty buffer.
LEMMA ReceiveStep ==
  ASSUME IInv, NEW s \in Side, Hold(s) \/ Queue(s) \/ Feed(s)
  PROVE  IInv'
<1>1. /\ Enter(s) /\ ~delay_done /\ Receive(s) /\ pc[s] = "ready"
      /\ UNCHANGED <<desc, input, delay_done, Downstream, eof>>
  BY DEF Hold, Queue, Feed, Receive, Enter
<1>2. /\ Live /\ pc[Other(s)] \notin InConsume /\ ~eof[s]
      /\ Len(buffers[s]) + taken[s] = got[s]
  BY <1>1, EnterFacts
<1>3. /\ got \in [Side -> Nat] /\ got[s] \in Nat /\ Len(buffers[s]) \in Nat /\ taken[s] \in Nat
      /\ Len(input[s]) \in Nat
  BY TypeFacts DEF IInv, TypeOK
<1>4. /\ got' \in [Side -> Nat] /\ got'[s] = got[s] + 1 /\ got'[Other(s)] = got[Other(s)]
      /\ got'[s] <= Len(input[s])
  BY <1>1, <1>3, Sides DEF Receive
<1>5. eof' \in [Side -> BOOLEAN] /\ eof'[Other(s)] = eof[Other(s)]
  BY <1>1 DEF IInv, TypeOK
<1>6. ~eof'[s] /\ taken' = taken /\ pc \in [Side -> {"ready", "gone"} \cup InConsume]
  BY <1>1, <1>2 DEF Downstream, IInv, TypeOK
<1>7. CASE Hold(s) \/ Queue(s)
  <2>1. PICK l \in {"ready", "drain"} : pc' = [pc EXCEPT ![s] = l]
    <3>1. pc = [pc EXCEPT ![s] = "ready"]
      BY <1>1, <1>6
    <3>2. pc' = [pc EXCEPT ![s] = "ready"] \/ pc' = [pc EXCEPT ![s] = "drain"]
      BY <1>7, <3>1 DEF Hold, Queue, goto
    <3> QED
      BY <3>2
  <2>2. push(s, got[s] + 1)
    BY <1>7 DEF Hold, Queue
  <2>3. /\ buffers' \in [Side -> Seq(Nat)] /\ buffers'[Other(s)] = buffers[Other(s)]
        /\ Len(buffers'[s]) = Len(buffers[s]) + 1
        /\ \A k \in 1..Len(buffers'[s]) : buffers'[s][k] = taken[s] + k
    <3>1. got[s] + 1 \in Nat /\ got[s] + 1 = taken[s] + Len(buffers[s]) + 1
      BY <1>2, <1>3
    <3> QED
      BY <1>2, <2>2, <3>1, PushFacts
  <2>4. pc'[s] \in {"ready", "drain"}
    BY <1>6, <2>1
  <2>5. InHand(s)' = 0
    BY <2>4 DEF InHand
  <2>6. Len(buffers'[s]) + InHand(s)' + taken'[s] = got'[s]
    BY <1>2, <1>3, <1>4, <1>6, <2>3, <2>5
  <2>7. LiveSide(s)'
    BY <1>6, <2>3, <2>4, <2>6 DEF LiveSide
  <2>8. l \in {"ready", "gone"} \cup InConsume /\ l # "gone"
    BY DEF InConsume
  <2> QED
    BY <1>1, <1>2, <1>4, <1>5, <2>1, <2>3, <2>7, <2>8, LiveStep
<1>8. CASE Feed(s)
  <2>1. pc' = [pc EXCEPT ![s] = "feed"] /\ buffers' = buffers /\ buffers[s] = <<>>
    BY <1>8 DEF Feed, goto
  <2>2. pc'[s] = "feed"
    BY <1>6, <2>1
  <2>3. Len(buffers'[s]) = 0 /\ InHand(s)' = 1 /\ Len(buffers[s]) = 0
    BY <2>1, <2>2 DEF InHand
  <2>4. Len(buffers'[s]) + InHand(s)' + taken'[s] = got'[s]
    BY <1>2, <1>3, <1>4, <1>6, <2>3
  <2>5. \A k \in 1..Len(buffers'[s]) : buffers'[s][k] = taken'[s] + k
    BY <2>3
  <2>6. LiveSide(s)'
    BY <1>6, <2>1, <2>2, <2>4, <2>5 DEF LiveSide
  <2>7. "feed" \in {"ready", "gone"} \cup InConsume
    BY DEF InConsume
  <2>8. buffers' \in [Side -> Seq(Nat)] /\ buffers'[Other(s)] = buffers[Other(s)]
    BY <2>1 DEF IInv, TypeOK
  <2> QED
    BY <1>1, <1>2, <1>4, <1>5, <2>1, <2>6, <2>7, <2>8, LiveStep
<1> QED
  BY <1>7, <1>8

\* The end of a side.
LEMMA EofStep ==
  ASSUME IInv, NEW s \in Side, Eof(s)
  PROVE  IInv'
<1>1. /\ Enter(s) /\ ~delay_done /\ got[s] = Len(input[s]) /\ pc' = [pc EXCEPT ![s] = "eofdrain"]
      /\ eof' = [eof EXCEPT ![s] = TRUE]
      /\ UNCHANGED <<desc, input, got, buffers, delay_done, Downstream>>
  BY DEF Eof, goto
<1>2. /\ Live /\ pc[Other(s)] \notin InConsume
      /\ Len(buffers[s]) + taken[s] = got[s]
  BY <1>1, EnterFacts
<1>3. /\ got \in [Side -> Nat] /\ buffers \in [Side -> Seq(Nat)] /\ eof \in [Side -> BOOLEAN]
      /\ pc \in [Side -> {"ready", "gone"} \cup InConsume] /\ got[s] <= Len(input[s])
  BY DEF IInv, TypeOK
<1>4. pc'[s] = "eofdrain" /\ eof'[s] = TRUE /\ taken' = taken
  BY <1>1, <1>3 DEF Downstream
<1>5. InHand(s)' = 0 /\ Len(buffers[s]) \in Nat
  BY <1>4, TypeFacts DEF InHand, IInv
<1>6. /\ Len(buffers'[s]) + InHand(s)' + taken'[s] = got'[s]
      /\ \A k \in 1..Len(buffers'[s]) : buffers'[s][k] = taken'[s] + k
  BY <1>1, <1>2, <1>4, <1>5, LiveNumbers
<1>7. LiveSide(s)'
  BY <1>1, <1>4, <1>6 DEF LiveSide
<1>8. eof' \in [Side -> BOOLEAN] /\ eof'[Other(s)] = eof[Other(s)]
  BY <1>1, <1>3, Sides
<1>9. "eofdrain" \in {"ready", "gone"} \cup InConsume
  BY DEF InConsume
<1> QED
  BY <1>1, <1>2, <1>3, <1>7, <1>8, <1>9, LiveStep

\* Continue of a drain for a record.
LEMMA DrainDoneStep ==
  ASSUME IInv, NEW s \in Side, DrainDone(s)
  PROVE  IInv'
<1>1. /\ pc[s] = "drain" /\ pc[s] \in InConsume /\ pc' = [pc EXCEPT ![s] = "ready"]
      /\ UNCHANGED <<desc, input, got, buffers, eof, delay_done, Downstream>>
  BY DEF DrainDone, goto, InConsume
<1>2. Live /\ pc[Other(s)] \in {"ready", "gone"} /\ LiveSide(s)
  BY <1>1, InsideFacts DEF Live
<1>3. /\ got \in [Side -> Nat] /\ buffers \in [Side -> Seq(Nat)] /\ eof \in [Side -> BOOLEAN]
      /\ pc \in [Side -> {"ready", "gone"} \cup InConsume] /\ got[s] <= Len(input[s])
  BY DEF IInv, TypeOK
<1>4. pc'[s] = "ready" /\ taken' = taken /\ ~eof'[s]
  BY <1>1, <1>2, <1>3 DEF Downstream, LiveSide
<1>5. InHand(s) = 0 /\ InHand(s)' = 0
  BY <1>1, <1>4 DEF InHand
<1>6. LiveSide(s)'
  BY <1>1, <1>2, <1>4, <1>5 DEF LiveSide
<1>7. pc[Other(s)] \notin InConsume
  BY <1>2 DEF InConsume
<1> QED
  BY <1>1, <1>2, <1>3, <1>6, <1>7, LiveStep

\* The record in hand is held back.
LEMMA FeedHoldStep ==
  ASSUME IInv, NEW s \in Side, FeedHold(s)
  PROVE  IInv'
<1>1. /\ pc[s] = "feed" /\ pc[s] \in InConsume /\ pc' = [pc EXCEPT ![s] = "ready"] /\ push(s, got[s])
      /\ UNCHANGED <<desc, input, got, eof, delay_done, Downstream>>
  BY DEF FeedHold, Feeding, goto, InConsume
<1>2. Live /\ pc[Other(s)] \in {"ready", "gone"} /\ LiveSide(s)
  BY <1>1, InsideFacts DEF Live
<1>3. /\ got \in [Side -> Nat] /\ eof \in [Side -> BOOLEAN]
      /\ pc \in [Side -> {"ready", "gone"} \cup InConsume] /\ got[s] <= Len(input[s])
  BY DEF IInv, TypeOK
<1>4. pc'[s] = "ready" /\ taken' = taken /\ ~eof'[s]
  BY <1>1, <1>2, <1>3 DEF Downstream, LiveSide
<1>5. InHand(s) = 1 /\ InHand(s)' = 0
  BY <1>1, <1>4 DEF InHand
<1>6. got[s] \in Nat /\ taken[s] \in Nat /\ Len(buffers[s]) \in Nat
  BY TypeFacts DEF IInv
<1>7. got[s] = taken[s] + Len(buffers[s]) + 1
  BY <1>2, <1>5, <1>6 DEF LiveSide
<1>8. /\ buffers' \in [Side -> Seq(Nat)] /\ buffers'[Other(s)] = buffers[Other(s)]
      /\ Len(buffers'[s]) = Len(buffers[s]) + 1
      /\ \A k \in 1..Len(buffers'[s]) : buffers'[s][k] = taken[s] + k
  BY <1>1, <1>2, <1>6, <1>7, PushFacts
<1>9. Len(buffers'[s]) + InHand(s)' + taken'[s] = got'[s]
  <2>1. got' = got
    BY <1>1
  <2>2. (Len(buffers[s]) + 1) + 0 + taken[s] = got[s]
    BY <1>6, <1>7
  <2> QED
    BY <1>4, <1>5, <1>8, <2>1, <2>2
<1>10. LiveSide(s)'
  BY <1>4, <1>8, <1>9 DEF LiveSide
<1>11. pc[Other(s)] \notin InConsume
  BY <1>2 DEF InConsume
<1> QED
  BY <1>1, <1>2, <1>3, <1>8, <1>10, <1>11, LiveStep

\* When drain() stops after both ends, everything was emitted.
LEMMA DrainedFacts ==
  ASSUME IInv, NEW s \in Side, EofDone(s)
  PROVE  /\ Live /\ pc[Other(s)] \in {"ready", "gone"} /\ eof[s]
         /\ eof[Left] /\ eof[Right] => \A t \in Side : taken[t] = Len(input[t])
<1>1. pc[s] = "eofdrain" /\ pc[s] \in InConsume /\ \A side \in Side : ~Pops(side)
  BY DEF EofDone, InConsume
<1>2. Live /\ pc[Other(s)] \in {"ready", "gone"}
  BY <1>1, InsideFacts
<1>3. eof[s]
  BY <1>1, <1>2 DEF Live, LiveSide
<1>4. ASSUME eof[Left], eof[Right], NEW t \in Side PROVE taken[t] = Len(input[t])
  <2>1. ~(buffers[Left] # <<>> /\ buffers[Right] # <<>>)
    BY <1>1, Sides DEF Pops
  <2>2. eof[t] /\ eof[Other(t)]
    BY <1>4, Sides DEF Side
  <2>3. buffers[t] = <<>>
    BY <1>1, <2>1, <2>2 DEF Pops
  <2> QED
    BY <1>2, <2>2, <2>3, Exhausted
<1> QED
  BY <1>2, <1>3, <1>4

\* Continue of a drain for nullptr.
LEMMA EofDoneStep ==
  ASSUME IInv, NEW s \in Side, EofDone(s)
  PROVE  IInv'
<1>1. /\ pc[s] = "eofdrain" /\ pc' = [pc EXCEPT ![s] = "gone"] /\ UNCHANGED <<desc, input, got>>
  BY DEF EofDone, goto
<1>2. Live /\ pc[Other(s)] \in {"ready", "gone"} /\ eof[s] /\ LiveSide(s) /\ LiveSide(Other(s))
  BY DrainedFacts, Sides DEF Live
<1>3. /\ got \in [Side -> Nat] /\ buffers \in [Side -> Seq(Nat)] /\ eof \in [Side -> BOOLEAN]
      /\ pc \in [Side -> {"ready", "gone"} \cup InConsume] /\ got[s] <= Len(input[s])
  BY DEF IInv, TypeOK
<1>4. pc'[s] = "gone" /\ pc'[Other(s)] = pc[Other(s)] /\ pc' \in [Side -> {"ready", "gone"} \cup InConsume]
  BY <1>1, <1>3, Sides
<1>5. CASE eof[Left] /\ eof[Right]
  <2>1. emitLast /\ reset
    BY <1>5 DEF EofDone
  <2>2. pc[Other(s)] = "gone"
    BY <1>2, <1>5, Sides DEF LiveSide, Side
  <2>3. \A t \in Side : pc'[t] = "gone"
    BY <1>4, <2>2, Sides
  <2>4. Over'
    BY <2>1, <2>3 DEF Over, reset, emitLast, active
  <2>5. TypeOKDownstream(Side)' /\ UNCHANGED <<out, taken>>
    BY <2>1 DEF emitLast, IInv, TypeOK, TypeOKDownstream
  <2>6. desc' \in BOOLEAN /\ input' \in Inputs /\ got' \in [Side -> Nat] /\ \A t \in Side : got'[t] <= Len(input'[t])
    BY <1>1 DEF IInv, TypeOK
  <2>7. TypeOK'
    BY <1>4, <2>1, <2>5, <2>6, ResetTypes DEF TypeOK
  <2> QED
    BY <1>1, <2>4, <2>5, <2>7, QuietStep
<1>6. CASE ~(eof[Left] /\ eof[Right])
  <2>1. UNCHANGED <<buffers, eof, delay_done, Downstream>>
    BY <1>6 DEF EofDone
  <2>2. ~eof[Other(s)]
    BY <1>2, <1>6, Sides DEF Side
  <2>3. pc[Other(s)] = "ready" /\ pc[Other(s)] \notin InConsume
    BY <1>2, <2>2 DEF LiveSide, InConsume
  <2>4. InHand(s) = 0 /\ InHand(s)' = 0 /\ taken' = taken /\ eof'[s]
    BY <1>1, <1>2, <1>4, <2>1 DEF InHand, Downstream
  <2>5. LiveSide(s)'
    BY <1>1, <1>2, <1>4, <2>1, <2>4 DEF LiveSide
  <2> QED
    BY <1>1, <1>2, <1>3, <2>1, <2>3, <2>5, LiveStep
<1> QED
  BY <1>5, <1>6

\* A late call after the last subscriber has left.
LEMMA DiscardStep ==
  ASSUME IInv, NEW s \in Side, Discard(s)
  PROVE  IInv'
<1>1. /\ pc[s] = "ready" /\ delay_done /\ reset /\ pc' = [pc EXCEPT ![s] = "gone"]
      /\ UNCHANGED <<desc, input, got, Downstream>>
  BY DEF Discard, Enter, goto
<1>2. Stopped
  BY <1>1 DEF IInv, Live, Over
<1>3. pc[Other(s)] = "gone" /\ ~active
  BY <1>1, <1>2, Sides DEF Stopped
<1>4. pc \in [Side -> {"ready", "gone"} \cup InConsume]
  BY DEF IInv, TypeOK
<1>5. pc' \in [Side -> {"ready", "gone"} \cup InConsume] /\ \A t \in Side : pc'[t] = "gone"
  BY <1>1, <1>3, <1>4, Sides
<1>6. Over'
  BY <1>1, <1>3, <1>5 DEF Over, reset, active, Downstream
<1>7. TypeOKDownstream(Side)' /\ UNCHANGED <<out, taken>>
  BY <1>1 DEF Downstream, IInv, TypeOK, TypeOKDownstream
<1>8. desc' \in BOOLEAN /\ input' \in Inputs /\ got' \in [Side -> Nat] /\ \A t \in Side : got'[t] <= Len(input'[t])
  BY <1>1 DEF IInv, TypeOK
<1>9. TypeOK'
  BY <1>1, <1>5, <1>7, <1>8, ResetTypes DEF TypeOK
<1> QED
  BY <1>1, <1>6, <1>7, <1>9, QuietStep
----------------------------------------------------------------------------
\* The inductive invariant holds.
THEOREM Inductive == Spec => []IInv
<1>1. Init => IInv
  <2> SUFFICES ASSUME Init PROVE IInv
    OBVIOUS
  <2>1. /\ got = [s \in Side |-> 0] /\ pc = [s \in Side |-> "ready"] /\ buffers = [s \in Side |-> <<>>]
        /\ eof = [s \in Side |-> FALSE] /\ delay_done = FALSE /\ desc \in BOOLEAN /\ input \in Inputs
        /\ subscribers = Subscribers /\ finished = {} /\ out = <<>> /\ taken = [s \in Side |-> 0]
    BY DEF Init, InitDownstream
  <2>2. /\ got \in [Side -> Nat] /\ pc \in [Side -> {"ready", "gone"} \cup InConsume]
        /\ buffers \in [Side -> Seq(Nat)]
    BY <2>1
  <2>3. eof \in [Side -> BOOLEAN]
    BY <2>1
  <2>4. delay_done \in BOOLEAN
    BY <2>1
  <2>5. TypeOKDownstream(Side)
    BY <2>1 DEF TypeOKDownstream
  <2>6. \A s \in Side : Len(input[s]) \in Nat /\ got[s] <= Len(input[s])
    BY <2>1, MergeAssumption
  <2>7. \A s \in Side : buffers[s] = <<>> /\ Len(buffers[s]) = 0 /\ DOMAIN buffers[s] = 1..0
    BY <2>1
  <2>8. TypeOK
    BY <2>1, <2>2, <2>3, <2>4, <2>5, <2>6, <2>7 DEF TypeOK
  <2>9. ASSUME NEW s \in Side PROVE LiveSide(s)
    <3>1. pc[s] = "ready" /\ ~eof[s] /\ got[s] = 0 /\ taken[s] = 0
      BY <2>1
    <3>2. InHand(s) = 0
      BY <3>1 DEF InHand
    <3> QED
      BY <2>7, <3>1, <3>2 DEF LiveSide
  <2>10. Live
    BY <2>1, <2>9, SubscribersAssumption, Sides DEF Live, active, InConsume
  <2>11. OutValid /\ MergeOrder /\ Ahead
    BY <2>1 DEF OutValid, MergeOrder, Ahead
  <2> QED
    BY <2>8, <2>10, <2>11 DEF Init, IInv
<1>2. IInv /\ [Next]_vars => IInv'
  <2> SUFFICES ASSUME IInv, [Next]_vars PROVE IInv'
    OBVIOUS
  <2>1. ASSUME NEW s \in Side, Step(s) PROVE IInv'
    <3>1. CASE Hold(s) \/ Queue(s) \/ Feed(s)
      BY <3>1, ReceiveStep
    <3>2. CASE \E side \in Side : DrainOne(s, side)
      BY <3>2, DrainStep
    <3>3. CASE Discard(s)
      BY <3>3, DiscardStep
    <3>4. CASE Eof(s)
      BY <3>4, EofStep
    <3>5. CASE DrainDone(s)
      BY <3>5, DrainDoneStep
    <3>6. CASE EofDone(s)
      BY <3>6, EofDoneStep
    <3>7. CASE FeedRecord(s)
      BY <3>7, FeedRecordStep
    <3>8. CASE FeedOther(s)
      BY <3>8, FeedOtherStep
    <3>9. CASE FeedHold(s)
      BY <3>9, FeedHoldStep
    <3> QED
      BY <2>1, <3>1, <3>2, <3>3, <3>4, <3>5, <3>6, <3>7, <3>8, <3>9 DEF Step
  <2>2. CASE UNCHANGED vars
    <3>1. UNCHANGED <<desc, input, got, pc, buffers, eof, delay_done, subscribers, finished, out, taken>>
      BY <2>2 DEF vars, Downstream
    <3>2. TypeOK'
      BY <3>1 DEF IInv, TypeOK, TypeOKDownstream
    <3>3. Live' \/ Stopped' \/ Over'
      BY <3>1 DEF IInv, Live, LiveSide, InHand, Stopped, Over, active
    <3> QED
      BY <3>1, <3>2, <3>3, QuietStep
  <2> QED
    BY <2>1, <2>2 DEF Next
<1> QED
  BY <1>1, <1>2, PTL DEF Spec

\* The output is sorted in any execution: a record that drain() emits goes
\* before the next record of the other input, the held back ones included.
THEOREM OutputSorted == Spec => []MergeOrder
<1>1. IInv => MergeOrder
  BY DEF IInv
<1> QED
  BY <1>1, Inductive, PTL

\* No verify_dbg of consume, drain() or drain(side, record) fires.
THEOREM NoAssertionFails == Spec => []VerifyDbg
<1>1. ASSUME IInv PROVE VerifyDbg
  <2> SUFFICES ASSUME NEW s \in Side
               PROVE  /\ pc[s] = "ready" /\ delay_done => eof[Other(s)]
                      /\ pc[s] = "ready" /\ ~delay_done => ~eof[s]
                      /\ Draining(s) => ~delay_done
                      /\ Feeding(s) => buffers[s] = <<>> /\ ~delay_done
    BY DEF VerifyDbg
  <2>1. CASE Live
    <3>1. ~delay_done /\ LiveSide(s)
      BY <2>1 DEF Live
    <3> QED
      BY <3>1 DEF LiveSide, Feeding
  <2>2. CASE Stopped
    <3>1. PICK t \in Side : pc[t] = "gone" /\ eof[t] /\ pc[Other(t)] = "ready"
      BY <2>2 DEF Stopped
    <3>2. pc[s] \in {"gone", "ready"} /\ (pc[s] = "ready" => t = Other(s))
      BY <3>1, Sides
    <3> QED
      BY <2>2, <3>1, <3>2 DEF Stopped, Draining, Feeding
  <2>3. CASE Over
    BY <2>3 DEF Over, Draining, Feeding
  <2> QED
    BY <1>1, <2>1, <2>2, <2>3 DEF IInv
<1> QED
  BY <1>1, Inductive, PTL

\* Whichever way the operator ends, it ends reset.
THEOREM EndsReset == Spec => []NothingRetained
<1>1. ASSUME IInv PROVE NothingRetained
  <2> SUFFICES ASSUME Terminated
               PROVE  /\ \A s \in Side : buffers[s] = <<>> /\ ~eof[s]
                      /\ ~delay_done
                      /\ subscribers = {}
    BY DEF NothingRetained
  <2>1. Over
    BY <1>1, Sides DEF IInv, Live, Stopped, Terminated
  <2> QED
    BY <2>1 DEF Over, active
<1> QED
  BY <1>1, Inductive, PTL

\* Once the last subscriber has left, no record is accepted and nothing is
\* emitted: a side that is still upstream can only take the delay_done_ exit.
THEOREM StopsPromptly == Spec => PromptStop
<1>1. ASSUME IInv, [Next]_vars, subscribers = {} PROVE UNCHANGED <<got, out, finished>>
  <2>1. ~Live
    BY <1>1 DEF Live, active
  <2>2. ASSUME NEW s \in Side, Step(s) PROVE UNCHANGED <<got, out, finished>>
    <3>1. pc[s] \notin InConsume
      BY <1>1, <2>1, InsideFacts
    <3>2. ~(Enter(s) /\ ~delay_done)
      BY <1>1, <2>1, EnterFacts
    <3>3. Discard(s)
      BY <2>2, <3>1, <3>2
         DEF Step, Hold, Queue, Feed, Eof, DrainOne, Draining, DrainDone, EofDone,
             FeedRecord, FeedOther, FeedHold, Feeding, InConsume
    <3> QED
      BY <3>3 DEF Discard, Downstream
  <2>3. CASE UNCHANGED vars
    BY <2>3 DEF vars, Downstream
  <2> QED
    BY <1>1, <2>2, <2>3 DEF Next
<1> QED
  BY <1>1, Inductive, PTL DEF Spec, PromptStop
----------------------------------------------------------------------------
\* The keys of the abstract merge: the records keep their number and order.
LEMMA RankFacts ==
  ASSUME IInv, NEW s \in Side
  PROVE  /\ Len(Rank(desc, input)[s]) = Len(input[s])
         /\ \A i \in 1..Len(input[s]) :
              Rank(desc, input)[s][i] = IF desc THEN -key(s, i) ELSE key(s, i)
<1> DEFINE f == [i \in 1..Len(input[s]) |-> IF desc THEN -input[s][i] ELSE input[s][i]]
<1>1. Rank(desc, input)[s] = f
  BY DEF Rank
<1>2. input[s] \in Seq(Int) /\ Len(input[s]) \in Nat
  BY TypeFacts DEF IInv
<1>3. f \in Seq(Int) /\ Len(f) = Len(input[s])
  BY <1>2
<1> QED
  BY <1>1, <1>3 DEF key

\* A record that may go next is one the abstract merge may emit.
LEMMA EmitImplements ==
  ASSUME IInv, NEW p \in Side, MayEmit(p), emit(p, taken[p] + 1), UNCHANGED <<desc, input>>
  PROVE  Merge!Emit(p)
<1>1. /\ out' = Append(out, <<p, taken[p] + 1>>) /\ taken' = [taken EXCEPT ![p] = @ + 1]
      /\ subscribers' \in SUBSET subscribers /\ finished' = finished /\ subscribers # {}
  BY DEF emit, MayEmit, active
<1>2. \A q \in Side : Merge!Remaining(q) <=> taken[q] < Len(input[q])
  BY RankFacts DEF Merge!Remaining
<1>3. ASSUME NEW q \in Side, taken[q] < Len(input[q])
      PROVE  Ascending(Merge!Head1(p), Merge!Head1(q))
  <2>1. taken[p] + 1 \in 1..Len(input[p]) /\ taken[q] + 1 \in 1..Len(input[q])
    <3>1. \A t \in Side : taken[t] \in Nat /\ Len(input[t]) \in Nat
      BY TypeFacts DEF IInv
    <3> QED
      BY <1>3, <3>1 DEF MayEmit
  <2>2. /\ Merge!Head1(p) = IF desc THEN -key(p, taken[p] + 1) ELSE key(p, taken[p] + 1)
        /\ Merge!Head1(q) = IF desc THEN -key(q, taken[q] + 1) ELSE key(q, taken[q] + 1)
    BY <2>1, RankFacts DEF Merge!Head1
  <2>3. key(p, taken[p] + 1) \in Int /\ key(q, taken[q] + 1) \in Int
    BY <2>1, TypeFacts DEF IInv
  <2>4. Before(key(p, taken[p] + 1), key(q, taken[q] + 1))
    BY <1>3 DEF MayEmit
  <2> QED
    BY <2>2, <2>3, <2>4 DEF Before, Ascending
<1>4. UNCHANGED Rank(desc, input)
  BY DEF Rank
<1> QED
  BY <1>1, <1>2, <1>3, <1>4 DEF Merge!Emit, MayEmit

\* Every step is a step of the abstract merge or leaves its state alone.
LEMMA MergeStep ==
  ASSUME IInv, [Next]_vars
  PROVE  [Merge!Next]_Merge!vars
<1>1. ASSUME NEW s \in Side, NEW p \in Side, DrainOne(s, p) PROVE Merge!Emit(p)
  <2>1. UNCHANGED <<desc, input>>
    BY <1>1 DEF DrainOne
  <2> QED
    BY <1>1, <2>1, DrainStep, EmitImplements
<1>2. ASSUME NEW s \in Side, FeedRecord(s) PROVE Merge!Emit(s)
  <2>1. UNCHANGED <<desc, input>>
    BY <1>2 DEF FeedRecord
  <2> QED
    BY <1>2, <2>1, FeedRecordStep, EmitImplements
<1>3. ASSUME NEW s \in Side, FeedOther(s) PROVE Merge!Emit(Other(s)) /\ Other(s) \in Side
  <2>1. UNCHANGED <<desc, input>> /\ Other(s) \in Side
    BY <1>3, Sides DEF FeedOther
  <2> QED
    BY <1>3, <2>1, FeedOtherStep, EmitImplements
<1>4. ASSUME NEW s \in Side, EofDone(s), eof[Left] /\ eof[Right] PROVE Merge!Finish
  <2>1. Live /\ \A t \in Side : taken[t] = Len(input[t]) /\ Len(input[t]) \in Nat
    BY <1>4, DrainedFacts, TypeFacts DEF IInv
  <2>2. \A t \in Side : ~Merge!Remaining(t)
    BY <2>1, RankFacts DEF Merge!Remaining
  <2>3. emitLast /\ UNCHANGED <<desc, input>> /\ finished = {} /\ subscribers # {}
    BY <1>4, <2>1 DEF EofDone, Live, active
  <2>4. UNCHANGED Rank(desc, input)
    BY <2>3 DEF Rank
  <2> QED
    BY <2>2, <2>3, <2>4 DEF emitLast, Merge!Finish
<1>5. ASSUME UNCHANGED <<desc, input, Downstream>> PROVE UNCHANGED Merge!vars
  BY <1>5 DEF Rank, Downstream, Merge!vars
<1>6. ASSUME NEW s \in Side, EofDone(s), ~(eof[Left] /\ eof[Right]) PROVE UNCHANGED Merge!vars
  BY <1>5, <1>6 DEF EofDone
<1>7. ASSUME NEW s \in Side,
             Discard(s) \/ Hold(s) \/ Queue(s) \/ Feed(s) \/ Eof(s) \/ DrainDone(s) \/ FeedHold(s)
      PROVE  UNCHANGED Merge!vars
  <2>1. UNCHANGED <<desc, input, Downstream>>
    BY <1>7 DEF Discard, Hold, Queue, Feed, Eof, DrainDone, FeedHold, Receive
  <2> QED
    BY <1>5, <2>1
<1>8. CASE UNCHANGED vars
  BY <1>5, <1>8 DEF vars
<1> QED
  BY <1>1, <1>2, <1>3, <1>4, <1>6, <1>7, <1>8 DEF Next, Step, Merge!Next

\* MergeSorted implements the abstract merge in sort order: whatever the two
\* upstream threads do, no record is lost, repeated or out of order, and the
\* end of stream comes once and last.
THEOREM Refinement == Spec => Implements
<1>1. Init => Merge!Init
  <2> SUFFICES ASSUME Init PROVE Merge!Init
    OBVIOUS
  <2>1. Rank(desc, input) \in {Rank(d, in) : d \in BOOLEAN, in \in Inputs}
    <3>1. desc \in BOOLEAN /\ input \in Inputs
      BY DEF Init
    <3> QED
      BY <3>1, SMT
  <2> QED
    BY <2>1 DEF Init, InitDownstream, Merge!Init
<1>2. IInv /\ [Next]_vars => [Merge!Next]_Merge!vars
  BY MergeStep
<1> QED
  BY <1>1, <1>2, Inductive, PTL DEF Spec, Implements, Merge!Spec
=============================================================================
