--------------------------- MODULE UnionAllProofs ---------------------------
(***************************************************************************)
(* For any number of inputs of any lengths and any subscribers: UnionAll   *)
(* implements the abstract merge with no order between its inputs, and     *)
(* stops promptly.                                                         *)
(*                                                                         *)
(* The invariant relates stream_finished_ to the subscribers, which it     *)
(* stands for under the mutex, and eof_count_ to the inputs that ended:    *)
(* until the stream is finished the upstream threads that are gone are     *)
(* those whose input ended, so that the last one to end finds all records  *)
(* of all inputs emitted.                                                  *)
(***************************************************************************)
EXTENDS UnionAll, FiniteSetTheorems, TLAPS

Gone == {s \in Sources : pc[s] = "gone"}

\* LockMixin: one upstream thread at a time is inside consume.
Exclusive ==
  \A s, t \in Sources :
    pc[s] \in {"emitting", "closing"} /\ pc[t] \in {"emitting", "closing"} => s = t

\* What consume accepted is emitted, but for the record being emitted now.
Emitted ==
  \A s \in Sources : IF pc[s] = "emitting" THEN taken[s] + 1 = got[s] ELSE taken[s] = got[s]

\* stream_finished_ against the subscribers.
Listening ==
  /\ ~stream_finished => active
  /\ \A s \in Sources : pc[s] = "emitting" => ~stream_finished
  /\ \A s \in Sources : pc[s] = "closing" => stream_finished /\ active
  /\ stream_finished /\ active => \E s \in Sources : pc[s] = "closing"
  /\ active => finished = {}

\* eof_count_ against the inputs that ended.
Ends ==
  /\ ~stream_finished => /\ eof_count = Cardinality(Gone)
                         /\ \A s \in Gone : got[s] = length[s]
  /\ \A s \in Sources : pc[s] = "closing" => \A t \in Sources : got[t] = length[t]

IInv == TypeOK /\ Exclusive /\ Emitted /\ Listening /\ Ends
----------------------------------------------------------------------------
\* The inputs that ended can be counted.
LEMMA GoneFacts ==
  /\ IsFiniteSet(Gone) /\ Cardinality(Gone) \in Nat /\ Cardinality(Sources) \in Nat
  /\ Gone \subseteq Sources /\ Cardinality(Gone) <= Cardinality(Sources)
  /\ Cardinality(Gone) = Cardinality(Sources) => Gone = Sources
<1>1. Gone \in SUBSET Sources
  BY DEF Gone
<1> QED
  BY <1>1, UnionAssumption, FS_Subset, FS_CardinalityType

\* The types of the counters of one input.
LEMMA InputFacts ==
  ASSUME TypeOK, NEW s \in Sources
  PROVE  /\ got[s] \in Nat /\ length[s] \in Nat /\ taken[s] \in Nat
         /\ got[s] <= length[s] /\ eof_count \in Nat
<1>1. length \in [Sources -> Nat]
  BY UnionAssumption DEF TypeOK
<1>2. eof_count \in 0..Cardinality(Sources)
  BY DEF TypeOK
<1> QED
  BY <1>1, <1>2, GoneFacts DEF TypeOK, TypeOKDownstream

\* A call that finds the stream finished sends its upstream away.
LEMMA DropStep ==
  ASSUME IInv, NEW s \in Sources, Drop(s)
  PROVE  IInv'
<1> USE DEF IInv, Drop, Enter, mutexFree, goto, Downstream
<1>1. TypeOK'
  BY DEF TypeOK, TypeOKDownstream
<1>2. Exclusive' /\ Emitted' /\ Listening'
  BY DEF TypeOK, Exclusive, Emitted, Listening, active
<1>3. Ends'
  BY DEF TypeOK, Ends
<1> QED
  BY <1>1, <1>2, <1>3

\* A record is accepted.
LEMMA RecordStep ==
  ASSUME IInv, NEW s \in Sources, Record(s)
  PROVE  IInv'
<1> USE DEF IInv, Record, Enter, mutexFree, goto, Downstream
<1>1. got[s] \in Nat /\ length[s] \in Nat /\ got[s] + 1 \in Nat /\ got[s] + 1 <= length[s]
  BY InputFacts
<1>2. TypeOK'
  BY <1>1 DEF TypeOK, TypeOKDownstream
<1>3. Gone' = Gone
  BY DEF TypeOK, Gone
<1>4. Exclusive' /\ Listening'
  BY DEF TypeOK, Exclusive, Listening, active
<1>5. Emitted'
  BY InputFacts DEF TypeOK, Emitted
<1>6. Ends'
  <2>1. ~stream_finished /\ ~stream_finished'
    OBVIOUS
  <2>2. \A t \in Gone : got'[t] = length'[t]
    BY DEF TypeOK, Ends, Gone
  <2>3. \A t \in Sources : pc'[t] # "closing"
    BY DEF TypeOK
  <2> QED
    BY <1>3, <2>1, <2>2, <2>3 DEF Ends
<1> QED
  BY <1>2, <1>4, <1>5, <1>6

\* The record accepted last is emitted.
LEMMA ForwardStep ==
  ASSUME IInv, NEW s \in Sources, Forward(s)
  PROVE  IInv'
<1> USE DEF IInv, Forward, goto, emit
<1>1. active /\ ~stream_finished /\ got[s] \in Nat \ {0} /\ taken[s] \in Nat /\ taken[s] + 1 = got[s]
  BY InputFacts DEF Listening, Emitted
<1>2. /\ out' = Append(out, <<s, got[s]>>) /\ taken' = [taken EXCEPT ![s] = got[s]]
      /\ subscribers' \in SUBSET subscribers /\ finished' = finished
      /\ UNCHANGED <<length, got, eof_count>>
  BY <1>1
<1>3. TypeOK'
  <2>1. <<s, got[s]>> \in Sources \X (Nat \ {0})
    BY <1>1
  <2>2. pc' \in [Sources -> {"ready", "emitting", "closing", "gone"}] /\ stream_finished' \in BOOLEAN
    BY DEF TypeOK
  <2>3. out' \in Seq(Sources \X (Nat \ {0})) /\ taken' \in [Sources -> Nat]
    BY <1>1, <1>2, <2>1 DEF TypeOK, TypeOKDownstream
  <2> QED
    BY <1>2, <2>2, <2>3 DEF TypeOK, TypeOKDownstream
<1>4. /\ pc'[s] \in {"ready", "gone"}
      /\ \A t \in Sources : t # s => pc'[t] = pc[t] /\ pc[t] \notin {"emitting", "closing"}
      /\ active' => pc'[s] = "ready"
  BY DEF TypeOK, Exclusive
<1>5. Exclusive'
  BY <1>4 DEF Exclusive
<1>6. Emitted'
  BY <1>1, <1>2, <1>4 DEF TypeOK, TypeOKDownstream, Emitted
<1>7. Listening'
  BY <1>2, <1>4 DEF Listening, active
<1>8. Ends'
  <2>1. active' => Gone' = Gone
    BY <1>4 DEF Gone
  <2>2. \A t \in Sources : pc'[t] # "closing"
    BY <1>4
  <2> QED
    BY <1>1, <1>2, <2>1, <2>2 DEF Ends
<1> QED
  BY <1>3, <1>5, <1>6, <1>7, <1>8

\* An input ends; the last one finds that all others have.
LEMMA EndStep ==
  ASSUME IInv, NEW s \in Sources, End(s)
  PROVE  IInv'
<1> USE DEF IInv, End, Enter, mutexFree, goto, Downstream
<1>1. /\ ~stream_finished /\ active /\ eof_count = Cardinality(Gone) /\ s \notin Gone
      /\ \A t \in Gone : got[t] = length[t]
  BY DEF Listening, Ends, Gone
<1>2. Cardinality(Gone \cup {s}) = eof_count + 1 /\ Gone \cup {s} \subseteq Sources
  BY <1>1, GoneFacts, FS_AddElement
<1>3. /\ eof_count + 1 \in 0..Cardinality(Sources)
      /\ LastEof => Gone \cup {s} = Sources
  <2>1. Gone \cup {s} \in SUBSET Sources
    BY <1>2
  <2>2. /\ Cardinality(Gone \cup {s}) <= Cardinality(Sources)
        /\ Cardinality(Sources) = Cardinality(Gone \cup {s}) => Sources = Gone \cup {s}
    BY <2>1, UnionAssumption, FS_Subset
  <2> QED
    BY <1>1, <1>2, <2>2, GoneFacts DEF LastEof
<1>4. /\ \A t \in Sources : t # s => pc'[t] = pc[t]
      /\ pc'[s] = IF LastEof THEN "closing" ELSE "gone"
      /\ pc' \in [Sources -> {"ready", "emitting", "closing", "gone"}]
  BY DEF TypeOK
<1>5. TypeOK'
  <2>1. stream_finished' \in BOOLEAN
    BY DEF LastEof
  <2> QED
    BY <1>3, <1>4, <2>1 DEF TypeOK, TypeOKDownstream
<1>6. Exclusive' /\ Emitted'
  BY <1>4 DEF Exclusive, Emitted
<1>7. Listening'
  BY <1>1, <1>4 DEF Listening, active
<1>8. Ends'
  <2>1. ~LastEof => Gone' = Gone \cup {s}
    BY <1>4 DEF Gone
  <2>2. \A t \in Sources : pc'[t] = "closing" => LastEof
    BY <1>4
  <2>3. \A t \in Gone \cup {s} : got'[t] = length'[t]
    BY <1>1
  <2> QED
    BY <1>2, <1>3, <2>1, <2>2, <2>3 DEF Ends
<1> QED
  BY <1>5, <1>6, <1>7, <1>8

\* The end of stream is announced.
LEMMA CloseStep ==
  ASSUME IInv, NEW s \in Sources, Close(s)
  PROVE  IInv'
<1> USE DEF IInv, Close, goto, emitLast
<1>1. stream_finished /\ stream_finished'
  BY DEF Listening
<1>2. TypeOK'
  BY DEF TypeOK, TypeOKDownstream
<1>3. /\ pc'[s] = "gone"
      /\ \A t \in Sources : t # s => pc'[t] = pc[t] /\ pc[t] \notin {"emitting", "closing"}
  BY DEF TypeOK, Exclusive
<1>4. Exclusive' /\ Emitted'
  BY <1>3 DEF Exclusive, Emitted
<1>5. Listening'
  BY <1>1, <1>3 DEF Listening, active
<1>6. Ends'
  BY <1>1, <1>3 DEF Ends
<1> QED
  BY <1>2, <1>4, <1>5, <1>6

\* Under the mutex stream_finished_ stands for the absence of subscribers, and
\* eof_count_ for the inputs that ended.
THEOREM Inductive == Spec => []IInv
<1>1. Init => IInv
  <2> SUFFICES ASSUME Init PROVE IInv
    OBVIOUS
  <2> USE UnionAssumption, SubscribersAssumption DEF Init, InitDownstream
  <2>1. Gone = {} /\ Cardinality(Gone) = 0
    BY FS_EmptySet DEF Gone
  <2>2. TypeOK
    <3>1. 0 \in 0..Cardinality(Sources) /\ length \in [Sources -> Nat]
      BY GoneFacts
    <3>2. /\ got \in [Sources -> Nat] /\ \A s \in Sources : got[s] <= length[s]
          /\ pc \in [Sources -> {"ready", "emitting", "closing", "gone"}]
          /\ length \in Streams /\ eof_count \in 0..Cardinality(Sources)
      BY <3>1
    <3>3. stream_finished \in BOOLEAN
      OBVIOUS
    <3>4. TypeOKDownstream(Sources)
      BY DEF TypeOKDownstream
    <3> HIDE DEF Init
    <3> QED
      BY <3>2, <3>3, <3>4 DEF TypeOK
  <2>3. Exclusive /\ Emitted /\ Listening
    BY DEF Exclusive, Emitted, Listening, active
  <2>4. Ends
    BY <2>1 DEF Ends
  <2> QED
    BY <2>2, <2>3, <2>4 DEF IInv
<1>2. IInv /\ [Next]_vars => IInv'
  <2> SUFFICES ASSUME IInv, [Next]_vars PROVE IInv'
    OBVIOUS
  <2>1. ASSUME NEW s \in Sources, Step(s) PROVE IInv'
    BY <2>1, DropStep, RecordStep, ForwardStep, EndStep, CloseStep DEF Step
  <2>2. CASE UNCHANGED vars
    BY <2>2 DEF vars, Downstream, IInv, TypeOK, TypeOKDownstream, Exclusive, Emitted, Listening,
                active, Ends, Gone
  <2> QED
    BY <2>1, <2>2 DEF Next
<1> QED
  BY <1>1, <1>2, PTL DEF Spec

\* Once the last subscriber has left nothing is emitted any more.
THEOREM StopsPromptly == Spec => PromptStop
<1>1. IInv /\ [Next]_vars => [~active => UNCHANGED <<out, finished>> /\ stream_finished]_vars
  <2> SUFFICES ASSUME IInv, ~active, NEW s \in Sources, Step(s)
               PROVE  UNCHANGED <<out, finished>> /\ stream_finished
    BY DEF Next
  <2>1. stream_finished /\ pc[s] # "emitting" /\ pc[s] # "closing"
    BY DEF IInv, Listening
  <2> QED
    BY <2>1 DEF Step, Drop, Record, Forward, End, Close, Downstream
<1> QED
  BY <1>1, Inductive, PTL DEF Spec, PromptStop
----------------------------------------------------------------------------
\* An input, as the abstract merge sees it, is as long as it is.
LEMMA StreamLength ==
  ASSUME NEW n \in Nat
  PROVE  Len([i \in 1..n |-> i]) = n
<1>1. [i \in 1..n |-> i] \in Seq(Nat)
  OBVIOUS
<1> QED
  BY <1>1

\* The refinement mapping takes emit to Emit, the last emit to Finish and all
\* other steps to stuttering.
LEMMA MergeStep ==
  ASSUME IInv, [Next]_vars
  PROVE  [Merge!Next]_Merge!vars
<1> DEFINE inputs(len) == [s \in Sources |-> [i \in 1..len[s] |-> i]]
<1>1. ASSUME NEW s \in Sources PROVE Len(inputs(length)[s]) = length[s]
  BY InputFacts, StreamLength DEF IInv
<1>2. ASSUME NEW s \in Sources, Forward(s) PROVE Merge!Emit(s)
  <2>1. /\ active /\ taken[s] + 1 = got[s] /\ got[s] <= length[s]
        /\ taken[s] \in Nat /\ length[s] \in Nat
    BY <1>2, InputFacts DEF IInv, Listening, Emitted, Forward
  <2>2. taken[s] < Len(inputs(length)[s])
    BY <1>1, <2>1
  <2>3. /\ out' = Append(out, <<s, taken[s] + 1>>)
        /\ taken' = [taken EXCEPT ![s] = @ + 1]
        /\ subscribers' \in SUBSET subscribers
        /\ UNCHANGED <<length, finished>>
    BY <1>2, <2>1 DEF Forward, emit
  <2> QED
    BY <2>1, <2>2, <2>3 DEF Merge!Emit, Merge!Remaining, AnyOrder, active
<1>3. ASSUME NEW s \in Sources, Close(s) PROVE Merge!Finish
  <2>1. \A t \in Sources : taken[t] = length[t]
    BY <1>3 DEF IInv, Ends, Emitted, Close, Exclusive
  <2>2. active /\ finished = {}
    BY <1>3 DEF IInv, Listening, Close
  <2>3. \A t \in Sources : ~(taken[t] < Len(inputs(length)[t]))
    BY <1>1, <2>1, InputFacts DEF IInv
  <2> QED
    BY <1>3, <2>2, <2>3 DEF Merge!Finish, Merge!Remaining, active, Close, emitLast
<1>4. ASSUME NEW s \in Sources, Drop(s) \/ Record(s) \/ End(s) PROVE UNCHANGED Merge!vars
  BY <1>4 DEF Drop, Record, End, Downstream, Merge!vars
<1>5. CASE UNCHANGED vars
  BY <1>5 DEF vars, Downstream, Merge!vars
<1> QED
  BY <1>2, <1>3, <1>4, <1>5 DEF Next, Step, Merge!Next

\* UnionAll implements the abstract merge: no record of any input is lost,
\* repeated or reordered, whatever the threads do, and the end of stream comes
\* once and last.
THEOREM Refinement == Spec => Implements
<1>1. Init => Merge!Init
  BY DEF Init, InitDownstream, Merge!Init, Streamed
<1>2. IInv /\ [Next]_vars => [Merge!Next]_Merge!vars
  BY MergeStep
<1> QED
  BY <1>1, <1>2, Inductive, PTL DEF Spec, Implements, Merge!Spec
=============================================================================
