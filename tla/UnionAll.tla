------------------------------ MODULE UnionAll ------------------------------
(***************************************************************************)
(* UnionAll, the physical operator of UNION ALL.  Any number of upstream   *)
(* threads push their streams into it; consume runs under the operator's   *)
(* mutex (LockMixin).  A call that emits is two steps here: it enters and  *)
(* tests stream_finished_, then it emits, with the mutex held in between.  *)
(***************************************************************************)
EXTENDS OperationBase, Naturals, FiniteSets

CONSTANTS Sources,      \* the inputs, one element of subs_ each
          Streams       \* the families of input lengths considered

ASSUME UnionAssumption ==
  /\ IsFiniteSet(Sources)
  /\ Sources # {}
  /\ Streams \subseteq [Sources -> Nat]

VARIABLES length,       \* how many records each input will push
          got,          \* how many of them consume accepted
          pc,           \* where the upstream thread of an input is
          stream_finished,
          eof_count

vars == <<length, got, pc, stream_finished, eof_count, Downstream>>

\* "ready": subscribed and outside consume; "gone": consume returned false.
Init ==
  /\ length \in Streams
  /\ got = [s \in Sources |-> 0]
  /\ pc = [s \in Sources |-> "ready"]
  /\ stream_finished = FALSE
  /\ eof_count = 0
  /\ InitDownstream(Sources)

----------------------------------------------------------------------------
\* Mutated forms of definitions below; none is part of the specification.
Drop_KeepsUpstream(s) ==
  pc[s] = "ready" /\ stream_finished /\ UNCHANGED vars
Forward_NotFinished(s) ==
  /\ pc[s] = "emitting"
  /\ emit(s, got[s])
  /\ pc' = [pc EXCEPT ![s] = IF active' THEN "ready" ELSE "gone"]
  /\ UNCHANGED <<length, got, stream_finished, eof_count>>
LastEof_First == eof_count = 0
----------------------------------------------------------------------------
\* The mutex the LockMixin of every subscriber takes.
mutexFree == \A t \in Sources : pc[t] \in {"ready", "gone"}

goto(s, l) == pc' = [pc EXCEPT ![s] = l]

Enter(s) == pc[s] = "ready" /\ mutexFree

\* The output is complete: whatever the call brings is dropped.
Drop(s) ==
  /\ Enter(s)
  /\ stream_finished
  /\ goto(s, "gone")
  /\ UNCHANGED <<length, got, stream_finished, eof_count, Downstream>>

Record(s) ==
  /\ Enter(s)
  /\ ~stream_finished
  /\ got[s] < length[s]
  /\ got' = [got EXCEPT ![s] = @ + 1]
  /\ goto(s, "emitting")
  /\ UNCHANGED <<length, stream_finished, eof_count, Downstream>>

Forward(s) ==
  /\ pc[s] = "emitting"
  /\ emit(s, got[s])
  /\ stream_finished' = ~active'
  /\ goto(s, IF active' THEN "ready" ELSE "gone")
  /\ UNCHANGED <<length, got, eof_count>>

LastEof == eof_count + 1 = Cardinality(Sources)

\* record == nullptr: the last input to end closes the output.
End(s) ==
  /\ Enter(s)
  /\ ~stream_finished
  /\ got[s] = length[s]
  /\ eof_count' = eof_count + 1
  /\ stream_finished' = LastEof
  /\ goto(s, IF LastEof THEN "closing" ELSE "gone")
  /\ UNCHANGED <<length, got, Downstream>>

Close(s) ==
  /\ pc[s] = "closing"
  /\ emitLast
  /\ goto(s, "gone")
  /\ UNCHANGED <<length, got, stream_finished, eof_count>>

Step(s) == Drop(s) \/ Record(s) \/ Forward(s) \/ End(s) \/ Close(s)

Terminated == \A s \in Sources : pc[s] = "gone"

Next == (\E s \in Sources : Step(s)) \/ (Terminated /\ UNCHANGED vars)

\* An upstream thread that is inside push() keeps running.
Fairness == \A s \in Sources : WF_vars(Step(s))

Spec == Init /\ [][Next]_vars /\ Fairness
----------------------------------------------------------------------------
TypeOK ==
  /\ length \in Streams
  /\ got \in [Sources -> Nat] /\ \A s \in Sources : got[s] <= length[s]
  /\ pc \in [Sources -> {"ready", "emitting", "closing", "gone"}]
  /\ stream_finished \in BOOLEAN
  /\ eof_count \in 0..Cardinality(Sources)
  /\ TypeOKDownstream(Sources)

\* When the last subscriber has left, no input gets another record into the
\* operator and nothing more is emitted (stream_finished_).
PromptStop ==
  [][~active => UNCHANGED <<out, finished>> /\ stream_finished]_vars

\* Every upstream thread gets its final false.
Completes == <>Terminated

\* UnionAll implements the abstract merge with no order between the inputs:
\* the output is an interleaving of the inputs that drops, repeats and
\* reorders nothing of any of them, and the final nullptr is sent once, after
\* the last record of the last input.
Streamed == {[s \in Sources |-> [i \in 1..len[s] |-> i]] : len \in Streams}
AnyOrder(a, b) == TRUE
Merge == INSTANCE StreamMerge
  WITH Inputs <- Streamed,
       input <- [s \in Sources |-> [i \in 1..length[s] |-> i]],
       Before <- AnyOrder
Implements == Merge!Spec
=============================================================================
