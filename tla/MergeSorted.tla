---------------------------- MODULE MergeSorted ----------------------------
(***************************************************************************)
(* MergeSorted, the physical operator of UNION ALL SORTED BY.  Two sorted  *)
(* streams are pushed into it by upstream threads.  Each call of consume   *)
(* runs under the operator's mutex (LockMixin); a call that drains is a    *)
(* sequence of steps here, one per emitted record, with the mutex held.    *)
(*                                                                         *)
(* A record is <<side, i>>: the i-th record of that side's input, whose    *)
(* sort key is input[side][i].                                             *)
(***************************************************************************)
EXTENDS OperationBase, Integers

CONSTANTS Inputs        \* the pairs of inputs considered

Left  == 0
Right == 1
Side  == {Left, Right}
Other(s) == 1 - s

ASSUME MergeAssumption == Inputs \subseteq [Side -> Seq(Int)]

VARIABLES desc,         \* desc_: SORTED BY ... DESC
          input,        \* the keys each side will push
          got,          \* how many records of a side consume accepted
          pc,           \* where the upstream thread of a side is
          buffers,      \* buffers_: the positions of the records held back
          eof,          \* eof_
          delay_done    \* delay_done_

vars == <<desc, input, got, pc, buffers, eof, delay_done, Downstream>>

\* "ready": subscribed and outside consume; "gone": consume returned false.
InConsume == {"drain", "eofdrain", "feed"}

\* The order the inputs are sorted in, and the output has to be.
Before(a, b) == IF desc THEN a >= b ELSE a <= b

Sorted(keys) == \A i, j \in 1..Len(keys) : i <= j => Before(keys[i], keys[j])

Init ==
  /\ desc \in BOOLEAN
  /\ input \in Inputs /\ \A s \in Side : Sorted(input[s])
  /\ got = [s \in Side |-> 0]
  /\ pc = [s \in Side |-> "ready"]
  /\ buffers = [s \in Side |-> <<>>]
  /\ eof = [s \in Side |-> FALSE]
  /\ delay_done = FALSE
  /\ InitDownstream(Side)

----------------------------------------------------------------------------
\* Mutated forms of definitions below; none is part of the specification.
less_IgnoresDesc(a, b) == a < b
reset_KeepsBuffers ==
  /\ UNCHANGED buffers
  /\ eof' = [s \in Side |-> FALSE]
  /\ delay_done' = FALSE
terminate_WrongSide(s, left) ==
  /\ buffers' = left
  /\ eof' = [eof EXCEPT ![Other(s)] = TRUE]
  /\ delay_done' = TRUE
terminate_NoDelay(s, left) ==
  IF eof[Other(s)]
  THEN /\ buffers' = [t \in Side |-> <<>>]
       /\ eof' = [t \in Side |-> FALSE]
       /\ UNCHANGED delay_done
  ELSE /\ buffers' = left
       /\ eof' = [eof EXCEPT ![s] = TRUE]
       /\ UNCHANGED delay_done
Discard_KeepsUpstream(s) == pc[s] = "ready" /\ delay_done /\ UNCHANGED vars
EofDone_FirstEof(s) ==
  /\ pc[s] = "eofdrain"
  /\ buffers[Left] = <<>> /\ buffers[Right] = <<>>
  /\ emitLast
  /\ eof' = [t \in Side |-> FALSE]
  /\ pc' = [pc EXCEPT ![s] = "gone"]
  /\ UNCHANGED <<desc, input, got, buffers, delay_done>>
----------------------------------------------------------------------------
\* less of two sort keys: desc_ ^ (a < b).
less(a, b) == IF desc THEN ~(a < b) ELSE a < b

\* The mutex the LockMixin of both subscribers takes.
mutexFree(s) == pc[Other(s)] \notin InConsume

key(s, i) == input[s][i]

Front(s) == key(s, Head(buffers[s]))

shouldWait(s) == ~eof[s] /\ buffers[s] = <<>>

push(s, i) == buffers' = [buffers EXCEPT ![s] = Append(@, i)]

\* The buffers once the front record of side s is moved out.
pop(s) == [buffers EXCEPT ![s] = Tail(@)]

reset ==
  /\ buffers' = [s \in Side |-> <<>>]
  /\ eof' = [s \in Side |-> FALSE]
  /\ delay_done' = FALSE

\* terminate(stopped_side), with the buffers the drain loop left behind.
terminate(s, left) ==
  IF eof[Other(s)]
  THEN reset
  ELSE /\ buffers' = left
       /\ eof' = [eof EXCEPT ![s] = TRUE]
       /\ delay_done' = TRUE

goto(s, l) == pc' = [pc EXCEPT ![s] = l]

----------------------------------------------------------------------------
(***************************************************************************)
(* consume<Index>, entered with a record or with nullptr.                  *)
(***************************************************************************)
Enter(s) == pc[s] = "ready" /\ mutexFree(s)

Receive(s) ==
  /\ got[s] < Len(input[s])
  /\ got' = [got EXCEPT ![s] = @ + 1]
  /\ UNCHANGED <<desc, input>>

\* The output is complete: drop the call, reset, and leave.
Discard(s) ==
  /\ Enter(s)
  /\ delay_done
  /\ reset
  /\ goto(s, "gone")
  /\ UNCHANGED <<desc, input, got, Downstream>>

\* Nothing of the other side to compare with: hold the record back.
Hold(s) ==
  /\ Enter(s)
  /\ Receive(s)
  /\ ~delay_done
  /\ shouldWait(Other(s))
  /\ push(s, got[s] + 1)
  /\ UNCHANGED <<pc, eof, delay_done, Downstream>>

\* This side is held back already: queue the record and drain the buffers.
Queue(s) ==
  /\ Enter(s)
  /\ Receive(s)
  /\ ~delay_done
  /\ ~shouldWait(Other(s))
  /\ buffers[s] # <<>>
  /\ push(s, got[s] + 1)
  /\ goto(s, "drain")
  /\ UNCHANGED <<eof, delay_done, Downstream>>

\* The record is compared with the other side's buffer without being queued.
Feed(s) ==
  /\ Enter(s)
  /\ Receive(s)
  /\ ~delay_done
  /\ ~shouldWait(Other(s))
  /\ buffers[s] = <<>>
  /\ goto(s, "feed")
  /\ UNCHANGED <<buffers, eof, delay_done, Downstream>>

\* record == nullptr: the side is at its end; drain what that releases.
Eof(s) ==
  /\ Enter(s)
  /\ got[s] = Len(input[s])
  /\ ~delay_done
  /\ eof' = [eof EXCEPT ![s] = TRUE]
  /\ goto(s, "eofdrain")
  /\ UNCHANGED <<desc, input, got, buffers, delay_done, Downstream>>
----------------------------------------------------------------------------
(***************************************************************************)
(* drain(), one step per record.                                           *)
(***************************************************************************)
Draining(s) == pc[s] \in {"drain", "eofdrain"}

\* The side whose front record is popped next, when drain() pops one.
Pops(side) ==
  IF buffers[Left] # <<>> /\ buffers[Right] # <<>>
  THEN side = IF less(Front(Left), Front(Right)) THEN Left ELSE Right
  ELSE buffers[side] # <<>> /\ eof[Other(side)]

\* A record was emitted and left the buffers as given.  Either somebody still
\* listens and the call goes on at l, or drain returns StopRequested.
AfterEmit(s, l, left) ==
  \/ /\ active'
     /\ buffers' = left
     /\ goto(s, l)
     /\ UNCHANGED <<eof, delay_done>>
  \/ /\ ~active'
     /\ terminate(s, left)
     /\ goto(s, "gone")

DrainOne(s, side) ==
  /\ Draining(s)
  /\ Pops(side)
  /\ emit(side, Head(buffers[side]))
  /\ AfterEmit(s, pc[s], pop(side))
  /\ UNCHANGED <<desc, input, got>>

\* Continue of a drain for a record: consume returns true.
DrainDone(s) ==
  /\ pc[s] = "drain"
  /\ \A side \in Side : ~Pops(side)
  /\ goto(s, "ready")
  /\ UNCHANGED <<desc, input, got, buffers, eof, delay_done, Downstream>>

\* Continue of a drain for nullptr: the last side to end closes the output.
EofDone(s) ==
  /\ pc[s] = "eofdrain"
  /\ \A side \in Side : ~Pops(side)
  /\ IF eof[Left] /\ eof[Right]
     THEN emitLast /\ reset
     ELSE UNCHANGED <<buffers, eof, delay_done, Downstream>>
  /\ goto(s, "gone")
  /\ UNCHANGED <<desc, input, got>>
----------------------------------------------------------------------------
(***************************************************************************)
(* drain(curr_side, record).                                               *)
(***************************************************************************)
Feeding(s) == pc[s] = "feed"

\* The record goes before everything held back: emit it and return.
FeedRecord(s) ==
  /\ Feeding(s)
  /\ buffers[Other(s)] # <<>>
  /\ less(key(s, got[s]), Front(Other(s)))
  /\ emit(s, got[s])
  /\ AfterEmit(s, "ready", buffers)
  /\ UNCHANGED <<desc, input, got>>

\* A record held back goes first: emit it and compare again.
FeedOther(s) ==
  /\ Feeding(s)
  /\ buffers[Other(s)] # <<>>
  /\ ~less(key(s, got[s]), Front(Other(s)))
  /\ emit(Other(s), Head(buffers[Other(s)]))
  /\ AfterEmit(s, "feed", pop(Other(s)))
  /\ UNCHANGED <<desc, input, got>>

\* Nothing left to compare with: hold the record back.
FeedHold(s) ==
  /\ Feeding(s)
  /\ buffers[Other(s)] = <<>>
  /\ push(s, got[s])
  /\ goto(s, "ready")
  /\ UNCHANGED <<desc, input, got, eof, delay_done, Downstream>>
----------------------------------------------------------------------------
Step(s) ==
  \/ Discard(s) \/ Hold(s) \/ Queue(s) \/ Feed(s) \/ Eof(s)
  \/ \E side \in Side : DrainOne(s, side)
  \/ DrainDone(s) \/ EofDone(s)
  \/ FeedRecord(s) \/ FeedOther(s) \/ FeedHold(s)

Terminated == \A s \in Side : pc[s] = "gone"

Next == (\E s \in Side : Step(s)) \/ (Terminated /\ UNCHANGED vars)

\* An upstream thread that is inside push() keeps running.
Fairness == \A s \in Side : WF_vars(Step(s))

Spec == Init /\ [][Next]_vars /\ Fairness
----------------------------------------------------------------------------
TypeOK ==
  /\ desc \in BOOLEAN
  /\ input \in Inputs
  /\ got \in [Side -> Nat] /\ \A s \in Side : got[s] <= Len(input[s])
  /\ pc \in [Side -> {"ready", "gone"} \cup InConsume]
  /\ buffers \in [Side -> Seq(Nat)]
  /\ \A s \in Side : \A k \in DOMAIN buffers[s] : buffers[s][k] \in 1..got[s]
  /\ eof \in [Side -> BOOLEAN]
  /\ delay_done \in BOOLEAN
  /\ TypeOKDownstream(Side)

OutKey(n) == key(out[n][1], out[n][2])

\* UNION ALL SORTED BY hands its subscribers the records of both sides in one
\* sorted stream, whatever the interleaving of the two upstream threads.
MergeOrder == \A m, n \in 1..Len(out) : m <= n => Before(OutKey(m), OutKey(n))

\* The verify_dbg assertions of consume, drain() and drain(side, record) hold:
\* a side is never called again after its end, a late call after a stop meets
\* a stopped other side, and a record bypasses only an empty buffer.
VerifyDbg ==
  \A s \in Side :
    /\ pc[s] = "ready" /\ delay_done => eof[Other(s)]
    /\ pc[s] = "ready" /\ ~delay_done => ~eof[s]
    /\ Draining(s) => ~delay_done
    /\ Feeding(s) => buffers[s] = <<>> /\ ~delay_done

\* Once both upstreams were told to stop, nothing is retained: every path of
\* consume and terminate that ends the operator ends in reset().
NothingRetained ==
  Terminated => /\ \A s \in Side : buffers[s] = <<>> /\ ~eof[s]
                /\ ~delay_done
                /\ subscribers = {}

\* When the last subscriber has left, neither upstream gets another record
\* into the operator and nothing more is emitted (delay_done_).
PromptStop == [][subscribers = {} => UNCHANGED <<got, out, finished>>]_vars

\* Both upstream threads get their final false: nobody waits for a side that
\* is waiting for the other, and no record is held back for ever.
Completes == <>Terminated

\* MergeSorted implements the abstract merge: the output is an interleaving of
\* both inputs in sort order that drops, repeats and reorders nothing, and the
\* final nullptr is sent once, after the last record of both sides.
Rank(d, in) == [s \in Side |-> [i \in 1..Len(in[s]) |-> IF d THEN -in[s][i] ELSE in[s][i]]]
Ascending(a, b) == a <= b
Merge == INSTANCE StreamMerge
  WITH Sources <- Side,
       Inputs <- {Rank(d, in) : d \in BOOLEAN, in \in Inputs},
       input <- Rank(desc, input),
       Before <- Ascending
Implements == Merge!Spec
=============================================================================
