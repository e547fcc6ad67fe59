---------------------------- MODULE RunnerProofs ----------------------------
(***************************************************************************)
(* For any number of workers and any program, phases without a source      *)
(* included: a phase starts after the phases before it, every source is    *)
(* pushed once, no worker touches a latch that is gone, and a worker that  *)
(* got past cv_.wait finds a task or a stopped pool.                       *)
(*                                                                         *)
(* None of these is inductive.  What carries them is where every source of *)
(* the current phase is: not enqueued yet, in the queue (which is the      *)
(* consecutive run of sources up to the last one enqueued), held by one    *)
(* worker, or counted down.  The latch is the number of those that are not *)
(* counted down, so that it opens when no task is left anywhere.           *)
(***************************************************************************)
EXTENDS Runner, FiniteSetTheorems, TLAPS

Done == ToSet(executed)

\* run() is between the construction of a phase's latch and its destruction.
InPhase == mpc \in {"enqueue", "notify"}

Busy == {w \in Workers : wpc[w] \in {"run", "count_down"}}

\* The sources of the phase that workers have taken.
Popped == IF InPhase THEN next - 1 - Len(queue) ELSE 0

\* Where the main thread is, and what that says of the pool.
MainAt ==
  /\ stopped <=> mpc \in {"stop", "join", "joined"}
  /\ stopped => phase = Len(program) + 1
  /\ InPhase => phase <= Len(program) /\ next <= program[phase] + 1
  /\ ~InPhase => queue = <<>> /\ Busy = {} /\ latch = 0

\* The queue holds the sources enqueued last, in order.
QueueRun ==
  /\ Popped \in Nat
  /\ \A k \in 1..Len(queue) : queue[k] = <<phase, Popped + k>>

\* What the workers hold: different sources of this phase, executed or not
\* according to where the worker is.
Held ==
  /\ \A w \in Busy :
       /\ \E j \in 1..Popped : task[w] = <<phase, j>>
       /\ task[w] \in Done <=> wpc[w] = "count_down"
  /\ \A v, w \in Busy : task[v] = task[w] => v = w

\* What is executed: all of the earlier phases, and of this one what was
\* taken and is not being run; nothing twice.
ExecutedSoFar ==
  /\ IsInjective(executed)
  /\ \A p \in 1..(phase - 1) : Tasks(p) \subseteq Done
  /\ \A j \in 1..Popped :
       \/ <<phase, j>> \in Done
       \/ \E w \in Workers : wpc[w] = "run" /\ task[w] = <<phase, j>>
  /\ \A t \in Done : t[1] < phase \/ (t[1] = phase /\ t[2] <= Popped)

\* The latch counts the sources that are still to be counted down.
LatchCount ==
  InPhase => latch = (program[phase] + 1 - next) + Len(queue) + Cardinality(Busy)

\* m_ is held by the worker that evaluates the predicate of cv_.wait, and by
\* it until it has its task or blocks.
Mutex ==
  \A w \in Workers : wpc[w] \in {"test", "block", "proceed"} <=> mutex = w

IInv ==
  /\ TypeOK /\ MainAt /\ QueueRun /\ Held /\ ExecutedSoFar /\ LatchCount
  /\ Mutex /\ VerifyPop
----------------------------------------------------------------------------
\* Phases have as many sources as the program says; tasks are pairs.
LEMMA TaskFacts ==
  ASSUME TypeOK
  PROVE  /\ Len(program) \in Nat
         /\ \A p \in 1..Len(program) : program[p] \in Nat
         /\ \A p \in 1..Len(program) : \A j \in 1..program[p] : <<p, j>> \in AllTasks
         /\ \A t \in AllTasks :
              /\ t[1] \in 1..Len(program) /\ t[2] \in 1..program[t[1]]
              /\ t = <<t[1], t[2]>>
<1>1. program \in Seq(Nat)
  BY RunnerAssumption DEF TypeOK
<1>2. \A p \in 1..Len(program) : \A j \in 1..program[p] : <<p, j>> \in Tasks(p)
  BY <1>1 DEF Tasks
<1>3. \A p \in 1..Len(program) : Tasks(p) \subseteq AllTasks
  BY DEF AllTasks
<1>4. ASSUME NEW t \in AllTasks
      PROVE  /\ t[1] \in 1..Len(program) /\ t[2] \in 1..program[t[1]]
             /\ t = <<t[1], t[2]>>
  <2>1. PICK p \in 1..Len(program) : t \in Tasks(p)
    BY DEF AllTasks
  <2> QED
    BY <2>1 DEF Tasks
<1> QED
  BY <1>1, <1>2, <1>3, <1>4

\* The busy workers can be counted, and the count is positive when there are any.
LEMMA BusyFacts ==
  /\ IsFiniteSet(Busy) /\ Cardinality(Busy) \in Nat
  /\ Cardinality(Busy) = 0 <=> Busy = {}
<1>1. Busy \in SUBSET Workers
  BY DEF Busy
<1>2. IsFiniteSet(Busy)
  BY <1>1, RunnerAssumption, FS_Subset
<1> QED
  BY <1>2, FS_CardinalityType, FS_EmptySet

\* A sequence that grows: its elements, and that they are different.
LEMMA AppendFacts ==
  ASSUME NEW S, NEW s \in Seq(S), NEW x \in S
  PROVE  /\ ToSet(Append(s, x)) = ToSet(s) \cup {x}
         /\ IsInjective(s) /\ x \notin ToSet(s) => IsInjective(Append(s, x))
<1>1. /\ DOMAIN Append(s, x) = DOMAIN s \cup {Len(s) + 1}
      /\ \A k \in DOMAIN s : Append(s, x)[k] = s[k]
      /\ Append(s, x)[Len(s) + 1] = x
      /\ Len(s) + 1 \notin DOMAIN s
  OBVIOUS
<1> HIDE <1>1
<1>2. ToSet(Append(s, x)) = ToSet(s) \cup {x}
  BY <1>1 DEF ToSet
<1>3. IsInjective(s) /\ x \notin ToSet(s) => IsInjective(Append(s, x))
  BY <1>1 DEF ToSet, IsInjective
<1> QED
  BY <1>2, <1>3

\* The counters of a state.
LEMMA Numbers ==
  ASSUME TypeOK
  PROVE  /\ Len(program) \in Nat /\ phase \in Nat
         /\ 1 <= phase /\ phase <= Len(program) + 1
         /\ \A p \in 1..Len(program) : program[p] \in Nat
         /\ next \in Nat \ {0} /\ latch \in Nat
         /\ Len(queue) \in Nat /\ (Len(queue) = 0 <=> queue = <<>>)
         /\ Cardinality(Busy) \in Nat
<1>1. Len(program) \in Nat /\ \A p \in 1..Len(program) : program[p] \in Nat
  BY TaskFacts
<1>2. /\ phase \in 1..Len(program) + 1 /\ next \in Nat \ {0} /\ latch \in Nat
      /\ queue \in Seq(AllTasks)
  BY DEF TypeOK
<1> QED
  BY <1>1, <1>2, BusyFacts

Tracked == QueueRun /\ Held /\ ExecutedSoFar /\ LatchCount

\* A step that moves workers between places where they hold no task leaves
\* the tasks where they are.
LEMMA Frame ==
  ASSUME IInv, UNCHANGED <<program, phase, next, latch, queue, task, executed>>,
         InPhase' = InPhase,
         \A w \in Workers : /\ wpc'[w] = "run" <=> wpc[w] = "run"
                            /\ wpc'[w] = "count_down" <=> wpc[w] = "count_down"
  PROVE  Busy' = Busy /\ Tracked'
<1>1. Busy' = Busy
  BY DEF Busy
<1>2. Done' = Done /\ Popped' = Popped
  BY DEF Done, Popped, ToSet
<1>3. \A p : Tasks(p)' = Tasks(p)
  BY DEF Tasks
<1>4. QueueRun'
  BY <1>2 DEF IInv, QueueRun
<1>5. Held'
  <2>1. \A w \in Busy : w \in Workers
    BY DEF Busy
  <2> QED
    BY <1>1, <1>2, <2>1 DEF IInv, Held
<1>6. ExecutedSoFar'
  BY <1>2, <1>3 DEF IInv, ExecutedSoFar
<1>7. LatchCount'
  BY <1>1 DEF IInv, LatchCount
<1> QED
  BY <1>1, <1>4, <1>5, <1>6, <1>7 DEF Tracked

\* Waking workers changes nothing but where they block.
LEMMA Wake ==
  ASSUME IInv, NEW W \in SUBSET Waiting, wake(W)
  PROVE  /\ wpc' \in [Workers -> Locations]
         /\ \A w \in Workers : wpc[w] # "blocked" => wpc'[w] = wpc[w]
         /\ \A w \in Workers : wpc[w] = "blocked" => wpc'[w] \in {"blocked", "relock"}
<1> QED
  BY DEF IInv, TypeOK, wake, Waiting, Locations

\* The steps of a worker that holds no task.
LEMMA IdleStep ==
  ASSUME IInv, NEW w \in Workers,
         Lock(w) \/ Test(w) \/ Block(w) \/ SpuriousWakeup(w) \/ Exit(w)
  PROVE  IInv'
<1> USE RunnerAssumption DEF Locations, Free
<1>1. /\ UNCHANGED <<main, queue, stopped, task, executed, aborted>>
      /\ mutex' \in Workers \cup {Free}
  BY DEF Lock, Test, Block, SpuriousWakeup, Exit, IInv, TypeOK
<1>2. /\ wpc' \in [Workers -> Locations]
      /\ \A v \in Workers : v # w => wpc'[v] = wpc[v]
      /\ wpc[w] \notin {"run", "count_down"}
      /\ wpc'[w] \notin {"run", "count_down"}
  BY DEF Lock, Test, Block, SpuriousWakeup, Exit, IInv, TypeOK, goto, wake
<1>3. UNCHANGED <<program, phase, mpc, next, latch>>
  BY <1>1 DEF main
<1>4. Busy' = Busy /\ Tracked'
  BY <1>1, <1>2, <1>3, Frame DEF InPhase
<1>5. TypeOK'
  BY <1>1, <1>2, <1>3 DEF IInv, TypeOK, AllTasks, Tasks
<1>6. MainAt'
  BY <1>1, <1>3, <1>4 DEF IInv, MainAt, InPhase
<1>7. Mutex'
  BY DEF Lock, Test, Block, SpuriousWakeup, Exit, IInv, TypeOK, goto, wake, Mutex
<1>8. VerifyPop'
  BY DEF Lock, Test, Block, SpuriousWakeup, Exit, IInv, TypeOK, goto, wake, VerifyPop
<1> QED
  BY <1>4, <1>5, <1>6, <1>7, <1>8 DEF IInv, Tracked

\* The steps of the main thread that wake workers, or that only move it.
LEMMA NotifyStep ==
  ASSUME IInv, NotifyOne \/ NotifyAll \/ Stop \/ Join
  PROVE  IInv'
<1> USE RunnerAssumption DEF Locations, Free
<1>1. UNCHANGED <<program, phase, next, latch, queue, mutex, task, executed, aborted>>
  BY DEF NotifyOne, NotifyAll, Stop, Join, pool
<1>2. /\ wpc' \in [Workers -> Locations]
      /\ \A v \in Workers : wpc[v] # "blocked" => wpc'[v] = wpc[v]
      /\ \A v \in Workers : wpc[v] = "blocked" => wpc'[v] \in {"blocked", "relock"}
  <2>1. CASE UNCHANGED wpc
    BY <2>1 DEF IInv, TypeOK
  <2>2. CASE \E W \in SUBSET Waiting : wake(W)
    BY <2>2, Wake
  <2>3. CASE NotifyOne
    <3>1. UNCHANGED wpc \/ \E v \in Waiting : wake({v})
      BY <2>3 DEF NotifyOne
    <3> QED
      BY <3>1, <2>1, <2>2
  <2>4. CASE NotifyAll
    BY <2>4, <2>2 DEF NotifyAll
  <2>5. CASE Stop \/ Join
    BY <2>5, <2>1 DEF Stop, Join, pool
  <2> QED
    BY <2>3, <2>4, <2>5
<1>3. InPhase' = InPhase
  BY DEF NotifyOne, NotifyAll, Stop, Join, InPhase
<1>4. Busy' = Busy /\ Tracked'
  BY <1>1, <1>2, <1>3, Frame
<1>5. TypeOK'
  <2>1. mpc' \in {"phase", "enqueue", "notify", "stop", "join", "joined"} /\ stopped' \in BOOLEAN
    BY DEF IInv, TypeOK, NotifyOne, NotifyAll, Stop, Join, pool
  <2> QED
    BY <1>1, <1>2, <2>1 DEF IInv, TypeOK, AllTasks, Tasks
<1>6. MainAt'
  <2>1. (stopped <=> mpc \in {"stop", "join", "joined"})'
    <3>1. CASE Stop
      BY <3>1 DEF Stop
    <3>2. CASE NotifyOne \/ NotifyAll \/ Join
      <4>1. stopped' = stopped
        BY <3>2 DEF NotifyOne, NotifyAll, Join, pool
      <4>2. mpc \in {"stop", "join", "joined"} <=> mpc' \in {"stop", "join", "joined"}
        BY <3>2 DEF NotifyOne, NotifyAll, Join
      <4> QED
        BY <4>1, <4>2 DEF IInv, MainAt
    <3> QED
      BY <3>1, <3>2
  <2>2. stopped' => phase = Len(program) + 1
    <3>1. CASE Stop
      BY <3>1, Numbers DEF Stop, IInv
    <3>2. CASE NotifyOne \/ NotifyAll \/ Join
      BY <3>2 DEF IInv, MainAt, NotifyOne, NotifyAll, Join, pool
    <3> QED
      BY <3>1, <3>2
  <2> QED
    BY <1>1, <1>3, <1>4, <2>1, <2>2 DEF IInv, MainAt
<1>7. Mutex'
  BY <1>1, <1>2 DEF IInv, Mutex
<1>8. VerifyPop'
  <2>1. stopped => stopped'
    BY DEF NotifyOne, NotifyAll, Stop, Join, pool
  <2> QED
    BY <1>1, <1>2, <2>1 DEF IInv, VerifyPop
<1> QED
  BY <1>4, <1>5, <1>6, <1>7, <1>8 DEF IInv, Tracked

\* A phase begins: nothing of it is anywhere yet.
LEMMA BeginStep ==
  ASSUME IInv, BeginPhase
  PROVE  IInv'
<1> USE DEF IInv
<1>1. /\ UNCHANGED <<program, phase, queue, stopped, mutex, wpc, task, executed, aborted>>
      /\ mpc = "phase" /\ mpc' = "enqueue" /\ next' = 1 /\ latch' = program[phase]
      /\ phase \in 1..Len(program)
  BY TaskFacts DEF BeginPhase, pool, TypeOK
<1>2. ~InPhase /\ InPhase' /\ queue = <<>> /\ Busy = {} /\ Busy' = {}
  BY <1>1 DEF InPhase, MainAt, Busy
<1>3. Popped = 0 /\ Popped' = 0 /\ Done' = Done
  <2>1. Len(queue') = 0
    BY <1>1, <1>2, Numbers
  <2>2. Popped' = 0
    <3>1. next' = 1 /\ InPhase'
      BY <1>1, <1>2
    <3> QED
      BY <3>1, <2>1 DEF Popped
  <2>3. Done' = Done
    BY <1>1 DEF Done
  <2> QED
    BY <1>2, <2>2, <2>3 DEF Popped
<1>4. program[phase] \in Nat
  BY <1>1, TaskFacts
<1>5. TypeOK'
  BY <1>1, <1>4 DEF TypeOK, AllTasks, Tasks
<1>6. MainAt'
  <2>1. ~stopped
    BY <1>1 DEF MainAt
  <2> QED
    BY <1>1, <1>2, <1>4, <2>1 DEF MainAt
<1>7. QueueRun' /\ Held'
  BY <1>1, <1>2, <1>3 DEF QueueRun, Held
<1>8. ExecutedSoFar'
  BY <1>1, <1>3 DEF ExecutedSoFar, Tasks
<1>9. LatchCount'
  BY <1>1, <1>2, <1>4, FS_EmptySet DEF LatchCount
<1>10. Mutex' /\ VerifyPop'
  BY <1>1 DEF Mutex, VerifyPop
<1> QED
  BY <1>5, <1>6, <1>7, <1>8, <1>9, <1>10

\* A source joins the end of the queue.
LEMMA EnqueueStep ==
  ASSUME IInv, Enqueue
  PROVE  IInv'
<1> USE DEF IInv
<1>1. /\ UNCHANGED <<program, phase, latch, stopped, mutex, wpc, task, executed, aborted>>
      /\ mpc = "enqueue" /\ mpc' = "notify" /\ next <= program[phase]
      /\ next' = next + 1 /\ queue' = Append(queue, <<phase, next>>)
  BY DEF Enqueue
<1>2. InPhase /\ InPhase' /\ Busy' = Busy /\ Done' = Done
  BY <1>1 DEF InPhase, Busy, Done, ToSet
<1>3. phase \in 1..Len(program) /\ program[phase] \in Nat /\ next \in Nat \ {0}
  BY <1>2, Numbers DEF MainAt
<1>4. <<phase, next>> \in AllTasks
  BY <1>1, <1>3, TaskFacts
<1>5. /\ Len(queue) \in Nat /\ Len(queue') = Len(queue) + 1
      /\ \A k \in 1..Len(queue) : queue'[k] = queue[k]
      /\ queue'[Len(queue) + 1] = <<phase, next>>
      /\ queue' \in Seq(AllTasks)
      /\ queue' # <<>>
  BY <1>1, <1>4 DEF TypeOK
<1>6. Popped' = Popped /\ Popped + Len(queue) + 1 = next
  BY <1>1, <1>2, <1>3, <1>5 DEF Popped
<1>7. TypeOK'
  BY <1>1, <1>3, <1>5 DEF TypeOK, AllTasks, Tasks
<1>8. MainAt'
  <2>1. ~stopped
    BY <1>1 DEF MainAt
  <2> QED
    BY <1>1, <1>2, <1>3, <2>1 DEF MainAt
<1>9. QueueRun'
  <2>1. Popped \in Nat
    BY DEF QueueRun
  <2>2. ASSUME NEW k \in 1..Len(queue') PROVE queue'[k] = <<phase, Popped + k>>
    <3>1. CASE k = Len(queue) + 1
      BY <3>1, <1>5, <1>6, <2>1
    <3>2. CASE k \in 1..Len(queue)
      BY <3>2, <1>5 DEF QueueRun
    <3> QED
      BY <1>5, <3>1, <3>2
  <2> QED
    BY <1>1, <1>6, <2>1, <2>2 DEF QueueRun
<1>10. Held'
  BY <1>1, <1>2, <1>6 DEF Held
<1>11. ExecutedSoFar'
  BY <1>1, <1>2, <1>6 DEF ExecutedSoFar, Tasks
<1>12. LatchCount'
  <2>1. latch = (program[phase] + 1 - next) + Len(queue) + Cardinality(Busy)
    BY <1>2 DEF LatchCount
  <2>2. latch = (program[phase] + 1 - next') + Len(queue') + Cardinality(Busy)
    BY <1>1, <1>3, <1>5, <2>1, BusyFacts
  <2> QED
    BY <1>1, <1>2, <2>2 DEF LatchCount
<1>13. Mutex' /\ VerifyPop'
  BY <1>1, <1>5 DEF Mutex, VerifyPop
<1> QED
  BY <1>7, <1>8, <1>9, <1>10, <1>11, <1>12, <1>13

\* The latch opens: no task of the phase is left anywhere.
LEMMA OpenStep ==
  ASSUME IInv, LatchOpen
  PROVE  IInv'
<1> USE DEF IInv
<1>1. /\ UNCHANGED <<program, next, latch, queue, stopped, mutex, wpc, task, executed, aborted>>
      /\ mpc = "enqueue" /\ mpc' = "phase" /\ next > program[phase] /\ latch = 0
      /\ phase' = phase + 1
  BY DEF LatchOpen, pool
<1>2. InPhase /\ ~InPhase' /\ Busy' = Busy /\ Done' = Done
  BY <1>1 DEF InPhase, Busy, Done, ToSet
<1>3. /\ phase \in 1..Len(program) /\ program[phase] \in Nat /\ next \in Nat \ {0}
      /\ next = program[phase] + 1
  BY <1>1, <1>2, Numbers DEF MainAt
<1>4. Len(queue) = 0 /\ Cardinality(Busy) = 0
  <2>1. 0 = (program[phase] + 1 - next) + Len(queue) + Cardinality(Busy)
    BY <1>1, <1>2 DEF LatchCount
  <2>2. Len(queue) \in Nat /\ Cardinality(Busy) \in Nat
    BY Numbers
  <2>3. program[phase] + 1 - next = 0
    BY <1>3
  <2> QED
    BY <2>1, <2>2, <2>3
<1>5. queue = <<>> /\ Busy = {}
  BY <1>4, Numbers, BusyFacts
<1>6. Popped = program[phase] /\ Popped' = 0
  BY <1>2, <1>3, <1>4 DEF Popped
<1>7. TypeOK'
  BY <1>1, <1>3, TaskFacts DEF TypeOK, AllTasks, Tasks
<1>8. MainAt'
  <2>1. ~stopped
    BY <1>1 DEF MainAt
  <2> QED
    BY <1>1, <1>2, <1>5, <2>1 DEF MainAt
<1>9. QueueRun' /\ Held'
  BY <1>1, <1>2, <1>5, <1>6 DEF QueueRun, Held
<1>10. ExecutedSoFar'
  <2>1. Tasks(phase) \subseteq Done
    <3>1. \A w \in Workers : wpc[w] # "run"
      BY <1>5 DEF Busy
    <3>2. \A j \in 1..program[phase] : <<phase, j>> \in Done
      BY <3>1, <1>6 DEF ExecutedSoFar
    <3> QED
      BY <3>2 DEF Tasks
  <2>2. \A p \in 1..(phase' - 1) : Tasks(p)' \subseteq Done'
    BY <1>1, <1>2, <1>3, <2>1 DEF ExecutedSoFar, Tasks
  <2>3. \A t \in Done' : t[1] < phase'
    <3>1. \A t \in Done : t \in AllTasks
      BY DEF Done, ToSet, TypeOK
    <3> QED
      BY <1>1, <1>2, <1>3, <3>1, TaskFacts DEF ExecutedSoFar
  <2> QED
    BY <1>1, <1>6, <2>2, <2>3 DEF ExecutedSoFar
<1>11. LatchCount'
  BY <1>2 DEF LatchCount
<1>12. Mutex' /\ VerifyPop'
  BY <1>1 DEF Mutex, VerifyPop
<1> QED
  BY <1>7, <1>8, <1>9, <1>10, <1>11, <1>12

\* A worker takes the front of the queue: a source nobody else has.
LEMMA PopStep ==
  ASSUME IInv, NEW w \in Workers, PopReady(w) \/ PopWoken(w)
  PROVE  IInv'
<1> USE DEF IInv
<1>1. /\ UNCHANGED <<program, phase, mpc, next, latch, stopped, executed, aborted>>
      /\ queue # <<>> /\ queue' = Tail(queue) /\ mutex' = Free
      /\ task' = [task EXCEPT ![w] = Head(queue)]
      /\ wpc' = [wpc EXCEPT ![w] = "run"]
      /\ (wpc[w] = "pop" /\ mutex = Free) \/ wpc[w] = "proceed"
  BY DEF PopReady, PopWoken, popQueue, goto, main
<1>2. InPhase /\ InPhase' /\ Done' = Done
  BY <1>1 DEF InPhase, MainAt, Done
<1>3. /\ wpc \in [Workers -> Locations] /\ task \in [Workers -> AllTasks \cup {NoTask}]
      /\ queue \in Seq(AllTasks)
  BY DEF TypeOK
<1>4. /\ Len(queue) \in Nat \ {0} /\ Len(queue') = Len(queue) - 1
      /\ Head(queue) = queue[1] /\ Head(queue) \in AllTasks
      /\ queue' \in Seq(AllTasks)
      /\ \A k \in 1..Len(queue') : queue'[k] = queue[k + 1]
  BY <1>1, <1>3
<1>5. Popped \in Nat /\ Popped' = Popped + 1 /\ Head(queue) = <<phase, Popped + 1>>
  <2>1. Popped \in Nat /\ queue[1] = <<phase, Popped + 1>>
    BY <1>4 DEF QueueRun
  <2>2. next \in Nat /\ next' = next
    BY <1>1, Numbers
  <2>3. Popped = next - 1 - Len(queue) /\ Popped' = next' - 1 - Len(queue')
    BY <1>2 DEF Popped
  <2>4. Popped' = Popped + 1
    BY <1>4, <2>2, <2>3
  <2> QED
    BY <1>4, <2>1, <2>4
<1>6. w \notin Busy /\ Busy' = Busy \cup {w} /\ \A v \in Busy : v \in Workers /\ v # w
  BY <1>1, <1>3 DEF Busy
<1>7. /\ \A v \in Workers : v # w => wpc'[v] = wpc[v] /\ task'[v] = task[v]
      /\ wpc'[w] = "run" /\ task'[w] = <<phase, Popped + 1>>
  BY <1>1, <1>3, <1>5
<1>8. <<phase, Popped + 1>> \notin Done
  <2>1. \A t \in Done : t = <<phase, Popped + 1>> => t[1] = phase /\ t[2] = Popped + 1
    OBVIOUS
  <2>2. phase \in Nat
    BY Numbers
  <2> QED
    BY <1>5, <2>1, <2>2 DEF ExecutedSoFar
<1>9. TypeOK'
  <2>1. task' \in [Workers -> AllTasks \cup {NoTask}] /\ wpc' \in [Workers -> Locations]
    BY <1>1, <1>3, <1>4 DEF Locations
  <2> QED
    BY <1>1, <1>4, <2>1 DEF TypeOK, AllTasks, Tasks
<1>10. MainAt'
  BY <1>1, <1>2 DEF MainAt
<1>11. QueueRun'
  <2>1. \A k \in 1..Len(queue') : k + 1 \in 1..Len(queue)
    BY <1>4
  <2>2. \A k \in 1..Len(queue') : queue'[k] = <<phase, Popped + (k + 1)>>
    BY <1>4, <2>1 DEF QueueRun
  <2>3. \A k \in 1..Len(queue') : Popped + (k + 1) = Popped' + k
    BY <1>4, <1>5
  <2> QED
    BY <1>1, <1>5, <2>2, <2>3 DEF QueueRun
<1>12. Held'
  <2>1. \A v \in Busy : \E j \in 1..Popped : task[v] = <<phase, j>>
    BY DEF Held
  <2>2. \A v \in Busy : \E j \in 1..Popped' : task'[v] = <<phase', j>>
    BY <1>1, <1>5, <1>6, <1>7, <2>1
  <2>3. \A v \in Busy : task'[v] # task'[w]
    <3> TAKE v \in Busy
    <3>1. PICK j \in 1..Popped : task[v] = <<phase, j>>
      BY <2>1
    <3>2. j # Popped + 1
      BY <1>5
    <3> QED
      BY <1>6, <1>7, <3>1, <3>2
  <2>4. \E j \in 1..Popped' : task'[w] = <<phase', j>>
    BY <1>1, <1>5, <1>7
  <2>5. \A v \in Busy' : task'[v] \in Done' <=> wpc'[v] = "count_down"
    BY <1>2, <1>6, <1>7, <1>8 DEF Held
  <2>6. \A u, v \in Busy' : task'[u] = task'[v] => u = v
    BY <1>6, <1>7, <2>3 DEF Held
  <2> QED
    BY <1>6, <2>2, <2>4, <2>5, <2>6 DEF Held
<1>13. ExecutedSoFar'
  <2>1. \A j \in 1..Popped' :
          \/ <<phase, j>> \in Done
          \/ \E v \in Workers : wpc'[v] = "run" /\ task'[v] = <<phase, j>>
    <3> TAKE j \in 1..Popped'
    <3>1. CASE j = Popped + 1
      BY <1>7, <3>1
    <3>2. CASE j \in 1..Popped /\ <<phase, j>> \notin Done
      <4>1. PICK v \in Workers : wpc[v] = "run" /\ task[v] = <<phase, j>>
        BY <3>2 DEF ExecutedSoFar
      <4>2. v # w
        BY <1>1, <4>1
      <4> QED
        BY <1>7, <4>1, <4>2
    <3> QED
      BY <1>5, <3>1, <3>2
  <2>2. \A t \in Done : t[1] < phase \/ (t[1] = phase /\ t[2] <= Popped + 1)
    <3> TAKE t \in Done
    <3>1. t[2] \in Nat
      BY TaskFacts DEF Done, ToSet, TypeOK
    <3> QED
      BY <1>5, <3>1 DEF ExecutedSoFar
  <2> QED
    BY <1>1, <1>2, <1>5, <2>1, <2>2 DEF ExecutedSoFar, Tasks
<1>14. LatchCount'
  <2>1. latch = (program[phase] + 1 - next) + Len(queue) + Cardinality(Busy)
    BY <1>2 DEF LatchCount
  <2>2. Cardinality(Busy') = Cardinality(Busy) + 1
    BY <1>6, BusyFacts, FS_AddElement
  <2>3. Len(queue') + Cardinality(Busy') = Len(queue) + Cardinality(Busy)
    BY <1>4, <2>2, BusyFacts
  <2>4. program[phase] + 1 - next \in Int
    BY <1>2, Numbers DEF MainAt
  <2>5. Cardinality(Busy) \in Nat /\ Cardinality(Busy') \in Nat /\ Len(queue') \in Nat
    BY <1>4, <2>2, BusyFacts
  <2>6. latch = (program[phase] + 1 - next) + Len(queue') + Cardinality(Busy')
    <3> DEFINE left == program[phase] + 1 - next
    <3>1. left \in Int /\ latch = left + Len(queue) + Cardinality(Busy)
      BY <2>1, <2>4
    <3> HIDE DEF left
    <3>2. latch = left + Len(queue') + Cardinality(Busy')
      BY <1>4, <2>3, <2>5, <3>1
    <3> QED
      BY <3>2 DEF left
  <2> QED
    BY <1>1, <2>6 DEF LatchCount
<1>15. Mutex'
  <2>1. \A v \in Workers : v # w => wpc[v] \notin {"test", "block", "proceed"}
    BY <1>1, RunnerAssumption DEF Mutex
  <2> QED
    BY <1>1, <1>7, <2>1, RunnerAssumption DEF Mutex
<1>16. VerifyPop'
  <2>1. \A v \in Workers : wpc'[v] # "proceed"
    BY <1>1, <1>7, <1>15, RunnerAssumption DEF Mutex
  <2> QED
    BY <2>1 DEF VerifyPop
<1> QED
  BY <1>9, <1>10, <1>11, <1>12, <1>13, <1>14, <1>15, <1>16

\* push() returns: the source is executed, for the first time.
LEMMA RunStep ==
  ASSUME IInv, NEW w \in Workers, RunTask(w)
  PROVE  IInv'
<1> USE DEF IInv
<1>1. /\ UNCHANGED <<program, phase, mpc, next, latch, queue, stopped, mutex, task, aborted>>
      /\ wpc[w] = "run" /\ wpc' = [wpc EXCEPT ![w] = "count_down"]
      /\ executed' = Append(executed, task[w])
  BY DEF RunTask, goto, main
<1>2. /\ wpc \in [Workers -> Locations] /\ executed \in Seq(AllTasks)
  BY DEF TypeOK
<1>3. w \in Busy /\ Busy' = Busy /\ InPhase' = InPhase /\ Popped' = Popped
  BY <1>1, <1>2 DEF Busy, InPhase, Popped
<1>4. PICK n \in 1..Popped : task[w] = <<phase, n>>
  BY <1>3 DEF Held
<1>5. task[w] \in AllTasks
  <2>1. InPhase
    BY <1>3 DEF MainAt
  <2>2. phase \in 1..Len(program) /\ program[phase] \in Nat /\ next \in Nat /\ Len(queue) \in Nat
    BY <2>1, Numbers DEF MainAt
  <2>3. Popped <= program[phase]
    BY <2>1, <2>2 DEF Popped, MainAt
  <2>4. n \in 1..program[phase]
    BY <1>4, <2>2, <2>3 DEF QueueRun
  <2> QED
    BY <1>4, <2>2, <2>4, TaskFacts
<1>6. task[w] \notin Done
  BY <1>1, <1>3 DEF Held
<1>7. Done' = Done \cup {task[w]} /\ IsInjective(executed')
  BY <1>1, <1>2, <1>5, <1>6, AppendFacts DEF Done, ExecutedSoFar
<1>8. \A v \in Workers : v # w => wpc'[v] = wpc[v]
  BY <1>1, <1>2
<1>9. wpc'[w] = "count_down"
  BY <1>1, <1>2
<1>10. TypeOK'
  <2>1. executed' \in Seq(AllTasks) /\ wpc' \in [Workers -> Locations]
    BY <1>1, <1>2, <1>5 DEF Locations
  <2> QED
    BY <1>1, <2>1 DEF TypeOK, AllTasks, Tasks
<1>11. MainAt' /\ QueueRun' /\ LatchCount'
  BY <1>1, <1>3 DEF MainAt, QueueRun, LatchCount
<1>12. Held'
  <2>1. \A v \in Busy : v # w => task[v] # task[w] /\ v \in Workers
    BY <1>3 DEF Held, Busy
  <2>2. \A v \in Busy : task[v] \in Done' <=> wpc'[v] = "count_down"
    BY <1>7, <1>8, <1>9, <2>1 DEF Held
  <2> QED
    BY <1>1, <1>3, <2>2 DEF Held
<1>13. ExecutedSoFar'
  <2>1. \A p \in 1..(phase - 1) : Tasks(p) \subseteq Done'
    BY <1>7 DEF ExecutedSoFar
  <2>2. \A j \in 1..Popped :
          \/ <<phase, j>> \in Done'
          \/ \E v \in Workers : wpc'[v] = "run" /\ task[v] = <<phase, j>>
    <3> SUFFICES ASSUME NEW j \in 1..Popped, <<phase, j>> \notin Done'
                 PROVE  \E v \in Workers : wpc'[v] = "run" /\ task[v] = <<phase, j>>
      OBVIOUS
    <3>1. PICK v \in Workers : wpc[v] = "run" /\ task[v] = <<phase, j>>
      BY <1>7 DEF ExecutedSoFar
    <3>2. v # w
      BY <1>7, <3>1
    <3> QED
      BY <1>8, <3>1, <3>2
  <2>3. \A t \in Done' : t[1] < phase \/ (t[1] = phase /\ t[2] <= Popped)
    <3>1. task[w][1] = phase /\ task[w][2] = n /\ n <= Popped
      BY <1>4
    <3> QED
      BY <1>7, <3>1 DEF ExecutedSoFar
  <2> QED
    BY <1>1, <1>3, <1>7, <2>1, <2>2, <2>3 DEF ExecutedSoFar, Tasks
<1>14. Mutex' /\ VerifyPop'
  BY <1>1, <1>8, <1>9 DEF Mutex, VerifyPop
<1> QED
  BY <1>10, <1>11, <1>12, <1>13, <1>14

\* A task is counted down and gone.
LEMMA CountStep ==
  ASSUME IInv, NEW w \in Workers, CountDown(w)
  PROVE  IInv'
<1> USE DEF IInv
<1>1. /\ UNCHANGED <<program, phase, mpc, next, queue, stopped, mutex, executed, aborted>>
      /\ wpc[w] = "count_down" /\ wpc' = [wpc EXCEPT ![w] = "pop"]
      /\ task' = [task EXCEPT ![w] = NoTask] /\ latch' = latch - 1
  BY DEF CountDown, goto
<1>2. wpc \in [Workers -> Locations] /\ task \in [Workers -> AllTasks \cup {NoTask}]
  BY DEF TypeOK
<1>3. /\ w \in Busy /\ Busy' = Busy \ {w} /\ InPhase' = InPhase /\ InPhase
      /\ Popped' = Popped /\ Done' = Done
  BY <1>1, <1>2 DEF Busy, InPhase, Popped, Done, MainAt
<1>4. /\ Cardinality(Busy) \in Nat \ {0} /\ Cardinality(Busy') = Cardinality(Busy) - 1
  BY <1>3, BusyFacts, FS_RemoveElement
<1>5. \A v \in Workers : v # w => wpc'[v] = wpc[v] /\ task'[v] = task[v]
  BY <1>1, <1>2
<1>6. wpc'[w] = "pop"
  BY <1>1, <1>2
<1>7. /\ latch' \in Nat
      /\ latch' = (program[phase] + 1 - next) + Len(queue) + Cardinality(Busy')
  <2> DEFINE left == program[phase] + 1 - next
  <2>1. /\ phase \in 1..Len(program) /\ program[phase] \in Nat /\ next \in Nat
        /\ next <= program[phase] + 1
    BY <1>3, Numbers DEF MainAt
  <2>2. left \in Nat
    BY <2>1
  <2>3. latch = left + Len(queue) + Cardinality(Busy)
    BY <1>3 DEF LatchCount
  <2>4. Len(queue) \in Nat
    BY Numbers
  <2> HIDE DEF left
  <2>5. latch' \in Nat /\ latch' = left + Len(queue) + Cardinality(Busy')
    BY <1>1, <1>4, <2>2, <2>3, <2>4
  <2> QED
    BY <2>5 DEF left
<1>8. TypeOK'
  <2>1. task' \in [Workers -> AllTasks \cup {NoTask}] /\ wpc' \in [Workers -> Locations]
    BY <1>1, <1>2 DEF Locations
  <2> QED
    BY <1>1, <1>7, <2>1 DEF TypeOK, AllTasks, Tasks
<1>9. MainAt' /\ QueueRun' /\ LatchCount'
  BY <1>1, <1>3, <1>7 DEF MainAt, QueueRun, LatchCount
<1>10. Held'
  BY <1>1, <1>3, <1>5 DEF Held, Busy
<1>11. ExecutedSoFar'
  <2>1. \A v \in Workers : wpc[v] = "run" => v # w
    BY <1>1
  <2> QED
    BY <1>1, <1>3, <1>5, <2>1 DEF ExecutedSoFar, Tasks
<1>12. Mutex' /\ VerifyPop'
  BY <1>1, <1>5, <1>6 DEF Mutex, VerifyPop
<1> QED
  BY <1>8, <1>9, <1>10, <1>11, <1>12

\* panic() and stuttering change nothing the invariant speaks of.
LEMMA NoStep ==
  ASSUME IInv, UNCHANGED vars \/ \E w \in Workers : Panic(w)
  PROVE  IInv'
<1>1. /\ UNCHANGED <<program, phase, mpc, next, latch, queue, stopped, mutex, wpc, task, executed>>
      /\ aborted' \in BOOLEAN
  BY DEF IInv, TypeOK, vars, Panic, main
<1>2. Busy' = Busy /\ Tracked'
  BY <1>1, Frame DEF InPhase
<1>3. TypeOK'
  BY <1>1 DEF IInv, TypeOK, AllTasks, Tasks
<1>4. MainAt'
  BY <1>1, <1>2 DEF IInv, MainAt, InPhase
<1>5. Mutex' /\ VerifyPop'
  BY <1>1 DEF IInv, Mutex, VerifyPop
<1> QED
  BY <1>2, <1>3, <1>4, <1>5 DEF IInv, Tracked
----------------------------------------------------------------------------
\* In every state the latch of the phase counts exactly the sources of it that
\* are not counted down, and those are where the invariant says.
THEOREM Inductive == Spec => []IInv
<1>1. Init => IInv
  <2> SUFFICES ASSUME Init PROVE IInv
    OBVIOUS
  <2> USE RunnerAssumption DEF Init, Free
  <2>1. ~InPhase /\ Busy = {} /\ Done = {} /\ Popped = 0
    BY DEF InPhase, Busy, Done, ToSet, Popped
  <2>2. TypeOK
    <3>1. program \in Seq(Nat) /\ Len(program) \in Nat
      OBVIOUS
    <3>2. phase \in 1..Len(program) + 1
      BY <3>1
    <3>3. queue \in Seq(AllTasks) /\ executed \in Seq(AllTasks)
      OBVIOUS
    <3>4. wpc \in [Workers -> Locations] /\ task \in [Workers -> AllTasks \cup {NoTask}]
      BY DEF Locations
    <3>5. program \in Programs /\ mpc \in {"phase", "enqueue", "notify", "stop", "join", "joined"}
      OBVIOUS
    <3>6. next \in Nat \ {0} /\ latch \in Nat /\ mutex \in Workers \cup {Free}
      OBVIOUS
    <3>7. stopped \in BOOLEAN /\ aborted \in BOOLEAN
      OBVIOUS
    <3> HIDE DEF Init, Free
    <3> QED
      BY <3>2, <3>3, <3>4, <3>5, <3>6, <3>7 DEF TypeOK
  <2>3. MainAt /\ QueueRun /\ Held /\ LatchCount
    BY <2>1 DEF MainAt, QueueRun, Held, LatchCount
  <2>4. ExecutedSoFar
    BY <2>1 DEF ExecutedSoFar, IsInjective
  <2>5. Mutex /\ VerifyPop
    BY DEF Mutex, VerifyPop
  <2> QED
    BY <2>2, <2>3, <2>4, <2>5 DEF IInv
<1>2. IInv /\ [Next]_vars => IInv'
  <2> SUFFICES ASSUME IInv, [Next]_vars PROVE IInv'
    OBVIOUS
  <2>1. CASE MainStep
    BY <2>1, BeginStep, EnqueueStep, OpenStep, NotifyStep DEF MainStep
  <2>2. ASSUME NEW w \in Workers, WorkerStep(w) \/ SpuriousWakeup(w) \/ Panic(w)
        PROVE  IInv'
    BY <2>2, IdleStep, PopStep, RunStep, CountStep, NoStep DEF WorkerStep
  <2>3. CASE UNCHANGED vars
    BY <2>3, NoStep
  <2> QED
    BY <2>1, <2>2, <2>3 DEF Next
<1> QED
  BY <1>1, <1>2, PTL DEF Spec

\* The state of run() and of the pool keeps its types: the latch never
\* underflows, and the queue and the workers hold sources of the program only.
THEOREM TypeCorrect == Spec => []TypeOK
<1>1. IInv => TypeOK
  BY DEF IInv
<1> QED
  BY <1>1, Inductive, PTL

\* No source is pushed before every source of the earlier phases has returned.
THEOREM Barrier == Spec => []PhaseBarrier
<1>1. IInv => PhaseBarrier
  <2> SUFFICES ASSUME IInv, NEW w \in Workers, wpc[w] = "run",
                      NEW p \in 1..task[w][1] - 1
               PROVE  Tasks(p) \subseteq ToSet(executed)
    BY DEF PhaseBarrier
  <2>1. PICK j \in 1..Popped : task[w] = <<phase, j>>
    BY DEF IInv, Held, Busy
  <2> QED
    BY <2>1 DEF IInv, ExecutedSoFar, Done
<1> QED
  BY <1>1, Inductive, PTL

\* No source is pushed twice, and a stopped pool has pushed all of them.
THEOREM SourcesOnce == Spec => []EachSourceOnce
<1>1. IInv => EachSourceOnce
  <2> SUFFICES ASSUME IInv, stopped PROVE Done = AllTasks /\ queue = <<>>
    BY DEF IInv, ExecutedSoFar, EachSourceOnce, Done
  <2>1. ~InPhase /\ phase = Len(program) + 1
    BY DEF IInv, MainAt, InPhase
  <2>2. AllTasks \subseteq Done
    <3>1. \A p \in 1..Len(program) : Tasks(p) \subseteq Done
      BY <2>1, Numbers DEF IInv, ExecutedSoFar
    <3> QED
      BY <3>1 DEF AllTasks
  <2>3. Done \subseteq AllTasks
    BY DEF IInv, TypeOK, Done, ToSet
  <2> QED
    BY <2>1, <2>2, <2>3 DEF IInv, MainAt
<1> QED
  BY <1>1, Inductive, PTL

\* A worker that holds a task finds the latch of its phase in place, and not
\* yet at zero.
THEOREM LatchOutlives == Spec => []LatchAlive
<1>1. IInv => LatchAlive
  <2> SUFFICES ASSUME IInv, NEW w \in Workers, wpc[w] \in {"run", "count_down"}
               PROVE  task[w][1] = phase /\ InPhase /\ latch > 0
    BY DEF LatchAlive, InPhase
  <2>1. w \in Busy
    BY DEF Busy
  <2>2. task[w][1] = phase
    BY <2>1 DEF IInv, Held
  <2>3. InPhase
    BY <2>1 DEF IInv, MainAt
  <2>4. /\ phase \in 1..Len(program) /\ program[phase] \in Nat /\ next \in Nat
        /\ next <= program[phase] + 1 /\ Len(queue) \in Nat
    BY <2>3, Numbers DEF IInv, MainAt
  <2>5. Cardinality(Busy) \in Nat \ {0}
    BY <2>1, BusyFacts
  <2> DEFINE left == program[phase] + 1 - next
  <2>6. left \in Nat
    BY <2>4
  <2>7. latch = left + Len(queue) + Cardinality(Busy)
    BY <2>3 DEF IInv, LatchCount
  <2> HIDE DEF left
  <2>8. latch > 0
    BY <2>4, <2>5, <2>6, <2>7
  <2> QED
    BY <2>2, <2>3, <2>8
<1> QED
  BY <1>1, Inductive, PTL

\* The verify_dbg of pop() never fails.
THEOREM PopVerified == Spec => []VerifyPop
<1>1. IInv => VerifyPop
  BY DEF IInv
<1> QED
  BY <1>1, Inductive, PTL
=============================================================================
