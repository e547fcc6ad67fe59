------------------------------- MODULE Runner -------------------------------
(***************************************************************************)
(* run() and the ThreadPool it drives.  The main thread executes the       *)
(* phases of the physical program in order: it enqueues one task per       *)
(* source of the phase and waits on a latch that every task counts down.   *)
(* After the last phase it stops the pool and joins the workers.  The      *)
(* queue of the pool is guarded by a mutex and a condition variable.       *)
(***************************************************************************)
EXTENDS Naturals, Sequences, FiniteSets, SequencesExt

CONSTANTS Workers,      \* num_threads of them
          Programs      \* the programs considered: sources of each phase

Free == "free"          \* nobody owns m_

ASSUME RunnerAssumption ==
  /\ Workers # {} /\ IsFiniteSet(Workers) /\ Free \notin Workers
  /\ Programs \subseteq Seq(Nat)

VARIABLES program,      \* phases: how many sources phase p has, from 1 on
          phase,        \* the phase run() is at
          mpc,          \* where the main thread is
          next,         \* the source of the phase to be enqueued next
          latch,        \* the counter of the phase's latch
          queue,        \* queue_, of tasks <<phase, source>>
          stopped,      \* stopped_
          mutex,        \* the owner of m_
          wpc,          \* where each worker is
          task,         \* the task each worker holds
          executed,     \* the tasks whose push() returned, in order
          aborted       \* the process was ended by panic()

vars == <<program, phase, mpc, next, latch, queue, stopped, mutex,
          wpc, task, executed, aborted>>

NoTask == <<0, 0>>

Init ==
  /\ program \in Programs
  /\ phase = 1
  /\ mpc = "phase"
  /\ next = 1
  /\ latch = 0
  /\ queue = <<>>
  /\ stopped = FALSE
  /\ mutex = Free
  /\ wpc = [w \in Workers |-> "pop"]
  /\ task = [w \in Workers |-> NoTask]
  /\ executed = <<>>
  /\ aborted = FALSE
----------------------------------------------------------------------------
pool == <<queue, stopped, mutex, wpc, task, executed, aborted>>
main == <<program, phase, mpc, next, latch>>

\* The workers that block in cv_.wait.
Waiting == {w \in Workers : wpc[w] = "blocked"}

\* A woken worker has to take m_ again before it looks at the predicate.
wake(W) == wpc' = [w \in Workers |-> IF w \in W THEN "relock" ELSE wpc[w]]

goto(w, l) == wpc' = [wpc EXCEPT ![w] = l]
----------------------------------------------------------------------------
\* Mutated forms of definitions below; none is part of the specification.
LatchOpen_NoWait ==
  /\ mpc = "enqueue" /\ next > program[phase]
  /\ phase' = phase + 1
  /\ mpc' = "phase"
  /\ UNCHANGED <<program, next, latch, pool>>
popQueue_Peek(w) ==
  /\ queue # <<>>
  /\ task' = [task EXCEPT ![w] = Head(queue)]
  /\ mutex' = Free
  /\ goto(w, "run")
  /\ UNCHANGED <<main, queue, stopped, executed, aborted>>
LatchOpen_OffByOne ==
  /\ mpc = "enqueue" /\ next > program[phase] /\ latch <= 1
  /\ phase' = phase + 1
  /\ mpc' = "phase"
  /\ UNCHANGED <<program, next, latch, pool>>
Lock_NoRetest(w) ==
  /\ mutex = Free
  /\ mutex' = w
  /\ \/ wpc[w] = "pop" /\ queue = <<>> /\ goto(w, "test")
     \/ wpc[w] = "relock" /\ goto(w, "proceed")
  /\ UNCHANGED <<main, queue, stopped, task, executed, aborted>>
NotifyOne_Dropped ==
  /\ mpc = "notify"
  /\ mpc' = "enqueue"
  /\ UNCHANGED <<program, phase, next, latch, pool>>
----------------------------------------------------------------------------
(***************************************************************************)
(* The main thread: run(), then pool.stop() and pool.join().               *)
(***************************************************************************)
BeginPhase ==
  /\ mpc = "phase"
  /\ phase <= Len(program)
  /\ latch' = program[phase]
  /\ next' = 1
  /\ mpc' = "enqueue"
  /\ UNCHANGED <<program, phase, pool>>

Enqueue ==
  /\ mpc = "enqueue"
  /\ next <= program[phase]
  /\ mutex = Free
  /\ queue' = Append(queue, <<phase, next>>)
  /\ next' = next + 1
  /\ mpc' = "notify"
  /\ UNCHANGED <<program, phase, latch, stopped, mutex, wpc, task, executed, aborted>>

\* cv_.notify_one, after m_ was released.
NotifyOne ==
  /\ mpc = "notify"
  /\ IF Waiting = {} THEN UNCHANGED wpc ELSE \E w \in Waiting : wake({w})
  /\ mpc' = "enqueue"
  /\ UNCHANGED <<program, phase, next, latch, queue, stopped, mutex, task, executed, aborted>>

\* latch.wait() returns and the next phase is looked up.
LatchOpen ==
  /\ mpc = "enqueue"
  /\ next > program[phase]
  /\ latch = 0
  /\ phase' = phase + 1
  /\ mpc' = "phase"
  /\ UNCHANGED <<program, next, latch, pool>>

\* stop() stores stopped_ without holding m_, ...
Stop ==
  /\ mpc = "phase"
  /\ phase > Len(program)
  /\ stopped' = TRUE
  /\ mpc' = "stop"
  /\ UNCHANGED <<program, phase, next, latch, queue, mutex, wpc, task, executed, aborted>>

\* ... and then wakes those that block at this moment.
NotifyAll ==
  /\ mpc = "stop"
  /\ wake(Waiting)
  /\ mpc' = "join"
  /\ UNCHANGED <<program, phase, next, latch, queue, stopped, mutex, task, executed, aborted>>

Join ==
  /\ mpc = "join"
  /\ \A w \in Workers : wpc[w] = "exited"
  /\ mpc' = "joined"
  /\ UNCHANGED <<program, phase, next, latch, pool>>
----------------------------------------------------------------------------
(***************************************************************************)
(* A worker: pop() of the queue, the task, and the latch.                  *)
(***************************************************************************)
\* popQueue, with m_ released on return.
popQueue(w) ==
  /\ queue # <<>>
  /\ task' = [task EXCEPT ![w] = Head(queue)]
  /\ queue' = Tail(queue)
  /\ mutex' = Free
  /\ goto(w, "run")
  /\ UNCHANGED <<main, stopped, executed, aborted>>

\* The fast path of pop().
PopReady(w) ==
  /\ wpc[w] = "pop"
  /\ mutex = Free
  /\ popQueue(w)

\* Take m_ for cv_.wait, first from pop() and again after every wake-up.
Lock(w) ==
  /\ \/ wpc[w] = "pop" /\ queue = <<>>
     \/ wpc[w] = "relock"
  /\ mutex = Free
  /\ mutex' = w
  /\ goto(w, "test")
  /\ UNCHANGED <<main, queue, stopped, task, executed, aborted>>

\* The predicate of cv_.wait, evaluated with m_ held.
Test(w) ==
  /\ wpc[w] = "test"
  /\ goto(w, IF queue # <<>> \/ stopped THEN "proceed" ELSE "block")
  /\ UNCHANGED <<main, queue, stopped, mutex, task, executed, aborted>>

\* cv_.wait releases m_ and blocks, in one step.
Block(w) ==
  /\ wpc[w] = "block"
  /\ mutex' = Free
  /\ goto(w, "blocked")
  /\ UNCHANGED <<main, queue, stopped, task, executed, aborted>>

\* A condition variable may wake a thread for no reason.
SpuriousWakeup(w) ==
  /\ wpc[w] = "blocked"
  /\ wake({w})
  /\ UNCHANGED <<main, queue, stopped, mutex, task, executed, aborted>>

\* Past cv_.wait: a stopped pool takes no further task, ...
Exit(w) ==
  /\ wpc[w] = "proceed"
  /\ stopped
  /\ mutex' = Free
  /\ goto(w, "exited")
  /\ UNCHANGED <<main, queue, stopped, task, executed, aborted>>

\* ... any other one has one.
PopWoken(w) ==
  /\ wpc[w] = "proceed"
  /\ ~stopped
  /\ popQueue(w)

\* source->push()
RunTask(w) ==
  /\ wpc[w] = "run"
  /\ executed' = Append(executed, task[w])
  /\ goto(w, "count_down")
  /\ UNCHANGED <<main, queue, stopped, mutex, task, aborted>>

\* source->push() throws: panic() ends the process.
Panic(w) ==
  /\ wpc[w] = "run"
  /\ aborted' = TRUE
  /\ UNCHANGED <<main, queue, stopped, mutex, wpc, task, executed>>

CountDown(w) ==
  /\ wpc[w] = "count_down"
  /\ latch' = latch - 1
  /\ task' = [task EXCEPT ![w] = NoTask]
  /\ goto(w, "pop")
  /\ UNCHANGED <<program, phase, mpc, next, queue, stopped, mutex, executed, aborted>>
----------------------------------------------------------------------------
MainStep ==
  BeginPhase \/ Enqueue \/ NotifyOne \/ LatchOpen \/ Stop \/ NotifyAll \/ Join

\* What a worker does on its own account, as opposed to what may befall it.
WorkerStep(w) ==
  \/ PopReady(w) \/ Lock(w) \/ Test(w) \/ Block(w) \/ Exit(w) \/ PopWoken(w)
  \/ RunTask(w) \/ CountDown(w)

Ended == aborted \/ mpc = "joined"

Next ==
  \/ ~aborted /\ MainStep
  \/ ~aborted /\ \E w \in Workers :
       WorkerStep(w) \/ SpuriousWakeup(w) \/ Panic(w)
  \/ Ended /\ UNCHANGED vars

\* The operating system runs every thread that can run; m_ is handed over
\* often enough that a thread which asks for it again and again gets it.
\* Nothing makes a spurious wake-up or a failing source happen.
Fairness ==
  /\ SF_vars(~aborted /\ MainStep)
  /\ \A w \in Workers : SF_vars(~aborted /\ WorkerStep(w))

Spec == Init /\ [][Next]_vars /\ Fairness
----------------------------------------------------------------------------
Tasks(p) == {p} \X (1..program[p])
AllTasks == UNION {Tasks(p) : p \in 1..Len(program)}
Locations == {"pop", "relock", "test", "block", "blocked", "proceed",
              "exited", "run", "count_down"}

TypeOK ==
  /\ program \in Programs
  /\ phase \in 1..Len(program) + 1
  /\ mpc \in {"phase", "enqueue", "notify", "stop", "join", "joined"}
  /\ next \in Nat \ {0}
  /\ latch \in Nat
  /\ queue \in Seq(AllTasks)
  /\ stopped \in BOOLEAN
  /\ mutex \in Workers \cup {Free}
  /\ wpc \in [Workers -> Locations]
  /\ task \in [Workers -> AllTasks \cup {NoTask}]
  /\ executed \in Seq(AllTasks)
  /\ aborted \in BOOLEAN

\* A phase reads what the phases before it collected (materialized relations,
\* hash tables, aggregates): a source starts pushing only when every source of
\* every earlier phase has returned from push().
PhaseBarrier ==
  \A w \in Workers : wpc[w] = "run" =>
    \A p \in 1..task[w][1] - 1 : Tasks(p) \subseteq ToSet(executed)

\* Every source is pushed at most once, and all of them have been when the
\* pool is stopped: pop() of a stopped pool abandons no task.
EachSourceOnce ==
  /\ IsInjective(executed)
  /\ stopped => ToSet(executed) = AllTasks /\ queue = <<>>

\* A worker that is past the latch of a phase does not touch it any more:
\* run() destroys the latch when the phase ends.
LatchAlive ==
  \A w \in Workers : wpc[w] \in {"run", "count_down"} =>
    task[w][1] = phase /\ mpc \in {"enqueue", "notify"} /\ latch > 0

\* The verify_dbg of pop(): a worker that is past cv_.wait, of a pool that is
\* not stopped, finds a task, however many workers were woken for it.
VerifyPop ==
  \A w \in Workers : wpc[w] = "proceed" => stopped \/ queue # <<>>

\* Every phase runs to its end: no task is enqueued while all workers sleep
\* through the notification, whatever the number of workers.
PhasesComplete == <>(aborted \/ phase = Len(program) + 1)

\* The process ends: after the last phase pool.stop() releases every worker
\* and pool.join() returns.
ProcessCompletes == <>Ended
=============================================================================
