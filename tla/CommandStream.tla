--------------------------- MODULE CommandStream ---------------------------
(***************************************************************************)
(* STREAM sources: each is a command run by a shell whose standard output  *)
(* is read by the worker that pushes the source, and whose standard error  *)
(* is drained by a thread of its own.  Pipes are made without O_CLOEXEC,   *)
(* so that a child also holds every pipe end the program had open when it  *)
(* was forked, those of other streams included.  A pipe ends for its       *)
(* reader when no process holds its write end, and breaks for its writer   *)
(* when no process holds its read end.                                     *)
(***************************************************************************)
EXTENDS Integers, Sequences

CONSTANTS Streams,
          Commands,     \* what the streams run: a choice of assignments
          Capacity,     \* chunks a pipe holds
          TailSize,     \* CommandStderrTailSize, in chunks
          \* the streams for which these calls may fail:
          StartErrors,  \* pipe, fork and the start of the thread
          ReadErrors,   \* read() of the standard output
          DrainErrors,  \* read() of the standard error
          WaitErrors    \* waitpid

\* A command: whether the shell runs it as a job of its own instead of being
\* replaced by it, the chunks it writes to its standard output and error, whether
\* it redirects its standard error elsewhere, its exit code (0 or another), and
\* whether it ignores SIGTERM.
CommandType == [job : BOOLEAN, out : Nat, err : Nat, redirects : BOOLEAN,
                code : {0, 1}, ignores : BOOLEAN]

ASSUME StreamAssumption ==
  /\ Commands \subseteq [Streams -> CommandType]
  /\ \A c \in Commands, s \in Streams : c[s].redirects => c[s].err = 0
  /\ Capacity \in Nat \ {0} /\ TailSize \in Nat
  /\ StartErrors \cup ReadErrors \cup DrainErrors \cup WaitErrors \subseteq Streams

VARIABLES command,
          holds,        \* the pipe ends held by the program and by each process
          level,        \* chunks in each pipe
          todo,         \* chunks still to be written to each pipe
          status,       \* of each process: "none", "running" or how it ended
          pc,           \* of the worker of each stream
          drainer,      \* of the stderr thread: "none", "running", "ended", "failed"
          received,     \* chunks read from each pipe
          stderr_,      \* the chunks of the standard error that are kept, by number
          finished_,
          reaped,       \* whether a waitpid has returned the child
          result,       \* what the stream told its reader
          panicked

procVars == <<holds, level, todo, status>>
errVars == <<drainer, stderr_>>
waitVars == <<finished_, reaped>>
vars == <<command, procVars, pc, errVars, received, waitVars, result, panicked>>

Out(s) == <<s, "out">>
Err(s) == <<s, "err">>
Pipes == Streams \X {"out", "err"}
Read(p) == <<p, "r">>
Write(p) == <<p, "w">>

Program == <<"lsql", "main">>
Shell(s) == <<s, "sh">>
Job(s) == <<s, "job">>
Children == Streams \X {"sh", "job"}
\* The process that writes: the shell itself, or its job.
Writer(s) == IF command[s].job THEN Job(s) ELSE Shell(s)

Held(end) == \E p \in DOMAIN holds : end \in holds[p]
Ended == {"exited0", "exited1", "signalled"}
exited(code) == IF code = 0 THEN "exited0" ELSE "exited1"

Init ==
  /\ command \in Commands
  /\ holds = [p \in Children \cup {Program} |-> {}]
  /\ level = [p \in Pipes |-> 0] /\ received = [p \in Pipes |-> 0]
  /\ todo = [p \in Pipes |-> IF p[2] = "out" THEN command[p[1]].out ELSE command[p[1]].err]
  /\ status = [p \in Children |-> "none"]
  /\ pc = [s \in Streams |-> "new"]
  /\ drainer = [s \in Streams |-> "none"]
  /\ stderr_ = [s \in Streams |-> <<>>]
  /\ finished_ = [s \in Streams |-> FALSE] /\ reaped = [s \in Streams |-> FALSE]
  /\ result = [s \in Streams |-> "none"]
  /\ panicked = FALSE

\* A thread of the program goes on, unless the program has panicked.
Go(s, from, to) == ~panicked /\ pc[s] = from /\ pc' = [pc EXCEPT ![s] = to]

programHolds(ends) == holds' = [holds EXCEPT ![Program] = ends]

\* An exception leaves the push of the stream and the program panics: all its
\* threads end and its ends are closed.
Panic(s, error) ==
  /\ pc' = [pc EXCEPT ![s] = "done"]
  /\ result' = [result EXCEPT ![s] = error]
  /\ panicked' = TRUE
  /\ programHolds({})

----------------------------------------------------------------------------
\* Mutated forms of definitions below; none is part of the specification.
Wait_NotFinished(s) ==
  /\ Go(s, "wait", "join") /\ status[Shell(s)] \in Ended /\ ~reaped[s]
  /\ reaped' = [reaped EXCEPT ![s] = TRUE]
  /\ UNCHANGED <<command, procVars, errVars, received, finished_, result, panicked>>
Joined_NoJoin(s) == TRUE
appendStderr_Head(text, chunk) ==
  IF Len(text) >= TailSize THEN text ELSE Append(text, chunk)
CloseChildStdout_Keeps(s) ==
  /\ Go(s, "close_stdout", "close_stderr")
  /\ UNCHANGED <<command, procVars, errVars, received, waitVars, result, panicked>>
outcome_AnyExit(st) == IF st \in {"exited0", "exited1"} THEN "ok" ELSE "failed"
----------------------------------------------------------------------------
\* start(): two pipes, fork, and the program closes the ends of the child.
MakePipe(s, p, from, to) ==
  /\ Go(s, from, to)
  /\ programHolds(holds[Program] \cup {Read(p), Write(p)})
  /\ UNCHANGED <<command, level, todo, status, errVars, received, waitVars, result, panicked>>

\* The child gets all ends that are open in the program and closes its own
\* read ends; the job gets what the shell has, less what it redirects.
Fork(s) ==
  /\ Go(s, "fork", "close_stdout")
  /\ LET inherited == holds[Program] \ {Read(Out(s)), Read(Err(s))}
         redirected == IF command[s].redirects THEN {Write(Err(s))} ELSE {}
         procs == {Shell(s), Writer(s)}
     IN /\ holds' = [p \in DOMAIN holds |->
                       IF p = Writer(s) THEN inherited \ redirected
                       ELSE IF p = Shell(s) THEN inherited ELSE holds[p]]
        /\ status' = [p \in Children |-> IF p \in procs THEN "running" ELSE status[p]]
  /\ UNCHANGED <<command, level, todo, errVars, received, waitVars, result, panicked>>

CloseChildStdout(s) ==
  /\ Go(s, "close_stdout", "close_stderr")
  /\ programHolds(holds[Program] \ {Write(Out(s))})
  /\ UNCHANGED <<command, level, todo, status, errVars, received, waitVars, result, panicked>>

CloseChildStderr(s) ==
  /\ Go(s, "close_stderr", "reading")
  /\ programHolds(holds[Program] \ {Write(Err(s))})
  /\ drainer' = [drainer EXCEPT ![s] = "running"]
  /\ UNCHANGED <<command, level, todo, status, stderr_, received, waitVars, result, panicked>>

\* pipe or fork fails, or the thread cannot be started.  There is no stream yet,
\* and so no destructor: a child that was forked is left alone.
StartFails(s) ==
  /\ s \in StartErrors /\ ~panicked
  /\ pc[s] \in {"new", "pipe_stderr", "fork", "close_stderr"}
  /\ Panic(s, "start_error")
  /\ UNCHANGED <<command, level, todo, status, errVars, received, waitVars>>

\* read(): a chunk, or the end once no process holds the write end.
ReadChunk(s) ==
  /\ ~panicked /\ pc[s] = "reading" /\ ~finished_[s] /\ level[Out(s)] > 0
  /\ level' = [level EXCEPT ![Out(s)] = @ - 1]
  /\ received' = [received EXCEPT ![Out(s)] = @ + 1]
  /\ UNCHANGED <<command, holds, todo, status, pc, errVars, waitVars, result, panicked>>

ReadEof(s) == level[Out(s)] = 0 /\ ~Held(Write(Out(s)))
CloseStdout(s) == programHolds(holds[Program] \ {Read(Out(s))})

ReadEnd(s) ==
  /\ Go(s, "reading", "wait") /\ ~finished_[s] /\ ReadEof(s)
  /\ CloseStdout(s)
  /\ UNCHANGED <<command, level, todo, status, errVars, received, waitVars, result, panicked>>

\* read() fails for another reason than EINTR: it throws after terminate().
ReadError(s) ==
  /\ s \in ReadErrors /\ ~finished_[s]
  /\ Go(s, "reading", "terminate")
  /\ CloseStdout(s)
  /\ result' = [result EXCEPT ![s] = "read_error"]
  /\ UNCHANGED <<command, level, todo, status, errVars, received, waitVars, panicked>>

\* The consumer leaves (LIMIT).
Stop(s) ==
  /\ Go(s, "reading", "destroy")
  /\ result' = [result EXCEPT ![s] = "stopped"]
  /\ UNCHANGED <<command, procVars, errVars, received, waitVars, panicked>>

\* The destructor, after the end of the stream, a stop or an exception.
Destroy(s) ==
  /\ Go(s, "destroy", IF finished_[s] THEN "close" ELSE "terminate")
  /\ CloseStdout(s)
  /\ UNCHANGED <<command, level, todo, status, errVars, received, waitVars, result, panicked>>

\* A process ends: all its ends are closed.
End(p, how) ==
  /\ status' = [status EXCEPT ![p] = how]
  /\ holds' = [holds EXCEPT ![p] = {}]

\* Where terminate() returns to: read(), which throws, or the destructor.
returned(s) == IF result[s] = "read_error" THEN "destroy" ELSE "close"

\* terminate(): SIGTERM goes to the shell only.
Kill(s) ==
  /\ Go(s, "terminate", IF finished_[s] THEN returned(s) ELSE "reap")
  /\ IF /\ ~finished_[s] /\ status[Shell(s)] = "running"
        /\ command[s].job \/ ~command[s].ignores
     THEN End(Shell(s), "signalled")
     ELSE UNCHANGED <<status, holds>>
  /\ UNCHANGED <<command, level, todo, errVars, received, waitVars, result, panicked>>

\* waitpid (external) returns the child once it has ended.  It fails (ECHILD) for
\* one that is gone: waited for before, or released by the kernel as it ended,
\* when the program was started with SIGCHLD ignored.
waitpidFails(s) == status[Shell(s)] \in Ended /\ (reaped[s] \/ s \in WaitErrors)
waitpid(s) ==
  /\ status[Shell(s)] \in Ended /\ ~reaped[s]
  /\ reaped' = [reaped EXCEPT ![s] = TRUE]

\* The rest of terminate(), which ignores whether waitpid fails.
Reap(s) ==
  /\ Go(s, "reap", returned(s))
  /\ waitpid(s) \/ (waitpidFails(s) /\ UNCHANGED reaped)
  /\ finished_' = [finished_ EXCEPT ![s] = TRUE]
  /\ UNCHANGED <<command, procVars, errVars, received, result, panicked>>

\* wait(): an exception if waitpid fails.
Wait(s) ==
  /\ Go(s, "wait", "join") /\ waitpid(s)
  /\ finished_' = [finished_ EXCEPT ![s] = TRUE]
  /\ UNCHANGED <<command, procVars, errVars, received, result, panicked>>

WaitError(s) ==
  /\ Go(s, "wait", "destroy") /\ waitpidFails(s)
  /\ result' = [result EXCEPT ![s] = "wait_error"]
  /\ UNCHANGED <<command, procVars, errVars, received, waitVars, panicked>>

\* What wait() makes of the status it was given: it throws unless the shell
\* exited with 0.
outcome(st) == IF st = "exited0" THEN "ok" ELSE "failed"

\* joinStderr(): the thread is joined, and the read end closed.
Joined(s) == drainer[s] \in {"ended", "failed"}
CloseStderr(s) == programHolds(holds[Program] \ {Read(Err(s))})

\* The rest of wait(): the reader is told the end, or an error with stderrTail().
Join(s) ==
  /\ Go(s, "join", "destroy") /\ Joined(s)
  /\ CloseStderr(s)
  /\ result' = [result EXCEPT ![s] = outcome(status[Shell(s)])]
  /\ UNCHANGED <<command, level, todo, status, errVars, received, waitVars, panicked>>

\* The rest of the destructor; then an exception goes on to a panic.
Close(s) ==
  /\ ~panicked /\ pc[s] = "close" /\ Joined(s)
  /\ IF result[s] \in {"ok", "stopped"}
     THEN /\ CloseStderr(s) /\ pc' = [pc EXCEPT ![s] = "done"]
          /\ UNCHANGED <<result, panicked>>
     ELSE Panic(s, result[s])
  /\ UNCHANGED <<command, level, todo, status, errVars, received, waitVars>>

----------------------------------------------------------------------------
\* appendStderr: the last TailSize chunks are kept.
appendStderr(text, chunk) ==
  LET all == Append(text, chunk)
  IN IF Len(all) > TailSize THEN SubSeq(all, Len(all) - TailSize + 1, Len(all)) ELSE all

\* drainStderr(), in its thread.
DrainChunk(s) ==
  /\ ~panicked /\ drainer[s] = "running" /\ level[Err(s)] > 0
  /\ level' = [level EXCEPT ![Err(s)] = @ - 1]
  /\ received' = [received EXCEPT ![Err(s)] = @ + 1]
  /\ stderr_' = [stderr_ EXCEPT ![s] = appendStderr(@, received[Err(s)] + 1)]
  /\ UNCHANGED <<command, holds, todo, status, pc, drainer, waitVars, result, panicked>>

DrainEnd(s) ==
  /\ ~panicked /\ drainer[s] = "running" /\ level[Err(s)] = 0 /\ ~Held(Write(Err(s)))
  /\ drainer' = [drainer EXCEPT ![s] = "ended"]
  /\ CloseStderr(s)
  /\ UNCHANGED <<command, level, todo, status, pc, stderr_, received, waitVars, result, panicked>>

\* Its read() fails: the thread ends and the read end stays open.
DrainError(s) ==
  /\ s \in DrainErrors
  /\ ~panicked /\ drainer[s] = "running"
  /\ drainer' = [drainer EXCEPT ![s] = "failed"]
  /\ UNCHANGED <<command, procVars, pc, stderr_, received, waitVars, result, panicked>>

----------------------------------------------------------------------------
\* The command (external): it writes, is ended by SIGPIPE when a pipe is
\* broken, waits when it is full, and exits; a shell waits for its job.
WriteChunk(s, p) ==
  /\ status[Writer(s)] = "running" /\ todo[p] > 0
  /\ IF Held(Read(p))
     THEN /\ level[p] < Capacity
          /\ level' = [level EXCEPT ![p] = @ + 1]
          /\ todo' = [todo EXCEPT ![p] = @ - 1]
          /\ UNCHANGED <<status, holds>>
     ELSE /\ End(Writer(s), "signalled")
          /\ UNCHANGED <<level, todo>>
  /\ UNCHANGED <<command, pc, errVars, received, waitVars, result, panicked>>

Exit(s) ==
  /\ status[Writer(s)] = "running" /\ todo[Out(s)] = 0 /\ todo[Err(s)] = 0
  /\ End(Writer(s), exited(command[s].code))
  /\ UNCHANGED <<command, level, todo, pc, errVars, received, waitVars, result, panicked>>

ShellExit(s) ==
  /\ command[s].job /\ status[Shell(s)] = "running" /\ status[Job(s)] \in Ended
  /\ End(Shell(s), IF status[Job(s)] = "exited0" THEN "exited0" ELSE "exited1")
  /\ UNCHANGED <<command, level, todo, pc, errVars, received, waitVars, result, panicked>>

----------------------------------------------------------------------------
Start(s) ==
  \/ MakePipe(s, Out(s), "new", "pipe_stderr")
  \/ MakePipe(s, Err(s), "pipe_stderr", "fork")
  \/ Fork(s) \/ CloseChildStdout(s) \/ CloseChildStderr(s)
Reading(s) == ReadChunk(s) \/ ReadEnd(s)
Finish(s) ==
  \/ Wait(s) \/ WaitError(s) \/ Join(s)
  \/ Destroy(s) \/ Kill(s) \/ Reap(s) \/ Close(s)
Drainer(s) == DrainChunk(s) \/ DrainEnd(s)
Processes(s) == WriteChunk(s, Out(s)) \/ WriteChunk(s, Err(s)) \/ Exit(s) \/ ShellExit(s)
\* What need not happen: calls that fail, and consumers that leave.
Chance(s) == StartFails(s) \/ ReadError(s) \/ DrainError(s) \/ Stop(s)

Finished == panicked \/ \A s \in Streams : pc[s] = "done"

Next ==
  \/ \E s \in Streams :
       Start(s) \/ Reading(s) \/ Finish(s) \/ Drainer(s) \/ Processes(s) \/ Chance(s)
  \/ Finished /\ UNCHANGED vars

Spec == Init /\ [][Next]_vars

\* Every thread and every process runs.
Fairness ==
  \A s \in Streams : /\ WF_vars(Start(s)) /\ WF_vars(Reading(s)) /\ WF_vars(Finish(s))
                     /\ WF_vars(Drainer(s)) /\ WF_vars(Processes(s))
FairSpec == Spec /\ Fairness
----------------------------------------------------------------------------
\* A stream that ended normally delivered every chunk its command wrote, and
\* the command succeeded: neither a fork of another stream nor a shell that
\* ends before its job makes the reader see the end too early.
NothingLost ==
  \A s \in Streams : result[s] = "ok" =>
    /\ received[Out(s)] = command[s].out
    /\ status[Shell(s)] = "exited0" /\ command[s].code = 0

\* The last of the first n chunks: TailSize of them, or all.
kept(n) == IF n < TailSize THEN n ELSE TailSize
lastChunks(n) == [k \in 1..kept(n) |-> n - kept(n) + k]

\* The error that reports a failed command quotes the end of all that it wrote
\* to its standard error, although another thread reads that: nothing written
\* before the command ended is missing, unless a read of that thread failed, and
\* then it is the end of what was read.
ErrorTextTail ==
  \A s \in Streams : result[s] = "failed" =>
    LET written == command[s].err - todo[Err(s)]
    IN stderr_[s] = lastChunks(IF drainer[s] = "failed" THEN received[Err(s)] ELSE written)

\* No path through wait(), terminate() and the destructor sends a signal after a
\* waitpid that returned the child, when its pid may belong to another process;
\* and every path reaps the child, unless waitpid fails or there is no stream.
ReapedOnce ==
  \A s \in Streams :
    /\ pc[s] = "terminate" /\ ~finished_[s] => ~reaped[s]
    /\ pc[s] = "done" /\ ~reaped[s] => s \in WaitErrors \/ result[s] = "start_error"

\* When a stream has been closed its shell has ended.  What may be left is a job
\* of a stream that was not read to its end, for the signal went to the shell, and
\* one that the drainer did not wait for: it redirects its standard error, or a
\* read of the drainer failed.
NoLeftover ==
  \A s \in Streams : pc[s] = "done" /\ result[s] # "start_error" =>
    /\ status[Shell(s)] # "running"
    /\ status[Job(s)] = "running" =>
         /\ result[s] \in {"stopped", "read_error"}
         /\ command[s].redirects \/ drainer[s] = "failed"

\* Every stream that is read or stopped is closed: no process and no thread
\* waits for another for ever.  Once a read of a drainer has failed a command can
\* wait for ever to write to its standard error, which the program keeps open.
StreamsClose == <>(Finished \/ \E s \in Streams : drainer[s] = "failed")
=============================================================================
