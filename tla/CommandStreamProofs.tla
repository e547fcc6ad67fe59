------------------------ MODULE CommandStreamProofs ------------------------
(***************************************************************************)
(* For any number of streams, any commands, any capacity of the pipes and  *)
(* any calls that fail: a stream that ended well delivered all its command *)
(* wrote, an error quotes the end of the standard error, no child is sent  *)
(* a signal once it has been waited for, and what may outlive a stream     *)
(* that was closed is a job the signal did not reach.                      *)
(*                                                                         *)
(* The argument is about the end of a pipe.  A process of a stream that is *)
(* running holds the write ends of that stream's pipes, because it was     *)
(* forked while the program had them open, less a standard error that it   *)
(* redirects.  So when a reader sees the end no process that could write   *)
(* runs any more, whoever else was forked in the meantime; nothing is      *)
(* written after that, and what was written has been received, since       *)
(* chunks are conserved.                                                   *)
(***************************************************************************)
EXTENDS CommandStream, TLAPS

Locations == {"new", "pipe_stderr", "fork", "close_stdout", "close_stderr",
              "reading", "wait", "join", "destroy", "terminate", "reap", "close", "done"}
Statuses == {"none", "running"} \cup Ended
Results == {"none", "ok", "failed", "start_error", "read_error", "wait_error", "stopped"}

Types ==
  /\ command \in [Streams -> CommandType]
  /\ holds \in [Children \cup {Program} -> SUBSET (Pipes \X {"r", "w"})]
  /\ level \in [Pipes -> Nat] /\ todo \in [Pipes -> Nat] /\ received \in [Pipes -> Nat]
  /\ status \in [Children -> Statuses]
  /\ pc \in [Streams -> Locations]
  /\ drainer \in [Streams -> {"none", "running", "ended", "failed"}]
  /\ DOMAIN stderr_ = Streams /\ stderr_ = [s \in Streams |-> stderr_[s]]
  /\ finished_ \in [Streams -> BOOLEAN] /\ reaped \in [Streams -> BOOLEAN]
  /\ result \in [Streams -> Results]
  /\ panicked \in BOOLEAN

\* No process of the stream runs.
Quiet(s) == status[Shell(s)] # "running" /\ status[Job(s)] # "running"

\* Chunks are conserved, and the end of those that were drained is kept.
Conserved(s) ==
  /\ received[Out(s)] + level[Out(s)] + todo[Out(s)] = command[s].out
  /\ received[Err(s)] + level[Err(s)] + todo[Err(s)] = command[s].err
  /\ command[s].redirects => command[s].err = 0
TailKept(s) == stderr_[s] = lastChunks(received[Err(s)])

\* The program has the write ends of a stream open when it forks, and a
\* running process of the stream keeps those it does not redirect.
WriteEnds(s) ==
  /\ ~panicked /\ pc[s] \in {"pipe_stderr", "fork"} => Write(Out(s)) \in holds[Program]
  /\ ~panicked /\ pc[s] = "fork" => Write(Err(s)) \in holds[Program]
  /\ \A p \in {Shell(s), Job(s)} : status[p] = "running" =>
       /\ Write(Out(s)) \in holds[p]
       /\ command[s].redirects \/ Write(Err(s)) \in holds[p]

\* Before the fork there is nothing to wait for or to drain.
Starting(s) ==
  /\ pc[s] \in {"new", "pipe_stderr", "fork"} =>
       status[Shell(s)] = "none" /\ status[Job(s)] = "none"
  /\ pc[s] \in {"new", "pipe_stderr", "fork", "close_stdout", "close_stderr"} =>
       drainer[s] = "none"
  /\ ~command[s].job => status[Job(s)] = "none"

\* How a process ended says what it has written.
Exits(s) ==
  /\ status[Writer(s)] \in {"exited0", "exited1"} => todo[Out(s)] = 0 /\ todo[Err(s)] = 0
  /\ status[Writer(s)] = "exited0" => command[s].code = 0
  /\ command[s].job /\ status[Shell(s)] = "exited0" => status[Job(s)] = "exited0"

\* The stream was read to its end.
ReadOut(s) == pc[s] \in {"wait", "join"} \/ result[s] \in {"ok", "failed", "wait_error"}

\* Past the end of a pipe it is empty and nobody writes.
Over(s) ==
  /\ drainer[s] = "ended" => level[Err(s)] = 0 /\ (command[s].redirects \/ Quiet(s))
  /\ ReadOut(s) => level[Out(s)] = 0 /\ Quiet(s)
  /\ result[s] \in {"ok", "failed"} => Joined(s)
  /\ pc[s] = "done" /\ result[s] # "start_error" => Joined(s)

\* finished_ says that the child is gone.
Reaping(s) ==
  /\ reaped[s] => finished_[s]
  /\ finished_[s] => status[Shell(s)] \in Ended /\ (reaped[s] \/ s \in WaitErrors)
  /\ pc[s] \in {"new", "pipe_stderr", "fork", "close_stdout", "close_stderr", "reading",
                "wait", "terminate", "reap"} => ~finished_[s]
  /\ pc[s] \in {"join", "close"} => finished_[s]
  /\ pc[s] = "done" /\ result[s] # "start_error" => finished_[s]

Told(s) ==
  /\ pc[s] \in {"new", "pipe_stderr", "fork", "close_stdout", "close_stderr", "reading",
                "wait", "join"} => result[s] = "none"
  /\ pc[s] \in {"terminate", "reap"} => result[s] \in {"read_error", "stopped", "wait_error"}
  /\ pc[s] \in {"destroy", "close"} => result[s] \notin {"none", "start_error"}
  /\ pc[s] = "done" => result[s] # "none"
  /\ result[s] \in {"ok", "failed"} => finished_[s]
  /\ result[s] = "ok" => status[Shell(s)] = "exited0"

StreamInv(s) ==
  /\ Conserved(s) /\ TailKept(s) /\ WriteEnds(s) /\ Starting(s) /\ Exits(s)
  /\ Over(s) /\ Reaping(s) /\ Told(s)

IInv == Types /\ \A s \in Streams : StreamInv(s)
----------------------------------------------------------------------------
\* Pipes, pipe ends and processes of different streams are different.
LEMMA Names ==
  /\ \A s \in Streams : /\ Out(s) \in Pipes /\ Err(s) \in Pipes
                        /\ Shell(s) \in Children /\ Job(s) \in Children
                        /\ Shell(s) # Program /\ Job(s) # Program
  /\ \A s, t \in Streams : Out(s) # Err(t) /\ Shell(s) # Job(t)
  /\ \A s, t \in Streams : s # t =>
       Out(s) # Out(t) /\ Err(s) # Err(t) /\ Shell(s) # Shell(t) /\ Job(s) # Job(t)
  /\ \A p, q \in Pipes : Read(p) # Write(q) /\ (p # q => Write(p) # Write(q))
  /\ \A p \in Pipes : Read(p) \in Pipes \X {"r", "w"} /\ Write(p) \in Pipes \X {"r", "w"}
  /\ Program \notin Children
<1> QED
  BY DEF Pipes, Children, Out, Err, Shell, Job, Program, Read, Write

\* The end of n + 1 chunks is the end of n of them with the last one appended.
LEMMA TailGrows ==
  ASSUME NEW n \in Nat
  PROVE  appendStderr(lastChunks(n), n + 1) = lastChunks(n + 1)
<1> USE StreamAssumption
<1>1. kept(n) \in Nat /\ kept(n) <= n /\ kept(n + 1) \in Nat
  BY DEF kept
<1>2. lastChunks(n) \in Seq(Int) /\ Len(lastChunks(n)) = kept(n)
  BY <1>1 DEF lastChunks
<1> DEFINE all == Append(lastChunks(n), n + 1)
<1>3. /\ all \in Seq(Int) /\ Len(all) = kept(n) + 1
      /\ \A k \in 1..kept(n) + 1 : all[k] = n - kept(n) + k
  <2>1. all \in Seq(Int) /\ Len(all) = kept(n) + 1 /\ all[kept(n) + 1] = n + 1
    BY <1>1, <1>2
  <2>2. ASSUME NEW k \in 1..kept(n) PROVE all[k] = n - kept(n) + k
    BY <1>1, <1>2 DEF lastChunks
  <2> QED
    BY <1>1, <2>1, <2>2
<1> HIDE DEF all
<1>4. CASE n < TailSize
  <2>1. kept(n) = n /\ kept(n + 1) = n + 1
    BY <1>4 DEF kept
  <2>2. appendStderr(lastChunks(n), n + 1) = all
    BY <1>3, <1>4, <2>1 DEF appendStderr, all
  <2>3. all = lastChunks(n + 1)
    BY <1>3, <2>1 DEF lastChunks
  <2> QED
    BY <2>2, <2>3
<1>5. CASE n >= TailSize
  <2>1. kept(n) = TailSize /\ kept(n + 1) = TailSize
    BY <1>5 DEF kept
  <2>2. appendStderr(lastChunks(n), n + 1) = SubSeq(all, 2, TailSize + 1)
    <3>1. Len(all) > TailSize /\ Len(all) - TailSize + 1 = 2 /\ Len(all) = TailSize + 1
      BY <1>3, <2>1
    <3>2. appendStderr(lastChunks(n), n + 1) =
            IF Len(all) > TailSize THEN SubSeq(all, Len(all) - TailSize + 1, Len(all)) ELSE all
      BY DEF appendStderr, all
    <3> QED
      BY <3>1, <3>2
  <2>3. SubSeq(all, 2, TailSize + 1) = lastChunks(n + 1)
    BY <1>3, <2>1 DEF lastChunks
  <2> QED
    BY <2>2, <2>3
<1> QED
  BY <1>4, <1>5

\* What a step of stream s leaves alone of a stream t.
Same(t) ==
  /\ pc'[t] = pc[t] /\ drainer'[t] = drainer[t] /\ stderr_'[t] = stderr_[t]
  /\ finished_'[t] = finished_[t] /\ reaped'[t] = reaped[t] /\ result'[t] = result[t]
  /\ \A p \in {Out(t), Err(t)} :
       level'[p] = level[p] /\ todo'[p] = todo[p] /\ received'[p] = received[p]
  /\ \A p \in {Shell(t), Job(t)} : status'[p] = status[p] /\ holds'[p] = holds[p]

\* The program closes no write end of t, unless it panics.
Keeps(t) ==
  ~panicked' => /\ ~panicked
                /\ \A e \in {Write(Out(t)), Write(Err(t))} :
                     e \in holds[Program] => e \in holds'[Program]

\* A stream that a step does not touch keeps its invariant.
LEMMA Elsewhere ==
  ASSUME NEW t \in Streams, StreamInv(t), command' = command, Same(t), Keeps(t)
  PROVE  StreamInv(t)'
<1> USE DEF StreamInv, Same, Keeps
<1>1. Conserved(t)' /\ TailKept(t)' /\ Starting(t)' /\ Reaping(t)' /\ Told(t)'
  BY DEF Conserved, TailKept, lastChunks, kept, Starting, Reaping, Told
<1>2. WriteEnds(t)'
  BY DEF WriteEnds
<1>3. Exits(t)'
  BY DEF Exits, Writer
<1>4. Over(t)'
  BY DEF Over, Quiet, ReadOut, Joined
<1> QED
  BY <1>1, <1>2, <1>3, <1>4

\* A step of one stream: that stream is looked at, the others are untouched.
LEMMA StepOf ==
  ASSUME IInv, NEW s \in Streams, Types', command' = command,
         \A t \in Streams : t # s => Same(t) /\ Keeps(t), StreamInv(s)'
  PROVE  IInv'
<1>1. ASSUME NEW t \in Streams PROVE StreamInv(t)'
  BY <1>1, Elsewhere DEF IInv
<1> QED
  BY <1>1 DEF IInv

\* The program opens the pipes of a stream, ...
LEMMA OpenStep ==
  ASSUME IInv, NEW s \in Streams,
         NEW p \in {Out(s), Err(s)}, NEW from, NEW to \in Locations, MakePipe(s, p, from, to),
         \/ p = Out(s) /\ from = "new" /\ to = "pipe_stderr"
         \/ p = Err(s) /\ from = "pipe_stderr" /\ to = "fork"
  PROVE  IInv'
<1> USE Names DEF IInv, MakePipe, Go, programHolds, errVars, waitVars
<1>1. Types'
  BY DEF Types
<1>2. ASSUME NEW t \in Streams, t # s PROVE Same(t) /\ Keeps(t)
  BY <1>2 DEF Types, Same, Keeps
<1>3. Conserved(s)'
  BY DEF Types, StreamInv, Conserved
<1>4. TailKept(s)'
  BY DEF Types, StreamInv, TailKept, lastChunks, kept
<1>5. WriteEnds(s)' /\ Starting(s)'
  BY DEF Types, StreamInv, WriteEnds, Starting, Over
<1>6. Exits(s)'
  BY DEF Types, StreamInv, Exits, Writer
<1>7. Over(s)'
  BY DEF Types, StreamInv, Over, Joined, Quiet, ReadOut, Told
<1>8. Reaping(s)'
  BY DEF Types, StreamInv, Reaping, Ended, Told
<1>9. Told(s)'
  BY DEF Types, StreamInv, Told, Results, Reaping
<1> QED
  BY <1>1, <1>2, <1>3, <1>4, <1>5, <1>6, <1>7, <1>8, <1>9, StepOf DEF StreamInv

\* ... whose write ends the processes start with; ...
LEMMA ForkStep ==
  ASSUME IInv, NEW s \in Streams, Fork(s)
  PROVE  IInv'
<1> USE Names DEF IInv, Fork, Writer, Go, errVars, waitVars
<1>1. Types'
  BY DEF Types, Locations, Statuses, Ended, Results
<1>2. ASSUME NEW t \in Streams, t # s PROVE Same(t) /\ Keeps(t)
  BY <1>2 DEF Types, Same, Keeps
<1>3. Conserved(s)'
  BY DEF Types, StreamInv, Conserved
<1>4. TailKept(s)'
  BY DEF Types, StreamInv, TailKept, lastChunks, kept
<1>5. WriteEnds(s)' /\ Starting(s)'
  BY DEF Types, StreamInv, WriteEnds, Starting, Over
<1>6. Exits(s)'
  BY DEF Types, StreamInv, Exits, Writer
<1>7. Over(s)'
  BY DEF Types, StreamInv, Over, Joined, Quiet, ReadOut, Told, Starting
<1>8. Reaping(s)'
  BY DEF Types, StreamInv, Reaping, Ended, Told, Starting
<1>9. Told(s)'
  BY DEF Types, StreamInv, Told, Results, Reaping
<1> QED
  BY <1>1, <1>2, <1>3, <1>4, <1>5, <1>6, <1>7, <1>8, <1>9, StepOf DEF StreamInv

\* ... and closes its copy of the write end of the standard output, ...
LEMMA CloseOutStep ==
  ASSUME IInv, NEW s \in Streams, CloseChildStdout(s)
  PROVE  IInv'
<1> USE Names DEF IInv, CloseChildStdout, Go, programHolds, errVars, waitVars
<1>1. Types'
  BY DEF Types, Locations, Statuses, Ended, Results
<1>2. ASSUME NEW t \in Streams, t # s PROVE Same(t) /\ Keeps(t)
  BY <1>2 DEF Types, Same, Keeps
<1>3. Conserved(s)'
  BY DEF Types, StreamInv, Conserved
<1>4. TailKept(s)'
  BY DEF Types, StreamInv, TailKept, lastChunks, kept
<1>5. WriteEnds(s)' /\ Starting(s)'
  BY DEF Types, StreamInv, WriteEnds, Starting, Over
<1>6. Exits(s)'
  BY DEF Types, StreamInv, Exits, Writer
<1>7. Over(s)'
  BY DEF Types, StreamInv, Over, Joined, Quiet, ReadOut, Told
<1>8. Reaping(s)'
  BY DEF Types, StreamInv, Reaping, Ended, Told
<1>9. Told(s)'
  BY DEF Types, StreamInv, Told, Results, Reaping
<1> QED
  BY <1>1, <1>2, <1>3, <1>4, <1>5, <1>6, <1>7, <1>8, <1>9, StepOf DEF StreamInv

\* ... and of the standard error, and the drainer starts.
LEMMA CloseErrStep ==
  ASSUME IInv, NEW s \in Streams, CloseChildStderr(s)
  PROVE  IInv'
<1> USE Names DEF IInv, CloseChildStderr, Go, programHolds, waitVars
<1>1. Types'
  BY DEF Types, Locations, Statuses, Ended, Results
<1>2. ASSUME NEW t \in Streams, t # s PROVE Same(t) /\ Keeps(t)
  BY <1>2 DEF Types, Same, Keeps
<1>3. Conserved(s)'
  BY DEF Types, StreamInv, Conserved
<1>4. TailKept(s)'
  BY DEF Types, StreamInv, TailKept, lastChunks, kept
<1>5. WriteEnds(s)' /\ Starting(s)'
  BY DEF Types, StreamInv, WriteEnds, Starting, Over
<1>6. Exits(s)'
  BY DEF Types, StreamInv, Exits, Writer
<1>7. Over(s)'
  BY DEF Types, StreamInv, Over, Joined, Quiet, ReadOut, Told
<1>8. Reaping(s)'
  BY DEF Types, StreamInv, Reaping, Ended, Told
<1>9. Told(s)'
  BY DEF Types, StreamInv, Told, Results, Reaping
<1> QED
  BY <1>1, <1>2, <1>3, <1>4, <1>5, <1>6, <1>7, <1>8, <1>9, StepOf DEF StreamInv

\* There is no pipe, no child or no thread.
LEMMA StartFailsStep ==
  ASSUME IInv, NEW s \in Streams, StartFails(s)
  PROVE  IInv'
<1> USE Names DEF IInv, StartFails, Panic, programHolds, errVars, waitVars
<1>1. Types'
  BY DEF Types, Locations, Statuses, Ended, Results
<1>2. ASSUME NEW t \in Streams, t # s PROVE Same(t) /\ Keeps(t)
  BY <1>2 DEF Types, Same, Keeps
<1>3. Conserved(s)'
  BY DEF Types, StreamInv, Conserved
<1>4. TailKept(s)'
  BY DEF Types, StreamInv, TailKept, lastChunks, kept
<1>5. WriteEnds(s)' /\ Starting(s)'
  BY DEF Types, StreamInv, WriteEnds, Starting, Over
<1>6. Exits(s)'
  BY DEF Types, StreamInv, Exits, Writer
<1>7. Over(s)'
  BY DEF Types, StreamInv, Over, Joined, Quiet, ReadOut, Told
<1>8. Reaping(s)'
  BY DEF Types, StreamInv, Reaping, Ended, Told
<1>9. Told(s)'
  BY DEF Types, StreamInv, Told, Results, Reaping
<1> QED
  BY <1>1, <1>2, <1>3, <1>4, <1>5, <1>6, <1>7, <1>8, <1>9, StepOf DEF StreamInv

\* A chunk is read.
LEMMA ReadStep ==
  ASSUME IInv, NEW s \in Streams, ReadChunk(s)
  PROVE  IInv'
<1> USE Names DEF IInv, ReadChunk, errVars, waitVars
<1>1. Types'
  <2>1. level[Out(s)] \in Nat /\ level[Out(s)] - 1 \in Nat /\ received[Out(s)] + 1 \in Nat
    BY DEF Types
  <2> QED
    BY <2>1 DEF Types
<1>2. ASSUME NEW t \in Streams, t # s PROVE Same(t) /\ Keeps(t)
  BY <1>2 DEF Types, Same, Keeps
<1>3. Conserved(s)'
  <2>1. /\ level'[Out(s)] = level[Out(s)] - 1 /\ received'[Out(s)] = received[Out(s)] + 1
        /\ level[Out(s)] \in Nat /\ received[Out(s)] \in Nat /\ todo[Out(s)] \in Nat
        /\ \A q \in Pipes : q # Out(s) => level'[q] = level[q] /\ received'[q] = received[q]
        /\ todo' = todo /\ command' = command
    BY DEF Types
  <2> QED
    BY <2>1 DEF StreamInv, Conserved
<1>4. TailKept(s)'
  BY DEF Types, StreamInv, TailKept, lastChunks, kept
<1>5. WriteEnds(s)' /\ Starting(s)'
  BY DEF Types, StreamInv, WriteEnds, Starting, Over
<1>6. Exits(s)'
  BY DEF Types, StreamInv, Exits, Writer
<1>7. Over(s)'
  BY DEF Types, StreamInv, Over, Joined, Quiet, ReadOut, Told
<1>8. Reaping(s)'
  BY DEF Types, StreamInv, Reaping, Ended, Told
<1>9. Told(s)'
  BY DEF Types, StreamInv, Told, Results, Reaping
<1> QED
  BY <1>1, <1>2, <1>3, <1>4, <1>5, <1>6, <1>7, <1>8, <1>9, StepOf DEF StreamInv

\* The drainer reads a chunk.
LEMMA DrainStep ==
  ASSUME IInv, NEW s \in Streams, DrainChunk(s)
  PROVE  IInv'
<1> USE Names DEF IInv, DrainChunk, waitVars
<1>1. Types'
  <2>1. level[Err(s)] \in Nat /\ level[Err(s)] - 1 \in Nat /\ received[Err(s)] + 1 \in Nat
    BY DEF Types
  <2> QED
    BY <2>1 DEF Types
<1>2. ASSUME NEW t \in Streams, t # s PROVE Same(t) /\ Keeps(t)
  BY <1>2 DEF Types, Same, Keeps
<1>3. Conserved(s)'
  <2>1. /\ level'[Err(s)] = level[Err(s)] - 1 /\ received'[Err(s)] = received[Err(s)] + 1
        /\ level[Err(s)] \in Nat /\ received[Err(s)] \in Nat /\ todo[Err(s)] \in Nat
        /\ \A q \in Pipes : q # Err(s) => level'[q] = level[q] /\ received'[q] = received[q]
        /\ todo' = todo /\ command' = command
    BY DEF Types
  <2> QED
    BY <2>1 DEF StreamInv, Conserved
<1>4. TailKept(s)'
  <2>1. received[Err(s)] \in Nat /\ received'[Err(s)] = received[Err(s)] + 1
    BY DEF Types
  <2>2. stderr_'[s] = appendStderr(stderr_[s], received[Err(s)] + 1)
    BY DEF Types
  <2>3. stderr_[s] = lastChunks(received[Err(s)])
    BY DEF StreamInv, TailKept
  <2>4. lastChunks(received[Err(s)])' = lastChunks(received'[Err(s)])
    BY DEF lastChunks, kept
  <2> HIDE DEF IInv, DrainChunk
  <2> QED
    BY <2>1, <2>2, <2>3, <2>4, TailGrows DEF TailKept
<1>5. WriteEnds(s)' /\ Starting(s)'
  BY DEF Types, StreamInv, WriteEnds, Starting, Over
<1>6. Exits(s)'
  BY DEF Types, StreamInv, Exits, Writer
<1>7. Over(s)'
  BY DEF Types, StreamInv, Over, Joined, Quiet, ReadOut, Told
<1>8. Reaping(s)'
  BY DEF Types, StreamInv, Reaping, Ended, Told
<1>9. Told(s)'
  BY DEF Types, StreamInv, Told, Results, Reaping
<1> QED
  BY <1>1, <1>2, <1>3, <1>4, <1>5, <1>6, <1>7, <1>8, <1>9, StepOf DEF StreamInv

\* The drainer sees the end of its pipe.
LEMMA DrainEndStep ==
  ASSUME IInv, NEW s \in Streams, DrainEnd(s)
  PROVE  IInv'
<1> USE Names DEF IInv, DrainEnd, CloseStderr, Held, programHolds, waitVars
<1>1. Types'
  BY DEF Types, Locations, Statuses, Ended, Results
<1>2. ASSUME NEW t \in Streams, t # s PROVE Same(t) /\ Keeps(t)
  BY <1>2 DEF Types, Same, Keeps
<1>3. Conserved(s)'
  BY DEF Types, StreamInv, Conserved
<1>4. TailKept(s)'
  BY DEF Types, StreamInv, TailKept, lastChunks, kept
<1>5. WriteEnds(s)' /\ Starting(s)'
  BY DEF Types, StreamInv, WriteEnds, Starting, Over
<1>6. Exits(s)'
  BY DEF Types, StreamInv, Exits, Writer
<1>7. Over(s)'
  BY DEF Types, StreamInv, Over, Joined, Quiet, ReadOut, Told, WriteEnds
<1>8. Reaping(s)'
  BY DEF Types, StreamInv, Reaping, Ended, Told
<1>9. Told(s)'
  BY DEF Types, StreamInv, Told, Results, Reaping
<1> QED
  BY <1>1, <1>2, <1>3, <1>4, <1>5, <1>6, <1>7, <1>8, <1>9, StepOf DEF StreamInv

\* A read of the drainer fails.
LEMMA DrainErrorStep ==
  ASSUME IInv, NEW s \in Streams, DrainError(s)
  PROVE  IInv'
<1> USE Names DEF IInv, DrainError, waitVars, procVars
<1>1. Types'
  BY DEF Types, Locations, Statuses, Ended, Results
<1>2. ASSUME NEW t \in Streams, t # s PROVE Same(t) /\ Keeps(t)
  BY <1>2 DEF Types, Same, Keeps
<1>3. Conserved(s)'
  BY DEF Types, StreamInv, Conserved
<1>4. TailKept(s)'
  BY DEF Types, StreamInv, TailKept, lastChunks, kept
<1>5. WriteEnds(s)' /\ Starting(s)'
  BY DEF Types, StreamInv, WriteEnds, Starting, Over
<1>6. Exits(s)'
  BY DEF Types, StreamInv, Exits, Writer
<1>7. Over(s)'
  BY DEF Types, StreamInv, Over, Joined, Quiet, ReadOut, Told
<1>8. Reaping(s)'
  BY DEF Types, StreamInv, Reaping, Ended, Told
<1>9. Told(s)'
  BY DEF Types, StreamInv, Told, Results, Reaping
<1> QED
  BY <1>1, <1>2, <1>3, <1>4, <1>5, <1>6, <1>7, <1>8, <1>9, StepOf DEF StreamInv

\* The reader sees the end of the standard output: no process of the
\* stream runs.
LEMMA EndStep ==
  ASSUME IInv, NEW s \in Streams, ReadEnd(s)
  PROVE  IInv'
<1> USE Names DEF IInv, ReadEnd, ReadEof, Held, CloseStdout, Go, programHolds, errVars, waitVars
<1>1. Types'
  BY DEF Types, Locations, Statuses, Ended, Results
<1>2. ASSUME NEW t \in Streams, t # s PROVE Same(t) /\ Keeps(t)
  BY <1>2 DEF Types, Same, Keeps
<1>3. Conserved(s)'
  BY DEF Types, StreamInv, Conserved
<1>4. TailKept(s)'
  BY DEF Types, StreamInv, TailKept, lastChunks, kept
<1>5. WriteEnds(s)' /\ Starting(s)'
  BY DEF Types, StreamInv, WriteEnds, Starting, Over
<1>6. Exits(s)'
  BY DEF Types, StreamInv, Exits, Writer
<1>7. Over(s)'
  BY DEF Types, StreamInv, Over, Joined, Quiet, ReadOut, Told, WriteEnds
<1>8. Reaping(s)'
  BY DEF Types, StreamInv, Reaping, Ended, Told
<1>9. Told(s)'
  BY DEF Types, StreamInv, Told, Results, Reaping
<1> QED
  BY <1>1, <1>2, <1>3, <1>4, <1>5, <1>6, <1>7, <1>8, <1>9, StepOf DEF StreamInv

\* read() fails.
LEMMA ErrorStep ==
  ASSUME IInv, NEW s \in Streams, ReadError(s)
  PROVE  IInv'
<1> USE Names DEF IInv, ReadError, CloseStdout, Go, programHolds, errVars, waitVars
<1>1. Types'
  BY DEF Types, Locations, Statuses, Ended, Results
<1>2. ASSUME NEW t \in Streams, t # s PROVE Same(t) /\ Keeps(t)
  BY <1>2 DEF Types, Same, Keeps
<1>3. Conserved(s)'
  BY DEF Types, StreamInv, Conserved
<1>4. TailKept(s)'
  BY DEF Types, StreamInv, TailKept, lastChunks, kept
<1>5. WriteEnds(s)' /\ Starting(s)'
  BY DEF Types, StreamInv, WriteEnds, Starting, Over
<1>6. Exits(s)'
  BY DEF Types, StreamInv, Exits, Writer
<1>7. Over(s)'
  BY DEF Types, StreamInv, Over, Joined, Quiet, ReadOut, Told
<1>8. Reaping(s)'
  BY DEF Types, StreamInv, Reaping, Ended, Told
<1>9. Told(s)'
  BY DEF Types, StreamInv, Told, Results, Reaping
<1> QED
  BY <1>1, <1>2, <1>3, <1>4, <1>5, <1>6, <1>7, <1>8, <1>9, StepOf DEF StreamInv

\* The consumer leaves.
LEMMA StopStep ==
  ASSUME IInv, NEW s \in Streams, Stop(s)
  PROVE  IInv'
<1> USE Names DEF IInv, Stop, Go, errVars, waitVars, procVars
<1>1. Types'
  BY DEF Types, Locations, Statuses, Ended, Results
<1>2. ASSUME NEW t \in Streams, t # s PROVE Same(t) /\ Keeps(t)
  BY <1>2 DEF Types, Same, Keeps
<1>3. Conserved(s)'
  BY DEF Types, StreamInv, Conserved
<1>4. TailKept(s)'
  BY DEF Types, StreamInv, TailKept, lastChunks, kept
<1>5. WriteEnds(s)' /\ Starting(s)'
  BY DEF Types, StreamInv, WriteEnds, Starting, Over
<1>6. Exits(s)'
  BY DEF Types, StreamInv, Exits, Writer
<1>7. Over(s)'
  BY DEF Types, StreamInv, Over, Joined, Quiet, ReadOut, Told
<1>8. Reaping(s)'
  BY DEF Types, StreamInv, Reaping, Ended, Told
<1>9. Told(s)'
  BY DEF Types, StreamInv, Told, Results, Reaping
<1> QED
  BY <1>1, <1>2, <1>3, <1>4, <1>5, <1>6, <1>7, <1>8, <1>9, StepOf DEF StreamInv

\* The destructor starts.
LEMMA DestroyStep ==
  ASSUME IInv, NEW s \in Streams, Destroy(s)
  PROVE  IInv'
<1> USE Names DEF IInv, Destroy, CloseStdout, Go, programHolds, errVars, waitVars
<1>1. Types'
  BY DEF Types, Locations, Statuses, Ended, Results
<1>2. ASSUME NEW t \in Streams, t # s PROVE Same(t) /\ Keeps(t)
  BY <1>2 DEF Types, Same, Keeps
<1>3. Conserved(s)'
  BY DEF Types, StreamInv, Conserved
<1>4. TailKept(s)'
  BY DEF Types, StreamInv, TailKept, lastChunks, kept
<1>5. WriteEnds(s)' /\ Starting(s)'
  BY DEF Types, StreamInv, WriteEnds, Starting, Over
<1>6. Exits(s)'
  BY DEF Types, StreamInv, Exits, Writer
<1>7. Over(s)'
  BY DEF Types, StreamInv, Over, Joined, Quiet, ReadOut, Told
<1>8. Reaping(s)'
  BY DEF Types, StreamInv, Reaping, Ended, Told
<1>9. Told(s)'
  BY DEF Types, StreamInv, Told, Results, Reaping
<1> QED
  BY <1>1, <1>2, <1>3, <1>4, <1>5, <1>6, <1>7, <1>8, <1>9, StepOf DEF StreamInv

\* SIGTERM ends the shell, unless it has ended or ignores it.
LEMMA KillStep ==
  ASSUME IInv, NEW s \in Streams, Kill(s)
  PROVE  IInv'
<1> USE Names DEF IInv, Kill, End, returned, Go, errVars, waitVars
<1>1. Types'
  BY DEF Types, Locations, Statuses, Ended, Results
<1>2. ASSUME NEW t \in Streams, t # s PROVE Same(t) /\ Keeps(t)
  BY <1>2 DEF Types, Same, Keeps
<1>3. Conserved(s)'
  BY DEF Types, StreamInv, Conserved
<1>4. TailKept(s)'
  BY DEF Types, StreamInv, TailKept, lastChunks, kept
<1>5. WriteEnds(s)' /\ Starting(s)'
  BY DEF Types, StreamInv, WriteEnds, Starting, Over
<1>6. Exits(s)'
  BY DEF Types, StreamInv, Exits, Writer
<1>7. Over(s)'
  BY DEF Types, StreamInv, Over, Joined, Quiet, ReadOut, Told
<1>8. Reaping(s)'
  BY DEF Types, StreamInv, Reaping, Ended, Told
<1>9. Told(s)'
  BY DEF Types, StreamInv, Told, Results, Reaping
<1> QED
  BY <1>1, <1>2, <1>3, <1>4, <1>5, <1>6, <1>7, <1>8, <1>9, StepOf DEF StreamInv

\* The child that was terminated is waited for.
LEMMA ReapStep ==
  ASSUME IInv, NEW s \in Streams, Reap(s)
  PROVE  IInv'
<1> USE Names DEF IInv, Reap, waitpid, waitpidFails, returned, Go, errVars, procVars
<1>1. Types'
  BY DEF Types, Locations, Statuses, Ended, Results
<1>2. ASSUME NEW t \in Streams, t # s PROVE Same(t) /\ Keeps(t)
  BY <1>2 DEF Types, Same, Keeps
<1>3. Conserved(s)'
  BY DEF Types, StreamInv, Conserved
<1>4. TailKept(s)'
  BY DEF Types, StreamInv, TailKept, lastChunks, kept
<1>5. WriteEnds(s)' /\ Starting(s)'
  BY DEF Types, StreamInv, WriteEnds, Starting, Over
<1>6. Exits(s)'
  BY DEF Types, StreamInv, Exits, Writer
<1>7. Over(s)'
  BY DEF Types, StreamInv, Over, Joined, Quiet, ReadOut, Told
<1>8. Reaping(s)'
  BY DEF Types, StreamInv, Reaping, Ended, Told
<1>9. Told(s)'
  BY DEF Types, StreamInv, Told, Results, Reaping
<1> QED
  BY <1>1, <1>2, <1>3, <1>4, <1>5, <1>6, <1>7, <1>8, <1>9, StepOf DEF StreamInv

\* The child of a stream that was read to its end is waited for, ...
LEMMA WaitStep ==
  ASSUME IInv, NEW s \in Streams, Wait(s)
  PROVE  IInv'
<1> USE Names DEF IInv, Wait, waitpid, Go, errVars, procVars
<1>1. Types'
  BY DEF Types, Locations, Statuses, Ended, Results
<1>2. ASSUME NEW t \in Streams, t # s PROVE Same(t) /\ Keeps(t)
  BY <1>2 DEF Types, Same, Keeps
<1>3. Conserved(s)'
  BY DEF Types, StreamInv, Conserved
<1>4. TailKept(s)'
  BY DEF Types, StreamInv, TailKept, lastChunks, kept
<1>5. WriteEnds(s)' /\ Starting(s)'
  BY DEF Types, StreamInv, WriteEnds, Starting, Over
<1>6. Exits(s)'
  BY DEF Types, StreamInv, Exits, Writer
<1>7. Over(s)'
  BY DEF Types, StreamInv, Over, Joined, Quiet, ReadOut, Told
<1>8. Reaping(s)'
  BY DEF Types, StreamInv, Reaping, Ended, Told
<1>9. Told(s)'
  BY DEF Types, StreamInv, Told, Results, Reaping
<1> QED
  BY <1>1, <1>2, <1>3, <1>4, <1>5, <1>6, <1>7, <1>8, <1>9, StepOf DEF StreamInv

\* ... or cannot be.
LEMMA WaitErrorStep ==
  ASSUME IInv, NEW s \in Streams, WaitError(s)
  PROVE  IInv'
<1> USE Names DEF IInv, WaitError, waitpidFails, Go, errVars, waitVars, procVars
<1>1. Types'
  BY DEF Types, Locations, Statuses, Ended, Results
<1>2. ASSUME NEW t \in Streams, t # s PROVE Same(t) /\ Keeps(t)
  BY <1>2 DEF Types, Same, Keeps
<1>3. Conserved(s)'
  BY DEF Types, StreamInv, Conserved
<1>4. TailKept(s)'
  BY DEF Types, StreamInv, TailKept, lastChunks, kept
<1>5. WriteEnds(s)' /\ Starting(s)'
  BY DEF Types, StreamInv, WriteEnds, Starting, Over
<1>6. Exits(s)'
  BY DEF Types, StreamInv, Exits, Writer
<1>7. Over(s)'
  BY DEF Types, StreamInv, Over, Joined, Quiet, ReadOut, Told
<1>8. Reaping(s)'
  BY DEF Types, StreamInv, Reaping, Ended, Told
<1>9. Told(s)'
  BY DEF Types, StreamInv, Told, Results, Reaping
<1> QED
  BY <1>1, <1>2, <1>3, <1>4, <1>5, <1>6, <1>7, <1>8, <1>9, StepOf DEF StreamInv

\* The drainer is joined, and the reader is told the outcome.
LEMMA JoinStep ==
  ASSUME IInv, NEW s \in Streams, Join(s)
  PROVE  IInv'
<1> USE Names DEF IInv, Join, outcome, CloseStderr, Go, programHolds, errVars, waitVars
<1>1. Types'
  BY DEF Types, Locations, Statuses, Ended, Results
<1>2. ASSUME NEW t \in Streams, t # s PROVE Same(t) /\ Keeps(t)
  BY <1>2 DEF Types, Same, Keeps
<1>3. Conserved(s)'
  BY DEF Types, StreamInv, Conserved
<1>4. TailKept(s)'
  BY DEF Types, StreamInv, TailKept, lastChunks, kept
<1>5. WriteEnds(s)' /\ Starting(s)'
  BY DEF Types, StreamInv, WriteEnds, Starting, Over
<1>6. Exits(s)'
  BY DEF Types, StreamInv, Exits, Writer
<1>7. Over(s)'
  BY DEF Types, StreamInv, Over, Joined, Quiet, ReadOut, Told
<1>8. Reaping(s)'
  BY DEF Types, StreamInv, Reaping, Ended, Told
<1>9. Told(s)'
  BY DEF Types, StreamInv, Told, Results, Reaping
<1> QED
  BY <1>1, <1>2, <1>3, <1>4, <1>5, <1>6, <1>7, <1>8, <1>9, StepOf DEF StreamInv

\* The stream is closed, or the program panics.
LEMMA CloseStep ==
  ASSUME IInv, NEW s \in Streams, Close(s)
  PROVE  IInv'
<1> USE Names DEF IInv, Close, Panic, CloseStderr, programHolds, errVars, waitVars
<1>1. Types'
  <2>1. pc' \in [Streams -> Locations]
    BY DEF Types, Locations
  <2>2. panicked' \in BOOLEAN
    <3>1. panicked' = TRUE \/ panicked' = panicked
      OBVIOUS
    <3> QED
      BY <3>1 DEF Types
  <2>3. result' \in [Streams -> Results]
    BY DEF Types
  <2>4. holds' \in [Children \cup {Program} -> SUBSET (Pipes \X {"r", "w"})]
    BY DEF Types
  <2> QED
    BY <2>1, <2>2, <2>3, <2>4 DEF Types
<1>2. ASSUME NEW t \in Streams, t # s PROVE Same(t) /\ Keeps(t)
  BY <1>2 DEF Types, Same, Keeps
<1>3. Conserved(s)'
  BY DEF Types, StreamInv, Conserved
<1>4. TailKept(s)'
  BY DEF Types, StreamInv, TailKept, lastChunks, kept
<1>5. WriteEnds(s)' /\ Starting(s)'
  BY DEF Types, StreamInv, WriteEnds, Starting, Over
<1>6. Exits(s)'
  BY DEF Types, StreamInv, Exits, Writer
<1>7. Over(s)'
  BY DEF Types, StreamInv, Over, Joined, Quiet, ReadOut, Told
<1>8. Reaping(s)'
  BY DEF Types, StreamInv, Reaping, Ended, Told
<1>9. Told(s)'
  BY DEF Types, StreamInv, Told, Results, Reaping
<1> QED
  BY <1>1, <1>2, <1>3, <1>4, <1>5, <1>6, <1>7, <1>8, <1>9, StepOf DEF StreamInv

\* The command exits, having written everything.
LEMMA ExitStep ==
  ASSUME IInv, NEW s \in Streams, Exit(s)
  PROVE  IInv'
<1> USE Names DEF IInv, Exit, End, Writer, exited, errVars, waitVars
<1>1. Types'
  BY DEF Types, Locations, Statuses, Ended, Results
<1>2. ASSUME NEW t \in Streams, t # s PROVE Same(t) /\ Keeps(t)
  BY <1>2 DEF Types, Same, Keeps
<1>3. Conserved(s)'
  BY DEF Types, StreamInv, Conserved
<1>4. TailKept(s)'
  BY DEF Types, StreamInv, TailKept, lastChunks, kept
<1>5. WriteEnds(s)' /\ Starting(s)'
  BY DEF Types, StreamInv, WriteEnds, Starting, Over
<1>6. Exits(s)'
  BY DEF Types, StreamInv, Exits, Writer
<1>7. Over(s)'
  BY DEF Types, StreamInv, Over, Joined, Quiet, ReadOut, Told
<1>8. Reaping(s)'
  BY DEF Types, StreamInv, Reaping, Ended, Told
<1>9. Told(s)'
  BY DEF Types, StreamInv, Told, Results, Reaping
<1> QED
  BY <1>1, <1>2, <1>3, <1>4, <1>5, <1>6, <1>7, <1>8, <1>9, StepOf DEF StreamInv

\* The shell exits after its job.
LEMMA ShellStep ==
  ASSUME IInv, NEW s \in Streams, ShellExit(s)
  PROVE  IInv'
<1> USE Names DEF IInv, ShellExit, End, errVars, waitVars
<1>1. Types'
  BY DEF Types, Locations, Statuses, Ended, Results
<1>2. ASSUME NEW t \in Streams, t # s PROVE Same(t) /\ Keeps(t)
  BY <1>2 DEF Types, Same, Keeps
<1>3. Conserved(s)'
  BY DEF Types, StreamInv, Conserved
<1>4. TailKept(s)'
  BY DEF Types, StreamInv, TailKept, lastChunks, kept
<1>5. WriteEnds(s)' /\ Starting(s)'
  BY DEF Types, StreamInv, WriteEnds, Starting, Over
<1>6. Exits(s)'
  BY DEF Types, StreamInv, Exits, Writer
<1>7. Over(s)'
  BY DEF Types, StreamInv, Over, Joined, Quiet, ReadOut, Told
<1>8. Reaping(s)'
  BY DEF Types, StreamInv, Reaping, Ended, Told
<1>9. Told(s)'
  BY DEF Types, StreamInv, Told, Results, Reaping
<1> QED
  BY <1>1, <1>2, <1>3, <1>4, <1>5, <1>6, <1>7, <1>8, <1>9, StepOf DEF StreamInv

\* The write fails because nobody can read: the writer is ended by SIGPIPE.
LEMMA BreakStep ==
  ASSUME IInv, NEW s \in Streams, NEW p \in {Out(s), Err(s)}, WriteChunk(s, p), ~Held(Read(p))
  PROVE  IInv'
<1> USE Names DEF IInv, WriteChunk, End, Writer, errVars, waitVars
<1>1. Types'
  BY DEF Types, Statuses, Ended
<1>2. ASSUME NEW t \in Streams, t # s PROVE Same(t) /\ Keeps(t)
  BY <1>2 DEF Types, Same, Keeps
<1>3. Conserved(s)'
  BY DEF Types, StreamInv, Conserved
<1>4. TailKept(s)'
  BY DEF Types, StreamInv, TailKept, lastChunks, kept
<1>5. WriteEnds(s)' /\ Starting(s)'
  BY DEF Types, StreamInv, WriteEnds, Starting, Over
<1>6. Exits(s)'
  BY DEF Types, StreamInv, Exits, Writer
<1>7. Over(s)'
  BY DEF Types, StreamInv, Over, Joined, Quiet, ReadOut, Told
<1>8. Reaping(s)'
  BY DEF Types, StreamInv, Reaping, Ended, Told
<1>9. Told(s)'
  BY DEF Types, StreamInv, Told, Results, Reaping
<1> QED
  BY <1>1, <1>2, <1>3, <1>4, <1>5, <1>6, <1>7, <1>8, <1>9, StepOf DEF StreamInv

\* A chunk is written.
LEMMA WriteStep ==
  ASSUME IInv, NEW s \in Streams, NEW p \in {Out(s), Err(s)}, WriteChunk(s, p), Held(Read(p))
  PROVE  IInv'
<1> USE Names DEF IInv, WriteChunk, Writer, errVars, waitVars
<1>1. Types'
  <2>1. level[p] + 1 \in Nat /\ todo[p] \in Nat /\ todo[p] - 1 \in Nat
    BY DEF Types
  <2> QED
    BY <2>1 DEF Types
<1>2. ASSUME NEW t \in Streams, t # s PROVE Same(t) /\ Keeps(t)
  BY <1>2 DEF Types, Same, Keeps
<1>3. Conserved(s)'
  <2>1. /\ level'[p] = level[p] + 1 /\ todo'[p] = todo[p] - 1
        /\ level[p] \in Nat /\ received[p] \in Nat /\ todo[p] \in Nat
        /\ \A q \in Pipes : q # p => level'[q] = level[q] /\ todo'[q] = todo[q]
        /\ received' = received /\ command' = command
    BY DEF Types
  <2>2. Conserved(s)
    BY DEF StreamInv
  <2> HIDE Names DEF WriteChunk, IInv
  <2>3. received[p] + level'[p] + todo'[p] = received[p] + level[p] + todo[p]
    BY <2>1
  <2>4. CASE p = Out(s)
    BY <2>1, <2>2, <2>3, <2>4, Names DEF Conserved
  <2>5. CASE p = Err(s)
    BY <2>1, <2>2, <2>3, <2>5, Names DEF Conserved
  <2> QED
    BY <2>4, <2>5
<1>4. TailKept(s)'
  <2>1. received' = received /\ stderr_' = stderr_
    OBVIOUS
  <2> QED
    BY <2>1 DEF StreamInv, TailKept, lastChunks, kept
<1>5. WriteEnds(s)' /\ Starting(s)'
  BY DEF Types, StreamInv, WriteEnds, Starting, Over
<1>6. Exits(s)'
  BY DEF Types, StreamInv, Exits, Writer
<1>7. Over(s)'
  <2>1. drainer' = drainer /\ pc' = pc /\ result' = result /\ command' = command
    OBVIOUS
  <2>2. status' = status /\ ~Quiet(s) /\ todo[p] > 0
    BY DEF Quiet
  <2>3. ~ReadOut(s) /\ ~ReadOut(s)'
    BY <2>1, <2>2 DEF StreamInv, Over, ReadOut
  <2>4. ASSUME drainer[s] = "ended" PROVE level'[Err(s)] = 0 /\ command[s].redirects
    <3>1. command[s].redirects /\ level[Err(s)] = 0
      BY <2>2, <2>4 DEF StreamInv, Over
    <3>2. todo[Err(s)] = 0
      <4>1. received[Err(s)] \in Nat /\ todo[Err(s)] \in Nat
        BY DEF Types
      <4>2. received[Err(s)] + level[Err(s)] + todo[Err(s)] = 0
        BY <3>1 DEF StreamInv, Conserved
      <4> QED
        BY <3>1, <4>1, <4>2
    <3>3. p = Out(s)
      BY <2>2, <3>2
    <3> QED
      BY <3>1, <3>3 DEF Types
  <2> QED
    BY <2>1, <2>3, <2>4 DEF StreamInv, Over, Joined, ReadOut
<1>8. Reaping(s)'
  BY DEF Types, StreamInv, Reaping, Ended, Told
<1>9. Told(s)'
  BY DEF Types, StreamInv, Told, Results, Reaping
<1> QED
  BY <1>1, <1>2, <1>3, <1>4, <1>5, <1>6, <1>7, <1>8, <1>9, StepOf DEF StreamInv
----------------------------------------------------------------------------
\* Chunks are conserved, running processes hold their write ends, and past the
\* end of a pipe nothing is written: an invariant of all the streams together.
THEOREM Inductive == Spec => []IInv
<1>1. Init => IInv
  <2> SUFFICES ASSUME Init PROVE IInv
    OBVIOUS
  <2> USE StreamAssumption, Names
  <2>1. command \in [Streams -> CommandType]
    BY DEF Init
  <2>2. \A s \in Streams : /\ command[s].out \in Nat /\ command[s].err \in Nat
                           /\ command[s].redirects => command[s].err = 0
    BY <2>1 DEF Init, CommandType
  <2>3. \A s \in Streams : todo[Out(s)] = command[s].out /\ todo[Err(s)] = command[s].err
    BY DEF Init, Out, Err, Pipes
  <2>4. todo \in [Pipes -> Nat]
    BY <2>2 DEF Init, Pipes
  <2>5. Types
    BY <2>1, <2>4 DEF Init, Types, Statuses, Locations, Results
  <2>6. ASSUME NEW s \in Streams PROVE Conserved(s) /\ TailKept(s)
    <3>1. /\ received[Out(s)] = 0 /\ level[Out(s)] = 0
          /\ received[Err(s)] = 0 /\ level[Err(s)] = 0
      BY DEF Init
    <3>2. Conserved(s)
      BY <2>2, <2>3, <3>1 DEF Conserved
    <3>3. kept(0) = 0
      BY DEF kept
    <3>4. stderr_[s] = <<>> /\ lastChunks(0) = <<>>
      BY <3>3 DEF Init, lastChunks
    <3> QED
      BY <3>1, <3>2, <3>4 DEF TailKept
  <2>7. ASSUME NEW s \in Streams
        PROVE  WriteEnds(s) /\ Starting(s) /\ Exits(s) /\ Over(s) /\ Reaping(s) /\ Told(s)
    BY DEF Init, WriteEnds, Starting, Exits, Writer, Over, Quiet, ReadOut, Reaping, Told
  <2> QED
    BY <2>5, <2>6, <2>7 DEF IInv, StreamInv
<1>2. IInv /\ [Next]_vars => IInv'
  <2> SUFFICES ASSUME IInv, [Next]_vars PROVE IInv'
    OBVIOUS
  <2>1. ASSUME NEW s \in Streams, Start(s) PROVE IInv'
    <3>1. CASE MakePipe(s, Out(s), "new", "pipe_stderr")
      BY <3>1, OpenStep DEF Locations
    <3>2. CASE MakePipe(s, Err(s), "pipe_stderr", "fork")
      BY <3>2, OpenStep DEF Locations
    <3> QED
      BY <2>1, <3>1, <3>2, ForkStep, CloseOutStep, CloseErrStep DEF Start
  <2>2. ASSUME NEW s \in Streams, Reading(s) PROVE IInv'
    BY <2>2, ReadStep, EndStep DEF Reading
  <2>3. ASSUME NEW s \in Streams, Finish(s) PROVE IInv'
    BY <2>3, WaitStep, WaitErrorStep, JoinStep, DestroyStep, KillStep, ReapStep, CloseStep
       DEF Finish
  <2>4. ASSUME NEW s \in Streams, Drainer(s) PROVE IInv'
    BY <2>4, DrainStep, DrainEndStep DEF Drainer
  <2>5. ASSUME NEW s \in Streams, Processes(s) PROVE IInv'
    <3>1. ASSUME NEW p \in {Out(s), Err(s)}, WriteChunk(s, p) PROVE IInv'
      BY <3>1, WriteStep, BreakStep
    <3> QED
      BY <2>5, <3>1, ExitStep, ShellStep DEF Processes
  <2>6. ASSUME NEW s \in Streams, Chance(s) PROVE IInv'
    BY <2>6, StartFailsStep, ErrorStep, DrainErrorStep, StopStep DEF Chance
  <2>7. CASE UNCHANGED vars
    <3>1. Types' /\ command' = command /\ \A t \in Streams : Same(t) /\ Keeps(t)
      BY <2>7 DEF vars, procVars, errVars, waitVars, IInv, Types, Same, Keeps
    <3> QED
      BY <3>1, Elsewhere DEF IInv
  <2> QED
    BY <2>1, <2>2, <2>3, <2>4, <2>5, <2>6, <2>7 DEF Next
<1> QED
  BY <1>1, <1>2, PTL DEF Spec

\* A stream that ended well was read completely and its command succeeded.
THEOREM Delivered == Spec => []NothingLost
<1>1. IInv => NothingLost
  <2> SUFFICES ASSUME IInv, NEW s \in Streams, result[s] = "ok"
               PROVE  /\ received[Out(s)] = command[s].out
                      /\ status[Shell(s)] = "exited0" /\ command[s].code = 0
    BY DEF NothingLost
  <2>1. status[Shell(s)] = "exited0" /\ ReadOut(s)
    BY DEF IInv, StreamInv, Told, ReadOut
  <2>2. status[Writer(s)] = "exited0"
    BY <2>1 DEF IInv, StreamInv, Exits, Writer
  <2>3. todo[Out(s)] = 0 /\ level[Out(s)] = 0 /\ command[s].code = 0
    BY <2>1, <2>2 DEF IInv, StreamInv, Exits, Over
  <2>4. received[Out(s)] \in Nat
    BY Names DEF IInv, Types
  <2>5. received[Out(s)] = command[s].out
    BY <2>3, <2>4 DEF IInv, StreamInv, Conserved
  <2> QED
    BY <2>1, <2>3, <2>5
<1> QED
  BY <1>1, Inductive, PTL

\* The error of a failed command has the end of all it wrote to its standard
\* error, or of all that was read if a read of the drainer failed.
THEOREM ErrorsQuoted == Spec => []ErrorTextTail
<1>1. IInv => ErrorTextTail
  <2> SUFFICES ASSUME IInv, NEW s \in Streams, result[s] = "failed"
               PROVE  stderr_[s] = lastChunks(IF drainer[s] = "failed" THEN received[Err(s)]
                                              ELSE command[s].err - todo[Err(s)])
    BY DEF ErrorTextTail
  <2>1. stderr_[s] = lastChunks(received[Err(s)])
    BY DEF IInv, StreamInv, TailKept
  <2>2. CASE drainer[s] = "failed"
    BY <2>1, <2>2
  <2>3. CASE drainer[s] # "failed"
    <3>1. level[Err(s)] = 0
      BY <2>3 DEF IInv, StreamInv, Over, Joined
    <3>2. received[Err(s)] \in Nat /\ todo[Err(s)] \in Nat
      BY Names DEF IInv, Types
    <3>3. received[Err(s)] + level[Err(s)] + todo[Err(s)] = command[s].err
      BY DEF IInv, StreamInv, Conserved
    <3>4. received[Err(s)] = command[s].err - todo[Err(s)]
      BY <3>1, <3>2, <3>3
    <3> QED
      BY <2>1, <2>3, <3>4
  <2> QED
    BY <2>2, <2>3
<1> QED
  BY <1>1, Inductive, PTL

\* No signal is sent to a child that was waited for, and none is left to be
\* waited for, unless waitpid fails.
THEOREM SignalledInTime == Spec => []ReapedOnce
<1>1. IInv => ReapedOnce
  BY DEF IInv, StreamInv, Reaping, ReapedOnce
<1> QED
  BY <1>1, Inductive, PTL

\* A stream that is closed leaves at most a job behind, one that the signal did
\* not reach and that nothing waited for.
THEOREM OnlyJobsLeft == Spec => []NoLeftover
<1>1. IInv => NoLeftover
  <2> SUFFICES ASSUME IInv, NEW s \in Streams, pc[s] = "done", result[s] # "start_error"
               PROVE  /\ status[Shell(s)] # "running"
                      /\ status[Job(s)] = "running" =>
                           /\ result[s] \in {"stopped", "read_error"}
                           /\ command[s].redirects \/ drainer[s] = "failed"
    BY DEF NoLeftover
  <2>1. status[Shell(s)] \in Ended
    BY DEF IInv, StreamInv, Reaping
  <2>2. status[Job(s)] = "running" => result[s] \notin {"none", "ok", "failed", "wait_error"}
    BY DEF IInv, StreamInv, Over, ReadOut, Quiet, Told
  <2>3. result[s] \in Results
    BY DEF IInv, Types
  <2>4. status[Job(s)] = "running" => command[s].redirects \/ drainer[s] = "failed"
    BY DEF IInv, StreamInv, Over, Joined, Quiet
  <2> QED
    BY <2>1, <2>2, <2>3, <2>4 DEF Ended, Results
<1> QED
  BY <1>1, Inductive, PTL
=============================================================================
