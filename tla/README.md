# TLA+ verification of lsql

lsql runs SQL queries over log files and command output. A script is parsed and
bound, lowered to relations (IR), optimised, planned into *operations*, built
into *physical operators* for a number of *phases*, and executed phase by phase
on a thread pool; each query prints through a sink. This project follows a
program along that way: binding, lowering and every pass of the optimizer
against a meaning of SQL; the planner, the builder, the streaming operators, the
phases, the thread pool and the output, where correctness is decided by order
and sharing; and the sources, from the bytes of a file, an archive or a child
process to the records they push.

All paths below are relative to `src/src/`.

## 1. The system

### Components

| Component | State | Operations | Interacts with |
|---|---|---|---|
| Front end (`front/`) | syntax tree, field sets of relations, types and levels of expressions | parse, expand macros, bind, check after binding, lower | produces IR |
| Optimizer (`optimize/`) | IR, `changes_` | ten passes, repeated until a round changes nothing | IR to IR |
| Planner (`back/exec/plan/`) | operations with `min_phase`, `required_fields`; top operations | `planRelation`, `planStatement`, `requestOutput` and each operation's `init` | reads IR; the builder reads its result |
| Builder (`back/exec/phys/build.cpp`) | physical operators by operation and phase | `build`, `get`, `output` | makes the operators and connects them |
| Physical operators (`back/exec/phys/ops/`) | `subscribers_`, private state (rows kept, rows left, counters), state shared by the operators of one operation (hash tables, aggregate values, materialised rows) | `consume`, `emit`, `push` | nested calls downstream, a Boolean answer upstream |
| `UnionAll`, `MergeSorted` | end counters, buffers, `delay_done_` | `consume` under a mutex | entered by the threads of several sources |
| Run loop (`cli/run.h`) | the phase, its latch, the chain of sinks | `run`, `runWithSinks`, `addSink` | enqueues one task for each source |
| Thread pool (`util/ThreadPool.h`) | locked queue, condition variable, `stopped_` | `push`, `pop`, `stop`, `join` | its workers call `Source::push` |
| Sinks (`util/sinks.cpp`) | state and buffer of each query, one shared lock | `push`, `done`, `prevCompleteLocked` | called by the last operator of a query |
| Time ranges (`back/exec/phys/log/`) | bounds of a binary search over bytes | `lowerBoundLine`, `upperBoundLine`, `getFileSourceRange` | gives the byte range of a `Log` |
| Line sources (`back/storage/LineSource.cpp`, `PagedFile.cpp`) | page, position, partial line | `lines` of paged files and of streams | called by `Log::push` and by the detection of the log type |
| Archives (`back/storage/Archive.cpp`) | input buffer, offset, ends | `read` | a stream of a line source; zlib |
| Command streams (`back/storage/CommandStream.cpp`) | child, two pipes, `finished_`, stderr thread | `start`, `read`, `wait`, `terminate`, `drainStderr`, `joinStderr` | child processes, which inherit descriptors of other streams |
| Log formats, values, functions, output formats, profiling, settings | none that lasts beyond a record | parsing and formatting | |

### Interaction

`requestOutput` travels from the queries down to the sources and records which
fields of which operation are wanted in which phase. The builder makes one
physical operator for each operation and required phase. At run time a source
pushes records; `emit` calls `consume` of every subscriber and drops those that
answer `false`; an operator without subscribers answers `false` itself, which is
how a `LIMIT` stops a file from being read. A join's table, an aggregate and
`MATERIALIZE` collect in one phase what is used in later ones, so the phases
must not overlap and must be assigned consistently over a graph in which
relations are shared between queries.

### What is hard

* *Interleavings*: the sources of a phase run on different workers and meet in
  the unions; queries end in any order; the queue's condition variable.
* *Ordering*: phases, the sorted merge, the order of the output blocks.
* *Early stops* through shared operators: the others must still get everything,
  every query must be ended exactly once.
* *Late requests*: an operation that was planned already is asked for more
  fields, or in another phase.
* *Boundaries*: counters of ends, empty inputs and tables, lines that straddle
  pages and chunks, inclusive time bounds.
* *Processes*: commands that fail, block or are stopped; descriptors that are
  inherited; a thread that has to be joined.
* *Rewrites*: passes that move conditions and limits, fold, cache and
  collapse, each on what the others left.

`PROJECT.json` lists these hazards line by line with the properties that cover
them.

## 2. Modules

| Module | Models | Checked by |
|---|---|---|
| `StreamMerge` | abstract: what an operator with several inputs promises | refined by the next two |
| `OperationBase` | `Operation.h`: subscribers and `emit`, left open | `MergeSorted`, `UnionAll` |
| `MergeSorted` | `ops/MergeSorted.h` | `MCMergeSorted`, `MergeSortedProofs` |
| `UnionAll` | `ops/UnionAll.h` | `MCUnionAll`, `UnionAllProofs` |
| `OrderedSink` | `util/sinks.cpp`, `addSink` of `cli/run.h` | `MCOrderedSink`, `OrderedSinkProofs` |
| `Runner` | `run` of `cli/run.h`, `util/ThreadPool.h` | `MCRunner`, `RunnerProofs` |
| `SearchTimestamp` | `log/log.cpp`, `log/search/*` | through `LogSource` |
| `LogSource` | `log/log.cpp`, `ops/Log.h`, `storage/LineSource.cpp`, `storage/PagedFile.cpp`, `storage/Archive.cpp`, composed with `SearchTimestamp` | `MCLogSource`, `LogSourceProofs` |
| `CommandStream` | `storage/CommandStream.cpp` and the child processes | `MCCommandStream`, `CommandStreamProofs` |
| `Planner` | `plan/plan.cpp`, `plan/Operation.h`, `phys/build.cpp` | `MCPlanner`, `PlannerProofs`, `PlannerExactProofs` |
| `Engine` | `Planner` composed with all streaming operators and the phases | `MCEngine` |
| `IR` | values, functions, scalars, aggregates and relations, and what they mean: `core/`, `ir/`, `back/exec/expr/` and the operators as functions of their rows | through `Compiler` |
| `Optimizer` | `optimize/`, `util/TreeWalker.h` | through `Compiler` |
| `FrontEnd` | `front/sql/`, `front/common/`: macros, binder, lowering | through `Compiler` |
| `SqlMeaning` | abstract: what a bound program means | the reference of `Compiler` |
| `Compiler` | `bind`, `lowerToIR`, the rounds of `optimize` in `cli/run.h` | `MCCompiler` |

Correspondence of state and actions:

* **MergeSorted.** `buffers`, `eof`, `delay_done` are the members of that name;
  `desc` and `input` are chosen at the start and never change. `pc[s]` is the
  place of the upstream thread of side `s`. `consume` is `Discard`, `Hold`,
  `Queue`, `Feed` and `Eof`, one for each of its branches; the two `drain`
  functions are loops whose iterations are the actions `DrainOne` and
  `FeedRecord`/`FeedOther`/`FeedHold`. The mutex is held while `pc[s]` is inside
  `consume`. Any subscriber may leave at any record.
* **UnionAll.** The same protocol with any number of inputs; a call is split
  after its test of `stream_finished_`.
* **OrderedSink.** `push` is not locked and is an action of its own; `done` and
  the chain of `prevCompleteLocked` calls it makes are separate steps, with the
  shared lock held from the first to the last (`notify # None`), so that they
  interleave with `push` of the other sinks.
* **Runner.** The main thread's `BeginPhase`, `Enqueue`, `NotifyOne`,
  `LatchOpen`, `Stop`, `NotifyAll`, `Join`; a worker's `pop` with its fast path,
  lock, test of the predicate, wait, spurious wake-ups, task and count-down. A
  task that throws ends the process (`Panic`).
* **SearchTimestamp.** `Step` has one action for each chunk that is read backwards or
  forwards and for each decision. A byte is a newline, a timestamp or anything
  else; how a timestamp is recognised is the given function `Stamps`.
* **Planner.** `planRelation` and `planStatement` are the statements of a
  script; `requestOutput` is one recursive call, `stack` the pending ones, so
  that the state between calls can be talked about. `requests` is `init` of
  every kind of operation. `build` makes the operators of one operation. What
  the front end guarantees of a relation is `Bound`. All relations and queries
  may be planned in any order until the builder starts. The builder visits the
  graph depth first; the model builds in planning order, which is another
  order in which inputs come first. `max_phase` is written and never read in
  the code, and is left out.
* **Engine.** A program is planned and built by `Planner`'s own actions, then
  executed: `Start`, `Begin` (a worker picks up a source), `Push` (one
  record of one source, with all nested calls of `consume` it causes) and
  `NextPhase`. `consume...` operators are the operators' `consume`; they pass
  the machine state along and return it with the answer. One record is one step
  because everything above the first union is private to the pushing thread and
  a union is held from entry to return. The order in which `emit` visits the
  subscribers and in which a hash table is iterated is fixed. `MergeSorted` is
  not among the kinds the engine executes: its module covers it.
* **LogSource.** `mode` is how `open` is called: a file, a range with the time
  format of the log type or a given one, a command stream, an archive, a range
  of an archive or a path that does not open (both refused). `timed` says whether
  the log type has a time format (CSV, TSV and JSON lines have none, and a range of
  them is refused unless a format is given), `flaw` where a command's output or an
  archive is broken: a read that fails, a command that fails at its end, a unit of
  the archive or its trailer that `inflate` refuses. `stage` is where the calling thread is: opening,
  detecting the type, searching (the steps of `SearchTimestamp`), pushing. `gen`
  is the frame of the coroutine `lines()`: an action of `PagedLine`, `PagedSpan`,
  `PagedEnd`, `StreamLine`, `StreamEnd` resumes it until it yields, turns a page
  or returns. `PipeRead` gives any number of bytes up to a chunk; `ArchiveRead`
  is one turn of the loop around `inflate`, which is external and here produces
  one byte for each unit of input. `Yield` is the caller's side: the detection of
  the type stops at the first line that has one, `Log::push` parses and emits,
  and its subscribers may leave at any record.
* **CommandStream.** One worker, one stderr thread and one or two child processes
  (the shell, or the shell and its job) for each stream. `pc` is the place of the
  worker in `start`, `read`, `wait`, `terminate` and the destructor. `holds` says
  which ends of pipes the program and each process have open: `Fork` copies the
  program's, since pipes are made without `O_CLOEXEC`; a job gets its shell's, less
  the standard error if it redirects it. `finished_` and `stderr_` are the members,
  the latter the numbers of the chunks `appendStderr` keeps; `reaped` says whether a
  `waitpid` has returned the child, which the code only infers. A reader sees the end when
  nobody holds the write end, a writer is killed when nobody holds the read end,
  and blocks when the pipe is full. Where `pipe`, `fork`, the start of the thread,
  either `read` or `waitpid` fails is a choice of the constants: `StartFails` (there
  is no destructor then), `ReadError` (through `terminate`), `DrainError` (the thread
  ends, its descriptor stays open), `WaitError` (thrown from `wait`, ignored by
  `terminate`). An exception unwinds through the destructor (`Destroy`, `Close`) and
  then ends the program (`Panic`).
* **IR.** A scalar is a record of a node (`v`), arguments and a type, a relation
  of a node, sources, expressions (`x`), aggregates (`a`) and a schema, so that
  a pass is one function on nodes and `TreeWalker` one walk. `eval`, `aggregate`
  and `Outcomes` say what they compute: values are null, Boolean, integer or
  string, `Err` is a failed `verify` or `require` of an executor, and functions
  of text are the given function `Text`. `Outcomes` is a set because ties in a
  sort, groups and unions have no fixed order.
* **Optimizer.** One operator for each pass, of the pass's name, on one node;
  `WalkProgram` applies it as the pass's own `visit` does and collects the flag of
  `setChanges()`. The costs of `ScalarCostEstimator.h` are kept as
  the numbers they are, since they decide whether a cache or a projection goes.
* **FrontEnd.** The syntax tree is the input. `expandMacros`, `bind...` and the
  checks of `post_run.cpp` return a tree or a refusal; a relation carries its
  field set (`fs`), which is open for files and is closed by the fields required
  of it. `lower...` pass the relation under construction along as `Context` does:
  an IN adds a join to it and reads its mark. `slot` is what `Context` holds while a
  relation inside an expression is lowered: the keys of a UNION ALL SORTED BY are
  lowered on it, and an IN in such a key panics when there is none. A failed `verify`
  is kept in the tree and makes the program panic. `Accepts` says which literal
  parameters of text functions are accepted when they are bound. The pattern of
  `rsubstr` is not looked at there: a wrong one fails in its executor, which the
  model has fail where it is evaluated.
* **Compiler.** `Bind` or `Reject`, `Lower`, `RunPass` for each pass of a round,
  `EndRound`. A constant that cannot be computed raises in the pass that folds it.
  `lowered` and `meant` are history: the columns of the lowered statements and
  what the bound ones mean on each database, for `ResultsPreserved`.

## 3. Runs

| Run | Checks | Shows |
|---|---|---|
| `merge_sorted` | `MergeOrder`, `VerifyDbg`, `NothingRetained`, `PromptStop`, `Completes`, `Implements` | For every pair of sorted inputs, ascending and descending, every interleaving and every moment at which subscribers leave: the output is a sorted merge that loses nothing, the assertions of the code hold, buffers are released, both upstreams get their final `false`. |
| `union_all` | `PromptStop`, `Completes`, `Implements` | The same for three inputs without an order; exactly one end. |
| `ordered_sinks` | `TypeOK`, `QueryOrder`, `WholeBlocks`, `AllPrinted` | Blocks are whole, printed once, in query order with `--keep-output-order`, and all of them are printed. |
| `run_phases` | `PhaseBarrier`, `EachSourceOnce`, `LatchAlive`, `VerifyPop`, `PhasesComplete` | Phases do not overlap, every source is pushed once, no task is lost, the latch is not touched after its phase. |
| `pool_join` | `ProcessCompletes` | Violated, see section 5. |
| `log_files` | `RangeExact`, `LinesExact`, `FailsOnBadInput`, `PushEnds` | Exactly the lines of the range come out, whole and in order, whatever they straddle; a log is refused only for a reason, and one that is truncated, corrupt or the output of a failing command never ends like a complete one; opening and pushing end. |
| `plan_phases` | `TypeOK`, `RequestLegal`, `PlanClosed`, `PlanExact`, `BuildVerified`, `TablesFirst` | Every plan is legal, complete and minimal; the builder finds every operator. |
| `engine_operators` | `ResultsCorrect`, `VerifyActive`, `QueriesEnd`, `EndsOnce` | Programs over two sources, through up to four phases: the queries print rows their relations mean and are ended once. |
| `late_aggregate` | `AggregateCollected` | Violated, see section 5. |
| `command_streams` | `NothingLost`, `ErrorTextTail`, `ReapedOnce`, `NoLeftover`, `StreamsClose` | Two streams at once, with calls that fail: a stream ends normally only when its command succeeded and all its output was delivered, a failure comes with the end of the error text, no child is signalled after it was reaped, only a job that no signal reached and nothing waited for outlives its stream, and every stream closes. |
| `stream_shutdown` | `StreamsClose` | Violated, see section 5. |
| `compile` | `ResultsPreserved`, `WellFormed`, `NormalForm` | After lowering and after each pass of each round every statement has its columns and produces only what the bound program means; expressions read only fields of their source; when a round reports no change, none is left to make. |

### Bounds

* `merge_sorted`: up to 3 records a side with 3 keys, so that ties, drains of
  several records and empty sides occur; two subscribers, so that one can leave
  before the other.
* `union_all`: 3 inputs of up to 2 records, 2 subscribers.
* `ordered_sinks`: 4 queries of up to 2 lines: chains of flushes of length 3.
* `run_phases`: 3 workers, up to 2 phases of up to 2 sources (more workers than
  tasks; empty phases), and one phase of 4 sources (`Crowd`: more tasks than
  workers). `pool_join` needs one source and two workers.
* `log_files`: files of up to 5 bytes (`MaxSize`) with pages, chunks and search
  buffers of 2 bytes: lines that span two and three pages, newlines that are the
  last byte of a page, of the file or of the range, empty lines, a last line
  without a newline; ranges that hold all, some and no lines, or are empty; streams
  and archives broken at any byte or at their end (1,466,361 states). Files are
  sorted by time, as the search assumes.
* `plan_phases`: up to 4 operations over 3 fields (`MaxOps`) and 2 queries
  (`MaxQueries`): two joins in a chain and operations required in two phases.
  The theorems below cover every size.
* `engine_operators`: two sources with up to 3 rows, an empty one included, every
  `LIMIT` and top-k 1, programs of two relations of all kinds and of three of the
  kinds that stop or collect. Programs with an aggregate that is only required
  late are left to `late_aggregate`. `FewUnions` bounds the number of
  interleavings a program can mean.
* `command_streams`: two streams, pipes and a tail of one chunk (`Capacity`,
  `TailSize`), so that commands block and error text is cut; commands that write
  more than a pipe holds, that fail, that ignore SIGTERM, and jobs of the shell, one
  of which redirects its standard error; for the second stream every call may fail
  (653,878 states). Jobs that fill their pipes are left to `stream_shutdown`;
  commands that ignore SIGTERM and fill their pipes block in the same way and are
  not in the instance. Deadlock is not checked: once a read of the stderr thread has
  failed a command may block for ever on its standard error, which nobody reads and
  the program keeps open. `StreamsClose` makes an exception of that case alone, and
  so still finds every other way to stop.
* `compile`: 360 programs (4 sources, 6 conditions, 3 lists of projectors, 5 ends
  with an order and a limit) and 27 more with what these do not contain:
  aggregates, groups with HAVING, left joins, named relations, macros,
  MATERIALIZE, streams, casts, caches, nested unions, ones that raise, that panic
  (ORDER BY of an aggregate, an IN in the key of a sorted union) and that are
  rejected (an unknown function in a macro that is never used, among others). Two databases of up to 3 rows, one with empty
  files. Up to 5 rounds (`Passes`, the default). The behaviour is deterministic
  for each program; its length is what takes it through every pass.

`ResultsCorrect` compares with `Meaning` of `Engine`, a definition of what a
relation may produce that knows nothing of phases, requests and streams: the set
of row sequences, with every interleaving at a union. `ResultsPreserved` compares
the IR with `Meaning` of `SqlMeaning`, which knows nothing of the IR: a SELECT is
its clauses applied to rows that are functions of fields. Rows are compared, not
multisets, and each of them is a set of outcomes; the IR may have fewer outcomes
than the SQL, never others. A statement whose meaning includes a failure of an
executor is not constrained.

### Fairness

* `MergeSorted`, `UnionAll`, `OrderedSink`: weak fairness of each upstream
  thread. A thread inside `Source::push` calls `consume` until it gets `false`;
  threads do not wait for each other except for a mutex.
* `Runner`: strong fairness of the main thread and of each worker, since a
  thread can be kept from the mutex by others again and again. Spurious wake-ups
  and panics are not fair.
* `LogSource`: weak fairness of the only thread.
* `CommandStream`: weak fairness of each worker, each stderr thread and each
  process: the operating system runs what is not blocked. That a consumer leaves
  and that a call fails (`Chance`) is not fair.
* `Engine` and `Compiler` assume none: every step consumes a row, a source, a
  phase or a pass, so every behaviour ends, and TLC's deadlock check together
  with `QueriesEnd` says where. Compilation just stops, so deadlock is not
  checked there.

## 4. Proofs

Every theorem is for all values of the constants that satisfy the named
assumptions of the modules; TLC evaluates these on each run. None of the proved
invariants is inductive but the types; each proof module states the inductive
invariant (`IInv`, `Inv`, `LogInv`), which TLC has checked on the instance of the run
before it was proved, and one lemma for each action.

`OrderedSinkProofs`, for any number of queries and any line counts:

* `TypeCorrect`: `Spec => []TypeOK`.
* `KeepsQueryOrder`: `Spec => []QueryOrder`; `PrintsWholeBlocks`:
  `Spec => []WholeBlocks`. Nothing in them says why the
  sink that prints next is the right one. `IInv` adds that a sink is complete
  exactly when its block is out (`Blocks`), and that with an order the only sink
  that is ready or being told is the first one not printed (`Turns`).

`PlannerProofs`, for every set of relations and any number of operations and
queries (assumption `PlanAssumption`: relations are well-formed records with the
number of inputs their kind has):

* `RequestsLegal`: `Spec => []RequestLegal`, `PlansClosed`:
  `Spec => []PlanClosed`, `ProbesAfterBuild`: `Spec => []TablesFirst`.
* The inductive invariant `Inv` consists of the types, `Planned` (what
  `planRelation` establishes of each operation once: inputs come earlier, phases
  do not decrease, a join lies behind its table, fields read are in the inputs'
  schemas), `RequestLegal`, and `Closing`: what an operation needs of its inputs
  is already required of them or asked for by a pending call. `PlanClosed` alone
  says nothing while calls are pending.
* `RequestsLawful` is the heart: for each kind of operation, a legal request
  leads to legal requests. `Push` covers both `planStatement` and
  `requestOutput`; the former overwrites what was required, and is safe because
  `RequestLegal` bounds that by the schema it assigns.
* `GetsBuilt`: `Spec => []BuildVerified`; `TypeCorrect`: `Spec => []TypeOK`. What
  the builder reaches is the recursive function `reachable`. That it satisfies its
  equation (`ReachableFacts`) and that all it reaches has a phase
  (`ReachedRequired`) are inductions from the last operation to the first. They
  are made without an induction theorem, from a least counterexample: a set of
  numbers that is not empty has a least one (`LeastNumber`, from the
  well-foundedness of `<` in the library).

`PlannerExactProofs`, under the same assumption:

* `RequiresWhatIsNeeded`: `Spec => []PlanExact`. `Closing` says that nothing is
  missing; `Justified` adds that nothing is in excess: each phase, each field and
  each pending call has a reason, a query or a request that a consumer makes for
  what is required of *it*. Reasons last because `requests` is monotone
  (`RequestsMonotone`). So between the calls `required_fields` solves the equation
  of `need`; and that has one solution (`OneSolution`, by a least counterexample),
  which is why the order of statements and calls does not matter.

`RunnerProofs`, for any finite number of workers and any program, phases without
a source included (`RunnerAssumption`; that `Free` is not a worker only keeps the
names apart):

* `Barrier` (`PhaseBarrier`), `SourcesOnce` (`EachSourceOnce`), `LatchOutlives`
  (`LatchAlive`), `PopVerified` (`VerifyPop`).
* `IInv` says where each source of the phase is: not enqueued, in the queue (a
  consecutive run, `QueueRun`), held by one worker (`Held`) or counted down
  (`ExecutedSoFar`); the latch is the number of those not counted down
  (`LatchCount`). A latch that opens therefore means that nothing is left
  anywhere.

`CommandStreamProofs`, for any number of streams, any commands, any capacity
of the pipes and size of the tail, and any calls that fail (`StreamAssumption`):

* `Delivered` (`NothingLost`), `ErrorsQuoted` (`ErrorTextTail`),
  `SignalledInTime` (`ReapedOnce`), `OnlyJobsLeft` (`NoLeftover`).
* Chunks are conserved between writer, pipe and reader (`Conserved`), and a
  running process of a stream holds the write ends of its pipes (`WriteEnds`),
  since it was forked while the program had them open, less a standard error that
  it redirects. So a reader that sees the end has no process behind it that could
  write, whoever else inherited the pipes (`Over`).
* `TailKept`: what is kept of the standard error is always the end of what was
  read. `Reaping` relates `finished_`, the place of the worker and whether the
  child was reaped: on no path is `finished_` false once a `waitpid` has returned
  the child. `Told` says which results are possible where, for the paths of the
  destructor after an exception.

`UnionAllProofs` and `MergeSortedProofs`, for inputs of any lengths (any number
of them for the union; sorted ones for the merge) and any subscribers
(`UnionAssumption`, `MergeAssumption`, `SubscribersAssumption`):

* `Refinement` (`Implements`: the specification of `StreamMerge` under the
  mapping of the module) and `StopsPromptly` (`PromptStop`) of both; `OutputSorted`
  (`MergeOrder`), `NoAssertionFails` (`VerifyDbg`) and `EndsReset`
  (`NothingRetained`) of the merge.
* The union's invariant relates `stream_finished_` to the subscribers and
  `eof_count_` to the inputs that ended. The merge is live, stopped or over; while
  it is live, a buffer is the run of accepted records not yet emitted, so that the
  fronts that are compared are the next records of both inputs; what was emitted
  may go before all that was not (`Ahead`).

`LogSourceProofs`, for files of any size, any buffer, page and chunk sizes and any
ranges (`SearchAssumption`: files are sorted by time; `LogAssumption`: the kinds of
sources, pages and chunks are not empty):

* `SearchExact` and `OpenedRangeExact`: `RangeExact` of the search alone and of the
  search as a part of opening a log. The invariant is that of a binary search,
  lines before `begin` are skipped and lines from `end` on are not (`Bisecting`),
  with what the chunks read around a probe have established of the line it landed
  in (`Probed`) and what the first search found, for the second (`LowerFound`).
* `LinesRead` (`LinesExact`) and `FailsForAReason` (`FailsOnBadInput`). Neither says
  where the generator is. `LogInv` adds that it stands at the beginning of a line
  (`LineOf`): a paged one is in the page of that beginning, or in a later one and
  holds all bytes between without having met a newline (`PagedAt`); a stream holds
  the partial line and the rest of the chunk, which together are what was read
  since the line began (`StreamAt`); an archive has inflated all its input
  (`ArchiveAt`), so that running out of it means that the trailer is missing. What a
  stream or an archive has given lies before its flaw (`Unbroken`), so that one that
  reached its end has none. The
  records are those of the lines before (`UpTo`). While the type is detected, no
  line before has a timestamp, which is the reason for the refusal that may follow.
* That a range begins and ends with lines (`Found`, `RangeOfLines`) is needed of the
  search: the paged generator compares a newline with the end of the range only
  within a page and not when the line spans pages, and is right because no range
  ends within a line (`LineInRange`).
* The lemmas below: what `firstNewline` finds, bytes cut from and joined to pages
  and chunks (`CutBytes`, `JoinBytes`), page numbers and the remainder of an offset
  (`PageOf`, `PageOffset`), the text of a line once its end is known (`LineText`),
  and the number of a line among those that are wanted (`NumberFacts`,
  `NextWanted`), by which a record is compared with its line.
* `RangeRecords`: the two together. Reading begins after both searches are over,
  and of the complete lines with a timestamp those of the range are read.

Only model-checked:

* liveness (`Completes`, `AllPrinted`, `PhasesComplete`, `PushEnds`,
  `StreamsClose`), which needs fairness and ENABLED;
* `Engine`, `IR`, `Optimizer`, `FrontEnd`, `SqlMeaning` and `Compiler`, which walk
  trees and nested calls with RECURSIVE operators, where the prover has no
  arithmetic.

## 5. Findings

* `pool_join`: `MPMCLockedQueue::stop` (`util/ThreadPool.h:44`) sets `stopped_`
  and notifies without holding the mutex. A worker between its test of the
  predicate and its wait misses the notification; `pool.join()` does not return
  although all results are printed.
* `late_aggregate`: `AggregateCollector::consume`
  (`back/exec/phys/ops/Aggregate.h:51`) answers `active()`. An aggregate whose
  operators are all in later phases has no subscriber in the phase that collects
  it: it leaves at the first row, and the later emitter reads values that do not
  exist.

* `stream_shutdown`: pipes are inherited (`back/storage/CommandStream.cpp:65`,
  `:134`) and `terminate` (`:230`) signals only the shell. Two streams whose
  commands are jobs of their shells and fill their pipes, both stopped early. When
  both have made their pipes before either forks, each job inherits the read end of
  the other's standard output: neither gets SIGPIPE when the program closes its
  ends, and both destructors wait in `joinStderr` for standard errors that the jobs
  hold. (Inheritance one way is not enough: the job forked first keeps no end of
  the later stream, whose job gets SIGPIPE and then releases the first one.)

### Gaps met while modelling

No document says what should happen here, so no run is about them; the model does
what the code does where it reaches it.

* Accepted by the binder and answered with a panic when lowered: unions of
  relations with different columns (`front/sql/lower/Relations.cpp:402`, `:419`),
  ORDER BY of an aggregate SELECT (`:266`, in the `compile` instance), a scalar
  function of an aggregate (`front/sql/lower/Expressions.cpp:37`), the same output
  column twice (`core/schema/Schema.cpp:27`), an IN among the projectors of a
  grouped SELECT, an IN in the key of a UNION ALL SORTED BY
  (`front/sql/lower/Relations.cpp:424`).
* When that union stands in the relation of another IN, there is a relation to add
  the mark to, the enclosing one; the key of the union then reads a field that its
  inputs do not have. No program of the instance has this form.
* A job that redirects its standard error outlives a stream that was stopped early
  or could not be read; so does a child that was forked when the thread for its
  standard error could not be started (`back/storage/CommandStream.cpp:148`).
* The columns of `SELECT *` and of a union are compared in the order of a hash
  set; the model has one order for each set. Two fields of one name and different
  types are told apart by that order (`front/common/bind/FieldSetChain.h:20`).
* `front/sql/bind/Relations.cpp:241` reads the span of an absent HAVING.
* Folding raises when a program is compiled, although no row may ever reach the
  expression (`optimize/const_scalar_fold.cpp:23`); a WHERE that is a null
  constant is one case (`optimize/relation_simplify.cpp:58`).
* `optimize/filter_pushdown.cpp:65` splits a conjunction: a part that the other
  one guarded is evaluated on rows it did not see before.
* A limit over a union of projections is pushed down in every round, so that only
  the number of rounds ends the optimizer; `NormalForm` says nothing then.
* A gzip file of several members is read up to the end of the first
  (`back/storage/Archive.cpp:89`).

## 6. Not modelled

* The lexer and the parser: generated from a grammar and tested by text.
* Floats and percentiles, time formats, and what functions of text compute:
  libraries behind an interface; the model takes them as given functions.
* The line parsers of the log formats, and how archives are recognised.
* The slots of shared sub-expressions (`ScalarContext`) and the planning of
  scalars into them: a cached scalar has the value of its expression, and the
  engine's scalars are fixed small functions.
* The lifetime of mapped pages and of the strings that point into them; reads and
  maps of a file that fail after it was opened.
* Output formats, profiling, the command line and the settings other than the
  optimizer's: no influence on which rows come out.

## 7. Plan

Done: StreamMerge, OperationBase, MergeSorted, UnionAll, OrderedSink, Runner,
SearchTimestamp, LogSource, CommandStream, Planner, Engine, IR, Optimizer,
FrontEnd, SqlMeaning, Compiler; the proofs above.

Left: the properties of `Engine` and `Compiler` for every program. They are about
what recursive walks over trees and nested calls compute, an induction over data
that the prover does not have; the instances of the runs are all that is known of
them.
