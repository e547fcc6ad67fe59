------------------------------- MODULE Engine -------------------------------
(***************************************************************************)
(* The execution of a built program, from the plan (Planner) to the rows   *)
(* each query hands to its output.  Phase after phase, the sources of the  *)
(* phase are pushed, concurrently; a record travels from operator to       *)
(* operator by nested calls of consume, and the answers (false: no more)   *)
(* stop the sources early.  Tables of joins, aggregate values and          *)
(* materialized rows survive from the phase that collects them.            *)
(*                                                                         *)
(* One step pushes one record of one source: everything above the first    *)
(* union is private to the thread that pushes, and a union is entered      *)
(* under its mutex and left when the record has been consumed below it.    *)
(* MergeSorted is left to the module of that name.                         *)
(***************************************************************************)
EXTENDS Planner, SequencesExt

CONSTANTS Programs,     \* programs: [ops |-> relations, tops |-> queries]
          Contents,     \* families of rows of the sources, by kind
          Limit,        \* the count of every LIMIT and top-k
          Eof           \* the nullptr that ends a stream

VARIABLES program, rows,
          phase,        \* run(): the phase that executes, Planning before
          left,         \* of each source whose push() began, the rows to come
          pushed,       \* the sources of the phase whose push() returned
          subs,         \* subscribers_ of each physical operator
          local,        \* the private state of each physical operator
          shared,       \* of each operation, the state its operators share
          out           \* of each query, the rows and the number of ends

runVars == <<left, pushed, subs, local, shared, out>>
engineVars == <<vars, program, rows, phase, runVars>>

Planning == -1
Null == -1              \* less than every value

----------------------------------------------------------------------------
\* Records are functions from fields to values; a field that was not required
\* reads as null.
value(rec, f) == IF f \in DOMAIN rec THEN rec[f] ELSE Null
restrict(rec, F) == [f \in DOMAIN rec \cap F |-> rec[f]]

\* The scalars and aggregates of the model: a filter keeps values from 2 on,
\* a projector copies a field, an aggregate counts the values of a field.
only(F) == CHOOSE f \in F : TRUE
key(r, rec) == value(rec, only(r.own))
condition(r, rec) == key(r, rec) >= 2
project(r, F, rec) == [f \in DOMAIN r.projs \cap F |-> value(rec, only(r.projs[f]))]
aggregates(r, F, recs) ==
  [f \in DOMAIN r.projs \cap F |->
     Len(SelectSeq(recs, LAMBDA rec : value(rec, only(r.projs[f])) # Null))]
keyed(r, rec) == [f \in r.out |-> key(r, rec)]
groups(r, F, recs) ==
  LET keys == SetToSortSeq({key(r, rec) : rec \in Range(recs)}, <)
      group(v) == SelectSeq(recs, LAMBDA rec : key(r, rec) = v)
  IN [g \in 1..Len(keys) |->
        aggregates(r, F, group(keys[g])) @@ keyed(r, Head(group(keys[g])))]
sorted(r, recs) ==
  LET order == SetToSortSeq(DOMAIN recs, LAMBDA a, b :
                 \/ key(r, recs[a]) < key(r, recs[b])
                 \/ key(r, recs[a]) = key(r, recs[b]) /\ a < b)
  IN [k \in 1..Len(recs) |-> recs[order[k]]]
matchKey(r, rec) == value(rec, only(r.match))
contains(r, table, rec) == \E m \in Range(table) : matchKey(r, m) = key(r, rec)
matching(r, table, rec) == SelectSeq(table, LAMBDA m : matchKey(r, m) = key(r, rec))
mark(r, table, rec) ==
  [f \in r.out |-> IF contains(r, table, rec) THEN 1 ELSE 0] @@ rec
joined(r, table, rec) ==
  IF key(r, rec) = Null \/ ~contains(r, table, rec) THEN <<rec>>
  ELSE [k \in 1..Len(matching(r, table, rec)) |-> rec @@ matching(r, table, rec)[k]]

----------------------------------------------------------------------------
\* The machine state the nested calls of consume pass along.
Machine == [subs |-> subs, local |-> local, shared |-> shared, out |-> out]

active(st, n) == st.subs[n] # {}

\* The answer of a call that only tests for subscribers.
answer(st, b) == [st |-> st, cont |-> b]

RECURSIVE emit(_, _, _), emitAll(_, _, _), consume(_, _, _)

emitting(st, n, rec) == LET e == emit(st, n, rec) IN answer(e, active(e, n))

\* Mutated forms of definitions below; none is part of the specification.
consumeOutput_Stays(st, q, rec) ==
  IF rec = Eof THEN answer([st EXCEPT !.out[q].ends = @ + 1], TRUE)
  ELSE answer([st EXCEPT !.out[q].rows = Append(@, rec)], TRUE)
kept_OneMore(r, recs) ==
  IF r.kind = "topk" /\ Len(recs) > Limit + 1
  THEN SubSeq(sorted(r, recs), 1, Limit + 1) ELSE recs
consumeUnion_EveryEof(st, n, r, rec) ==
  IF rec = Eof THEN answer(st, FALSE) ELSE emitting(st, n, rec)
sourcesOf_AllPhases(p) ==
  {<<i, p>> : i \in {j \in built : ops[j].kind \in Sources}}

\* OperationBase::emit: every subscriber in turn; the ones that answer false
\* are erased.
emit(st, n, rec) ==
  FoldLeft(LAMBDA acc, s :
             LET c == consume(acc, s, rec)
             IN IF c.cont THEN c.st ELSE [c.st EXCEPT !.subs[n] = @ \ {s}],
           st, SetToSeq(st.subs[n]))

\* Rows one after the other, until nobody listens.
emitAll(st, n, recs) ==
  IF recs = <<>> THEN answer(st, TRUE)
  ELSE LET e == emitting(st, n, Head(recs))
       IN IF e.cont THEN emitAll(e.st, n, Tail(recs)) ELSE e

\* ... and then the end of the stream.
emitAndEnd(st, n, recs) ==
  LET e == emitAll(st, n, recs) IN IF e.cont THEN emitting(e.st, n, Eof) ELSE e

\* ConsumerBridge::consume
consumeOutput(st, q, rec) ==
  IF rec = Eof
  THEN answer([st EXCEPT !.out[q].ends = @ + 1], FALSE)
  ELSE LET row == [f \in schema[top_operations[q]] |-> value(rec, f)]
       IN answer([st EXCEPT !.out[q].rows = Append(@, row)], TRUE)

consumeFilter(st, n, r, rec) ==
  IF rec = Eof \/ condition(r, rec) THEN emitting(st, n, rec)
  ELSE answer(st, active(st, n))

consumeProjection(st, n, r, rec) ==
  emitting(st, n, IF rec = Eof THEN Eof
                  ELSE project(r, required_fields[n[1]][n[2]], rec))

\* local: the rows still to be let through.
consumeLimit(st, n, r, rec) ==
  IF rec = Eof \/ st.local[n] = 0 THEN emitting(st, n, Eof)
  ELSE LET e == emitting([st EXCEPT !.local[n] = @ - 1], n, rec)
       IN IF e.cont /\ e.st.local[n] = 0 THEN emitting(e.st, n, Eof) ELSE e

\* Sort, TopK and Group; local: the rows kept.  At the end the result, and
\* the rows are dropped.
kept(r, recs) ==
  IF r.kind = "topk" /\ Len(recs) > Limit
  THEN SubSeq(sorted(r, recs), 1, Limit) ELSE recs
result(r, F, recs) ==
  IF r.kind = "group" THEN groups(r, F, recs) ELSE sorted(r, recs)
consumeBuffered(st, n, r, rec) ==
  IF rec # Eof
  THEN LET b == active(st, n)
       IN answer([st EXCEPT !.local[n] =
                    IF b THEN kept(r, Append(@, rec)) ELSE <<>>], b)
  ELSE emitAndEnd([st EXCEPT !.local[n] = <<>>], n,
                  result(r, required_fields[n[1]][n[2]], st.local[n]))

\* UnionAll::consume; local: [finished, eofs]
consumeUnion(st, n, r, rec) ==
  LET last == st.local[n].eofs + 1 = Len(r.args)
      e == emitting(st, n, rec)
  IN IF st.local[n].finished THEN answer(st, FALSE)
     ELSE IF rec = Eof
     THEN LET t == [st EXCEPT !.local[n] = [finished |-> last, eofs |-> @.eofs + 1]]
          IN answer(IF last THEN emit(t, n, Eof) ELSE t, FALSE)
     ELSE answer([e.st EXCEPT !.local[n].finished = ~e.cont], e.cont)

\* AggregateCollector::consume; local: what the aggregators were fed.
consumeAggregate(st, n, r, rec) ==
  IF rec # Eof
  THEN answer([st EXCEPT !.local[n] = Append(@, rec)], active(st, n))
  ELSE LET v == aggregates(r, DOMAIN r.projs, st.local[n])
           t == [st EXCEPT !.shared[n[1]] = <<v>>, !.local[n] = <<>>]
       IN answer(emitAndEnd(t, n, <<v>>).st, FALSE)

\* MaterializeCollector::consume: goes on without subscribers.
consumeMaterialize(st, n, r, rec) ==
  LET t == IF rec = Eof THEN st ELSE [st EXCEPT !.shared[n[1]] = Append(@, rec)]
  IN answer(IF active(t, n) THEN emit(t, n, rec) ELSE t, rec # Eof)

\* HashSemiJoinBuild, HashMarkJoinBuild, HashLeftJoinBuild
consumeBuild(st, i, r, rec) ==
  IF rec = Eof THEN answer(st, FALSE)
  ELSE IF r.kind = "leftjoin" /\ matchKey(r, rec) = Null THEN answer(st, TRUE)
  ELSE answer([st EXCEPT !.shared[i] = Append(@, rec)], TRUE)

consumeSemiJoin(st, n, r, rec) ==
  LET table == st.shared[n[1]]
  IN IF rec = Eof \/ table = <<>> THEN emitting(st, n, Eof)
     ELSE IF contains(r, table, rec) THEN emitting(st, n, rec)
     ELSE answer(st, active(st, n))

consumeMarkJoin(st, n, r, rec) ==
  emitting(st, n, IF rec = Eof THEN Eof ELSE mark(r, st.shared[n[1]], rec))

consumeLeftJoin(st, n, r, rec) ==
  IF rec = Eof THEN emitting(st, n, Eof)
  ELSE emitAll(st, n, joined(r, st.shared[n[1]], rec))

\* Subscriber::consume of input s[3] of the operator <<s[1], s[2]>>.
consume(st, s, rec) ==
  LET i == s[1]
      n == <<s[1], s[2]>>
      r == ops[i]
  IN IF i = 0 THEN consumeOutput(st, s[2], rec)
     ELSE IF s[2] = Table THEN consumeBuild(st, i, r, rec)
     ELSE CASE r.kind = "filter" -> consumeFilter(st, n, r, rec)
            [] r.kind = "projection" -> consumeProjection(st, n, r, rec)
            [] r.kind = "limit" -> consumeLimit(st, n, r, rec)
            [] r.kind \in {"sort", "topk", "group"} -> consumeBuffered(st, n, r, rec)
            [] r.kind = "union" -> consumeUnion(st, n, r, rec)
            [] r.kind = "aggregate" -> consumeAggregate(st, n, r, rec)
            [] r.kind = "materialize" -> consumeMaterialize(st, n, r, rec)
            [] r.kind = "semijoin" -> consumeSemiJoin(st, n, r, rec)
            [] r.kind = "markjoin" -> consumeMarkJoin(st, n, r, rec)
            [] r.kind = "leftjoin" -> consumeLeftJoin(st, n, r, rec)

----------------------------------------------------------------------------
EngineInit ==
  /\ Init
  /\ program \in Programs
  /\ rows \in Contents
  /\ phase = Planning
  /\ left = <<>> /\ pushed = {} /\ subs = <<>> /\ local = <<>> /\ shared = <<>> /\ out = <<>>

\* The statements of the program, in order: first its relations, then its
\* queries; then the builder.
Plan ==
  /\ phase = Planning
  /\ \/ /\ Len(ops) < Len(program.ops)
        /\ planRelation(program.ops[Len(ops) + 1])
     \/ /\ Len(ops) = Len(program.ops)
        /\ Len(top_operations) < Len(program.tops)
        /\ planStatement(program.tops[Len(top_operations) + 1])
     \/ requestOutput
     \/ /\ Len(top_operations) = Len(program.tops)
        /\ \E i \in Ids : build(i)
  /\ UNCHANGED <<program, rows, phase, runVars>>

\* The sources pushed in a phase: those of the plan and, in later phases, the
\* emitters of collected state.
sourcesOf(p) ==
  {<<i, p>> : i \in {j \in built :
     /\ p \in DOMAIN required_fields[j]
     /\ \/ ops[j].kind \in Sources
        \/ ops[j].kind \in Collectors /\ p # min_phase[j]}}

\* The rows an emitter or a source will emit, at the start of its push().  An
\* aggregate that was not collected has no values to read: undefined
\* behaviour, which AggregateCollected excludes.
content(n) ==
  LET r == ops[n[1]]
  IN CASE r.kind \in Sources ->
            [k \in 1..Len(rows[r.kind]) |->
               [f \in DOMAIN r.projs \cap required_fields[n[1]][n[2]] |-> rows[r.kind][k]]]
       [] r.kind \in Collectors -> shared[n[1]]

initialState(n) ==
  CASE ops[n[1]].kind = "limit" -> Limit
    [] ops[n[1]].kind = "union" -> [finished |-> FALSE, eofs |-> 0]
    [] OTHER -> <<>>

\* runWithSinks: the outputs subscribe, then run().
Start ==
  /\ phase = Planning /\ Complete /\ Len(top_operations) = Len(program.tops)
  /\ phase' = 0
  /\ subs' = [n \in Ids \X (0..MaxOps) |->
       {w.to : w \in {x \in wires : x.from = n}}
         \cup {<<0, q, 1>> : q \in {q \in 1..Len(top_operations) :
                              n = <<top_operations[q], min_phase[top_operations[q]]>>}}]
  /\ local' = [n \in Ids \X (0..MaxOps) |-> initialState(n)]
  /\ shared' = [i \in Ids |-> <<>>]
  /\ out' = [q \in 1..Len(top_operations) |-> [rows |-> <<>>, ends |-> 0]]
  /\ UNCHANGED <<vars, program, rows, left, pushed>>

apply(st) ==
  /\ subs' = st.subs /\ local' = st.local /\ shared' = st.shared /\ out' = st.out

Extend(f, x, y) == [z \in DOMAIN f \cup {x} |-> IF z = x THEN y ELSE f[z]]

\* A worker picks up a source: push() begins.
Begin(n) ==
  /\ phase # Planning /\ n \in sourcesOf(phase) \ (DOMAIN left \cup pushed)
  /\ left' = Extend(left, n, content(n))
  /\ UNCHANGED <<vars, program, rows, phase, pushed, subs, local, shared, out>>

\* push(): the next record, or the nullptr after the last; the source is done
\* when nobody listens.
Push(n) ==
  /\ n \in DOMAIN left
  /\ LET last == left[n] = <<>>
         e == emitting(Machine, n, IF last THEN Eof ELSE Head(left[n]))
     IN /\ apply(e.st)
        /\ IF last \/ ~e.cont
           THEN /\ left' = [m \in DOMAIN left \ {n} |-> left[m]]
                /\ pushed' = pushed \cup {n}
           ELSE left' = [left EXCEPT ![n] = Tail(@)] /\ UNCHANGED pushed
  /\ UNCHANGED <<vars, program, rows, phase>>

\* run(): the latch opens, the next phase begins.
PhaseDone == phase # Planning /\ sourcesOf(phase) \subseteq pushed

NextPhase ==
  /\ PhaseDone /\ phase < MaxOps
  /\ phase' = phase + 1
  /\ pushed' = {}
  /\ UNCHANGED <<vars, program, rows, left, subs, local, shared, out>>

Finished == PhaseDone /\ phase = MaxOps

EngineNext ==
  \/ Plan \/ Start \/ NextPhase
  \/ \E n \in Ids \X (0..MaxOps) : Begin(n) \/ Push(n)
  \/ Finished /\ UNCHANGED engineVars

EngineSpec == EngineInit /\ [][EngineNext]_engineVars
----------------------------------------------------------------------------
\* The meaning of the relations, independent of phases and of streaming: the
\* row sequences each may produce.
Interleavings(a, b) ==
  {[k \in 1..(Len(a) + Len(b)) |->
      IF k \in S THEN a[Cardinality({x \in S : x <= k})]
                 ELSE b[k - Cardinality({x \in S : x <= k})]]
   : S \in kSubset(Len(a), 1..(Len(a) + Len(b)))}

UnionOf(A, B) == UNION {Interleavings(a, b) : <<a, b>> \in A \X B}

map(Op(_), s) == [k \in 1..Len(s) |-> Op(s[k])]
prefix(s) == SubSeq(s, 1, IF Len(s) < Limit THEN Len(s) ELSE Limit)
padded(F, rec) == [f \in DOMAIN rec \cup F |-> value(rec, f)]

Meaning[i \in Ids] ==
  LET r == ops[i]
      E == Meaning[source(r)]
      M == Meaning[match(r)]
  IN CASE r.kind \in Sources ->
            {[k \in 1..Len(rows[r.kind]) |-> [f \in DOMAIN r.projs |-> rows[r.kind][k]]]}
       [] r.kind = "filter" -> {SelectSeq(e, LAMBDA rec : condition(r, rec)) : e \in E}
       [] r.kind = "projection" ->
            {map(LAMBDA rec : project(r, Fields, rec), e) : e \in E}
       [] r.kind = "limit" -> {prefix(e) : e \in E}
       [] r.kind = "sort" -> {sorted(r, e) : e \in E}
       [] r.kind = "topk" -> {prefix(sorted(r, e)) : e \in E}
       [] r.kind = "group" -> {groups(r, Fields, e) : e \in E}
       [] r.kind = "aggregate" -> {<<aggregates(r, Fields, e)>> : e \in E}
       [] r.kind = "materialize" -> E
       [] r.kind = "union" -> FoldLeft(LAMBDA A, a : UnionOf(A, Meaning[a]), {<<>>}, r.args)
       [] r.kind = "semijoin" ->
            {SelectSeq(e, LAMBDA rec : contains(r, m, rec)) : <<m, e>> \in M \X E}
       [] r.kind = "markjoin" ->
            {map(LAMBDA rec : mark(r, m, rec), e) : <<m, e>> \in M \X E}
       [] r.kind = "leftjoin" ->
            {map(LAMBDA rec : padded(schema[match(r)], rec),
                 FlattenSeq(map(LAMBDA rec : joined(r, m, rec), e)))
               : <<m, e>> \in M \X E}

\* Whatever the interleaving of the sources, however the work was cut into
\* phases and wherever a stream was stopped early, each query has printed
\* rows that its relation means.
ResultsCorrect ==
  Finished => \A q \in DOMAIN out : out[q].rows \in Meaning[top_operations[q]]

\* A query's output is ended at most once and nothing follows the end: a
\* second done() of its sink panics.
EndsOnce ==
  [][\A q \in DOMAIN out : out[q].ends = 1 => out'[q] = out[q]]_engineVars

\* Values::push and Log::push verify that somebody listens.
VerifyActive ==
  phase # Planning =>
    \A n \in sourcesOf(phase) \ (DOMAIN left \cup pushed) :
      ops[n[1]].kind \in Sources => subs[n] # {}

\* When all phases are over, every query's output has been ended: no stream
\* was stopped without its nullptr.
QueriesEnd == Finished => \A q \in DOMAIN out : out[q].ends = 1

\* A value that is emitted in a later phase was collected in an earlier one.
AggregateCollected ==
  \A n \in DOMAIN left : ops[n[1]].kind = "aggregate" => shared[n[1]] # <<>>
=============================================================================
