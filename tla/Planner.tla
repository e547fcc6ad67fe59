------------------------------ MODULE Planner ------------------------------
(***************************************************************************)
(* The planner and the builder.  The planner turns relations into          *)
(* operations, gives each the first phase in which it can be asked for     *)
(* output (min_phase), and lets every query ask its operation for all      *)
(* fields; the requests travel down the graph of shared operations and     *)
(* leave in required_fields which fields of which operation are wanted in  *)
(* which phase.  The builder then makes one physical operator for each     *)
(* operation and phase and connects them.                                  *)
(***************************************************************************)
EXTENDS Integers, Sequences

CONSTANTS Fields,       \* field ids
          Relations,    \* the IR relations the statements may contain
          MaxOps,       \* bound: operations in a plan
          MaxQueries    \* bound: query statements

Sources == {"values", "log"}            \* values: Empty too; log: Stream too
Joins == {"semijoin", "markjoin", "leftjoin"}
Collectors == {"aggregate", "materialize"}
Unions == {"union", "merge"}
Keyed == {"filter", "sort", "topk"}     \* pass their input's fields through
Kinds == Sources \cup Joins \cup Collectors \cup Unions \cup Keyed
           \cup {"projection", "group", "limit"}

\* A relation: its inputs (of a join: <<match, source>> or <<right, left>>),
\* the fields its scalars read of the source (own) and of the match side
\* (match), its projectors or aggregates (projs: output field to the fields
\* read) and the other fields it adds (out: group key, mark).
RelationType ==
  [kind : Kinds, args : Seq(Nat \ {0}), own : SUBSET Fields, match : SUBSET Fields,
   projs : UNION {[S -> SUBSET Fields] : S \in SUBSET Fields}, out : SUBSET Fields]

Arity(r) ==
  /\ r.kind \in Sources => r.args = <<>>
  /\ r.kind \in Joins => Len(r.args) = 2
  /\ r.kind \in Unions => r.args # <<>>
  /\ r.kind \notin Sources \cup Joins \cup Unions => Len(r.args) = 1

ASSUME PlanAssumption ==
  /\ Relations \subseteq RelationType
  /\ \A r \in Relations : Arity(r)
  /\ MaxOps \in Nat /\ MaxQueries \in Nat

VARIABLES ops,          \* the operations, in the order they are planned
          min_phase,
          schema,
          required_fields,      \* of each operation: phase -> fields
          top_operations,       \* the operations of the queries
          stack,        \* the pending calls of requestOutput, innermost first
          built,        \* built: the operations the builder is done with
          wires         \* the connections between physical operators

planVars == <<ops, min_phase, schema, required_fields, top_operations, stack>>
vars == <<planVars, built, wires>>

Ids == 1..Len(ops)
Table == -1

Init ==
  /\ ops = <<>> /\ min_phase = <<>> /\ schema = <<>> /\ required_fields = <<>>
  /\ top_operations = <<>> /\ stack = <<>>
  /\ built = {} /\ wires = {}

\* The input a relation streams: its only one, or the last of a join's.
source(r) == r.args[Len(r.args)]
match(r) == r.args[1]

request(a, phase, fields) == [op |-> a, phase |-> phase, fields |-> fields]

\* std::map: the phases and what is required in them.
put(f, phase, fields) ==
  [q \in DOMAIN f \cup {phase} |-> IF q = phase THEN fields ELSE f[q]]
lookup(f, phase) == IF phase \in DOMAIN f THEN f[phase] ELSE {}

----------------------------------------------------------------------------
\* Mutated forms of definitions below; none is part of the specification.
planStatement_PhaseBefore(i) ==
  /\ stack = <<>> /\ built = {} /\ Len(top_operations) < MaxQueries
  /\ top_operations' = Append(top_operations, i)
  /\ required_fields' =
       [required_fields EXCEPT ![i] = put(@, min_phase[i] - 1, schema[i])]
  /\ UNCHANGED <<ops, min_phase, schema, stack, built, wires>>
requests_TableAtZero(i, phase, out) ==
  IF ops[i].kind \in Joins
  THEN <<request(match(ops[i]), 0, ops[i].match),
         request(source(ops[i]), phase, out \cup ops[i].own)>>
  ELSE [k \in 1..Len(ops[i].args) |-> request(ops[i].args[k], phase, {})]
gets_TableInPhase(i) ==
  {[from |-> <<ops[i].args[k], p>>, to |-> <<i, p, k>>] :
     k \in 1..Len(ops[i].args), p \in DOMAIN required_fields[i]}
floors_NoGap(r) == {0} \cup {min_phase[r.args[k]] : k \in 1..Len(r.args)}
----------------------------------------------------------------------------
\* What the binder and the lowering guarantee of a relation whose inputs have
\* the schemas sch.
Bound(sch, r) ==
  /\ \A k \in 1..Len(r.args) : r.args[k] \in DOMAIN sch
  /\ r.kind \notin Sources =>
       /\ r.own \subseteq sch[source(r)]
       /\ \A f \in DOMAIN r.projs : r.projs[f] \subseteq sch[source(r)]
  /\ r.kind \in Unions =>
       \A k \in 1..Len(r.args) : sch[r.args[k]] = sch[source(r)]
  /\ r.kind \in Joins => r.match \subseteq sch[match(r)]
  /\ r.kind = "leftjoin" => sch[match(r)] \cap sch[source(r)] = {}

schemaOf(sch, r) ==
  CASE r.kind \in Sources \cup {"projection", "aggregate"} -> DOMAIN r.projs
    [] r.kind = "group" -> DOMAIN r.projs \cup r.out
    [] r.kind = "markjoin" -> sch[source(r)] \cup r.out
    [] r.kind = "leftjoin" -> sch[source(r)] \cup sch[match(r)]
    [] OTHER -> sch[source(r)]

\* An operation runs no earlier than its inputs, a join no earlier than one
\* phase after its table can be built.
floors(r) ==
  {0} \cup (IF r.kind \in Joins
            THEN {min_phase[match(r)] + 1, min_phase[source(r)]}
            ELSE {min_phase[r.args[k]] : k \in 1..Len(r.args)})

\* planRelation: the operation of one relation, min_phase the latest floor.
planRelation(r) ==
  /\ stack = <<>> /\ built = {} /\ Len(ops) < MaxOps
  /\ Bound(schema, r)
  /\ \E m \in floors(r) :
       /\ \A f \in floors(r) : f <= m
       /\ min_phase' = Append(min_phase, m)
  /\ ops' = Append(ops, r)
  /\ schema' = Append(schema, schemaOf(schema, r))
  /\ required_fields' = Append(required_fields, <<>>)
  /\ UNCHANGED <<top_operations, stack, built, wires>>

\* requiredProjectorsFields, requiredFields
projected(r, out) == UNION {r.projs[f] : f \in DOMAIN r.projs \cap out}

\* init: the calls of requestOutput an operation makes for a phase in which
\* the fields out are required of it.
requests(i, phase, out) ==
  LET r == ops[i]  s == source(r)  m == match(r)
  IN CASE r.kind \in Sources -> <<>>
       [] r.kind = "aggregate" ->
            <<request(s, min_phase[i], projected(r, DOMAIN r.projs))>>
       [] r.kind = "materialize" -> <<request(s, min_phase[i], out)>>
       [] r.kind = "projection" -> <<request(s, phase, projected(r, out))>>
       [] r.kind = "group" -> <<request(s, phase, r.own \cup projected(r, out))>>
       [] r.kind \in Keyed \cup {"limit"} -> <<request(s, phase, out \cup r.own)>>
       [] r.kind \in Unions ->
            [k \in 1..Len(r.args) |-> request(r.args[k], phase, out \cup r.own)]
       [] r.kind = "semijoin" ->
            <<request(m, min_phase[m], r.match), request(s, phase, out \cup r.own)>>
       [] r.kind = "markjoin" ->
            <<request(m, min_phase[m], r.match),
              request(s, phase, (out \ r.out) \cup r.own)>>
       [] r.kind = "leftjoin" ->
            <<request(s, phase, (out \cap schema[s]) \cup r.own),
              request(m, min_phase[m], (out \cap schema[m]) \cup r.match)>>

\* Two more mutated forms.
planStatement_TwoPhases(i) ==
  /\ stack = <<>> /\ built = {} /\ Len(top_operations) < MaxQueries
  /\ top_operations' = Append(top_operations, i)
  /\ required_fields' = [required_fields EXCEPT ![i] =
       put(put(@, min_phase[i], schema[i]), min_phase[i] + 1, schema[i])]
  /\ stack' = requests(i, min_phase[i], schema[i])
                \o requests(i, min_phase[i] + 1, schema[i])
  /\ UNCHANGED <<ops, min_phase, schema, built, wires>>
requestOutput_OncePerPhase ==
  /\ stack # <<>>
  /\ LET c == Head(stack)
         merged == lookup(required_fields[c.op], c.phase) \cup c.fields
     IN /\ required_fields' =
             [required_fields EXCEPT ![c.op] = put(@, c.phase, merged)]
        /\ stack' = IF c.phase \in DOMAIN required_fields[c.op] THEN Tail(stack)
                    ELSE requests(c.op, c.phase, merged) \o Tail(stack)
  /\ UNCHANGED <<ops, min_phase, schema, top_operations, built, wires>>

\* planStatement of a query: all fields of its operation, in its first phase.
\* The assignment overwrites what other queries asked of it there.
planStatement(i) ==
  /\ stack = <<>> /\ built = {} /\ Len(top_operations) < MaxQueries
  /\ top_operations' = Append(top_operations, i)
  /\ required_fields' =
       [required_fields EXCEPT ![i] = put(@, min_phase[i], schema[i])]
  /\ stack' = requests(i, min_phase[i], schema[i])
  /\ UNCHANGED <<ops, min_phase, schema, built, wires>>

\* requestOutput: the innermost pending call.  It adds to what is required of
\* the emitter and makes the emitter's own requests before the others.
requestOutput ==
  /\ stack # <<>>
  /\ LET c == Head(stack)
         merged == lookup(required_fields[c.op], c.phase) \cup c.fields
     IN /\ required_fields' =
             [required_fields EXCEPT ![c.op] = put(@, c.phase, merged)]
        /\ stack' = requests(c.op, c.phase, merged) \o Tail(stack)
  /\ UNCHANGED <<ops, min_phase, schema, top_operations, built, wires>>

----------------------------------------------------------------------------
\* The operations Builder::build reaches from the queries.
reachable[i \in Ids] ==
  \/ \E q \in 1..Len(top_operations) : top_operations[q] = i
  \/ \E j \in (i + 1)..Len(ops) :
       reachable[j] /\ \E k \in 1..Len(ops[j].args) : ops[j].args[k] = i

\* get(from)->output(to): the physical operator of operation from[1] in phase
\* from[2] streams into input to[3] of the one of to[1] in phase to[2]; the
\* phase of a join's build side is Table.  A collector's or a table's input
\* is connected once, the streamed inputs in each required phase.
wire(a, p, i, q, k) == [from |-> <<a, p>>, to |-> <<i, q, k>>]

gets(i) ==
  LET r == ops[i]
      phases == DOMAIN required_fields[i]
  IN CASE r.kind \in Collectors ->
            {wire(source(r), min_phase[i], i, min_phase[i], 1)}
       [] r.kind \in Joins ->
            {wire(match(r), min_phase[match(r)], i, Table, 1)}
              \cup {wire(source(r), p, i, p, 2) : p \in phases}
       [] OTHER -> {wire(r.args[k], p, i, p, k) : k \in 1..Len(r.args), p \in phases}

\* build: once, after its inputs.  The recursion visits the graph depth
\* first; here the operations follow in the order they were planned.
build(i) ==
  /\ stack = <<>> /\ top_operations # <<>>
  /\ reachable[i] /\ i \notin built
  /\ \A j \in 1..(i - 1) : reachable[j] => j \in built
  /\ built' = built \cup {i}
  /\ wires' = wires \cup gets(i)
  /\ UNCHANGED planVars

Complete == top_operations # <<>> /\ \A i \in Ids : reachable[i] => i \in built

Next ==
  \/ \E r \in Relations : planRelation(r)
  \/ \E i \in Ids : planStatement(i) \/ build(i)
  \/ requestOutput
  \/ Complete /\ UNCHANGED vars

Spec == Init /\ [][Next]_vars
----------------------------------------------------------------------------
TypeOK ==
  /\ ops \in Seq(Relations) /\ Len(ops) <= MaxOps
  /\ min_phase \in [Ids -> 0..MaxOps]
  /\ schema \in [Ids -> SUBSET Fields]
  /\ DOMAIN required_fields = Ids
  /\ \A i \in Ids : /\ DOMAIN required_fields[i] \subseteq 0..MaxOps
                     /\ \A p \in DOMAIN required_fields[i] :
                          required_fields[i][p] \subseteq Fields
  /\ top_operations \in Seq(Ids) /\ Len(top_operations) <= MaxQueries
  /\ \A k \in 1..Len(stack) : /\ stack[k].op \in Ids
                              /\ stack[k].phase \in 0..MaxOps
                              /\ stack[k].fields \subseteq Fields
  /\ built \subseteq Ids
  /\ wires \subseteq [from : Ids \X (0..MaxOps),
                        to : Ids \X (0..MaxOps \cup {Table}) \X Nat]

\* A request an operation can serve: not before its first phase, and of
\* fields it has.
Legal(c) == min_phase[c.op] <= c.phase /\ c.fields \subseteq schema[c.op]

\* requestOutput's two verify() never fail, through any chain of shared
\* operations, and no query's assignment loses a field of another's request.
RequestLegal ==
  /\ \A k \in 1..Len(stack) : Legal(stack[k])
  /\ \A i \in Ids : \A p \in DOMAIN required_fields[i] :
       Legal(request(i, p, required_fields[i][p]))

Served(c) ==
  /\ c.phase \in DOMAIN required_fields[c.op]
  /\ c.fields \subseteq required_fields[c.op][c.phase]

\* Whenever no call is pending, every operation that is to run in a phase
\* will find all fields it reads, produced by its inputs in the right phase.
PlanClosed ==
  stack = <<>> =>
    \A i \in Ids : \A p \in DOMAIN required_fields[i] :
      LET rs == requests(i, p, required_fields[i][p])
      IN \A k \in 1..Len(rs) : Served(rs[k])

\* The requests operation j makes when it is asked for what f says.
Calls(j, f) == UNION {{requests(j, p, f[p])[k] : k \in 1..Len(requests(j, p, f[p]))}
                      : p \in DOMAIN f}

\* What the queries and the consumers of operation i need of it.
need[i \in Ids] ==
  LET asked == {c \in UNION {Calls(j, need[j]) : j \in (i + 1)..Len(ops)} : c.op = i}
                 \cup {request(i, min_phase[i], schema[i]) :
                         q \in {q \in 1..Len(top_operations) : top_operations[q] = i}}
  IN [p \in {c.phase : c \in asked} |->
        UNION {c.fields : c \in {d \in asked : d.phase = p}}]

\* The order of the statements and of the calls does not matter: what is
\* required of an operation is what its consumers need, and no more.
PlanExact ==
  stack = <<>> => \A i \in Ids : required_fields[i] = need[i]

\* Builder::get's verify() never fails: the physical operators that are
\* connected have been built.
BuildVerified ==
  \A w \in wires :
    w.from[1] \in built /\ w.from[2] \in DOMAIN required_fields[w.from[1]]

\* A join probes only in phases after the one in which its table is built,
\* through every chain of joins and shared operations.
TablesFirst ==
  \A i \in Ids : \A p \in DOMAIN required_fields[i] :
    ops[i].kind \in Joins => min_phase[match(ops[i])] < p
=============================================================================
