--------------------------- MODULE PlannerProofs ---------------------------
(***************************************************************************)
(* For every set of relations, of any size, and any number of queries: the *)
(* planner's requests are legal, joins probe after their tables are built, *)
(* when no call is pending every operation finds its fields, and the       *)
(* builder connects what it has built.                                     *)
(*                                                                         *)
(* PlanClosed says nothing of the states between two calls of              *)
(* requestOutput and is not inductive.  Closing is: what an operation      *)
(* needs is served already or asked for by a pending call.  That calls are *)
(* legal follows from what planRelation establishes once for every         *)
(* operation (Planned): phases do not decrease along the graph and the     *)
(* fields an operation reads are in the schemas of its inputs.             *)
(***************************************************************************)
EXTENDS Planner, SequenceTheorems, WellFoundedInduction, TLAPS

Phases == 0..MaxOps
PhaseMap == UNION {[P -> SUBSET Fields] : P \in SUBSET Phases}
Request == [op : Ids, phase : Phases, fields : SUBSET Fields]

Types ==
  /\ ops \in Seq(Relations) /\ Len(ops) <= MaxOps
  /\ min_phase \in Seq(Nat) /\ Len(min_phase) = Len(ops)
  /\ schema \in Seq(SUBSET Fields) /\ Len(schema) = Len(ops)
  /\ required_fields \in Seq(PhaseMap) /\ Len(required_fields) = Len(ops)
  /\ stack \in Seq(Request)

\* What planRelation established of an operation, and later steps keep.
Planned(i) ==
  /\ min_phase[i] < i
  /\ \A k \in 1..Len(ops[i].args) :
       /\ ops[i].args[k] \in 1..(i - 1)
       /\ min_phase[ops[i].args[k]] <= min_phase[i]
  /\ ops[i].kind \in Joins => min_phase[match(ops[i])] < min_phase[i]
  /\ Bound(schema, ops[i])
  /\ schema[i] = schemaOf(schema, ops[i])

AllPlanned == \A i \in Ids : Planned(i)

PendingIn(st, c) ==
  \E k \in 1..Len(st) :
    /\ st[k].op = c.op /\ st[k].phase = c.phase
    /\ c.fields \subseteq st[k].fields

Pending(c) == PendingIn(stack, c)

\* Served, of given contents of required_fields.
ServedBy(rf, c) ==
  /\ c.phase \in DOMAIN rf[c.op]
  /\ c.fields \subseteq rf[c.op][c.phase]

\* PlanClosed, strengthened to the states in which calls are pending: what an
\* operation needs is served or will be.
Closing ==
  \A i \in Ids : \A p \in DOMAIN required_fields[i] :
    LET rs == requests(i, p, required_fields[i][p])
    IN \A k \in 1..Len(rs) : Served(rs[k]) \/ Pending(rs[k])

Inv == Types /\ AllPlanned /\ RequestLegal /\ Closing
----------------------------------------------------------------------------
\* The relations are well-formed records.
LEMMA RelationFacts ==
  ASSUME NEW r \in Relations
  PROVE  /\ r.kind \in Kinds
         /\ r.args \in Seq(Nat \ {0})
         /\ r.own \subseteq Fields /\ r.match \subseteq Fields /\ r.out \subseteq Fields
         /\ DOMAIN r.projs \subseteq Fields
         /\ \A f \in DOMAIN r.projs : r.projs[f] \subseteq Fields
         /\ Arity(r)
<1>1. r \in RelationType /\ Arity(r)
  BY PlanAssumption
<1>2. PICK S \in SUBSET Fields : r.projs \in [S -> SUBSET Fields]
  BY <1>1 DEF RelationType
<1> QED
  BY <1>1, <1>2 DEF RelationType

\* The inputs of a relation by their names.
LEMMA ArgFacts ==
  ASSUME NEW r \in Relations
  PROVE  /\ r.kind \notin Sources => \E k \in 1..Len(r.args) : source(r) = r.args[k]
         /\ r.kind \notin Sources => \E k \in 1..Len(r.args) : match(r) = r.args[k]
         /\ r.kind \in Joins => \E k \in 1..Len(r.args) : match(r) = r.args[k]
         /\ r.kind \in Joins =>
              \A k \in 1..Len(r.args) : r.args[k] = match(r) \/ r.args[k] = source(r)
<1>1. r.args \in Seq(Nat \ {0}) /\ Arity(r)
  BY RelationFacts
<1>2. r.kind \notin Sources => \E k \in 1..Len(r.args) : source(r) = r.args[k]
  BY <1>1 DEF Arity, source, Sources, Joins, Unions
<1>3. r.kind \notin Sources => \E k \in 1..Len(r.args) : match(r) = r.args[k]
  BY <1>1 DEF Arity, match, Sources, Joins, Unions
<1>5. r.kind \in Joins => r.kind \notin Sources
  BY DEF Joins, Sources
<1>4. r.kind \in Joins =>
        \A k \in 1..Len(r.args) : r.args[k] = match(r) \/ r.args[k] = source(r)
  BY <1>1 DEF Arity, match, source
<1> QED
  BY <1>2, <1>3, <1>4, <1>5

\* The update of one entry of required_fields.
LEMMA PutFacts ==
  ASSUME NEW f \in PhaseMap, NEW p \in Phases, NEW F \in SUBSET Fields
  PROVE  /\ put(f, p, F) \in PhaseMap
         /\ DOMAIN put(f, p, F) = DOMAIN f \cup {p}
         /\ put(f, p, F)[p] = F
         /\ \A q \in DOMAIN f : q # p => put(f, p, F)[q] = f[q]
<1>1. PICK P \in SUBSET Phases : f \in [P -> SUBSET Fields]
  BY DEF PhaseMap
<1>2. put(f, p, F) \in [P \cup {p} -> SUBSET Fields]
  BY <1>1 DEF put
<1>3. P \cup {p} \in SUBSET Phases
  OBVIOUS
<1>4. put(f, p, F) \in PhaseMap
  BY <1>2, <1>3 DEF PhaseMap
<1> QED
  BY <1>1, <1>4 DEF put

\* Reading an entry of required_fields.
LEMMA LookupFacts ==
  ASSUME NEW f \in PhaseMap, NEW p
  PROVE  /\ lookup(f, p) \in SUBSET Fields
         /\ DOMAIN f \subseteq Phases
         /\ \A q \in DOMAIN f : f[q] \in SUBSET Fields
  BY DEF PhaseMap, lookup


\* What is known of an operation's inputs.
LEMMA InputFacts ==
  ASSUME Types, NEW i \in Ids, Planned(i)
  PROVE  /\ ops[i] \in Relations
         /\ schema[i] \in SUBSET Fields /\ min_phase[i] \in Nat
         /\ \A k \in 1..Len(ops[i].args) :
              /\ ops[i].args[k] \in Ids
              /\ min_phase[ops[i].args[k]] \in Nat
              /\ schema[ops[i].args[k]] \in SUBSET Fields
         /\ ops[i].kind \notin Sources =>
              \E k \in 1..Len(ops[i].args) : source(ops[i]) = ops[i].args[k]
         /\ ops[i].kind \in Joins =>
              \E k \in 1..Len(ops[i].args) : match(ops[i]) = ops[i].args[k]
<1>1. ops[i] \in Relations /\ schema[i] \in SUBSET Fields /\ min_phase[i] \in Nat
  BY DEF Types, Ids
<1>2. \A k \in 1..Len(ops[i].args) : ops[i].args[k] \in Ids
  BY DEF Planned, Types, Ids
<1>3. \A j \in Ids : min_phase[j] \in Nat /\ schema[j] \in SUBSET Fields
  BY DEF Types, Ids
<1> QED
  BY <1>1, <1>2, <1>3, ArgFacts

\* What projectors read is in the input's schema.
LEMMA ProjectedFacts ==
  ASSUME Types, NEW i \in Ids, Planned(i), ops[i].kind \notin Sources, NEW F
  PROVE  projected(ops[i], F) \subseteq schema[source(ops[i])]
  BY DEF projected, Planned, Bound


\* Calls of requestOutput whose verify() hold.
Lawful(rs) == rs \in Seq(Request) /\ \A k \in 1..Len(rs) : Legal(rs[k])

\* One lawful call and ...
LEMMA OneLawful ==
  ASSUME NEW c \in Request, Legal(c)
  PROVE  Lawful(<<c>>)
  BY DEF Lawful

\* ... two of them.
LEMMA TwoLawful ==
  ASSUME NEW c \in Request, NEW d \in Request, Legal(c), Legal(d)
  PROVE  Lawful(<<c, d>>)
  BY DEF Lawful

\* A request is lawful if it is for an input, in a phase it can run in, for
\* fields it has.
LEMMA RequestLawful ==
  ASSUME Types, NEW j \in Ids, NEW p \in Phases, NEW F,
         min_phase[j] <= p, F \subseteq schema[j]
  PROVE  request(j, p, F) \in Request /\ Legal(request(j, p, F))
<1>1. schema[j] \in SUBSET Fields
  BY DEF Types, Ids
<1> QED
  BY <1>1 DEF request, Request, Legal

\* An operation that is asked for fields it has, not before its first phase,
\* asks the same of its inputs (init of every kind of operation).
LEMMA RequestsLawful ==
  ASSUME Types, NEW i \in Ids, Planned(i), NEW p \in Phases, min_phase[i] <= p,
         NEW F, F \subseteq schema[i]
  PROVE  Lawful(requests(i, p, F))
<1> DEFINE r == ops[i]
           s == source(r)
           m == match(r)
<1>1. /\ r \in Relations
      /\ schema[i] \in SUBSET Fields /\ min_phase[i] \in Nat
      /\ \A k \in 1..Len(r.args) :
           /\ r.args[k] \in Ids
           /\ min_phase[r.args[k]] \in Nat
           /\ schema[r.args[k]] \in SUBSET Fields
      /\ r.kind \notin Sources => \E k \in 1..Len(r.args) : s = r.args[k]
      /\ r.kind \in Joins => \E k \in 1..Len(r.args) : m = r.args[k]
  BY InputFacts
<1>2. MaxOps \in Nat /\ min_phase[i] \in Phases
  BY <1>1, PlanAssumption DEF Planned, Types, Ids, Phases
<1>3. \A k \in 1..Len(r.args) : min_phase[r.args[k]] <= min_phase[i]
  BY DEF Planned
<1>4. r.kind \notin Sources =>
        /\ s \in Ids /\ min_phase[s] \in Nat /\ min_phase[s] <= min_phase[i]
        /\ min_phase[s] <= p
        /\ r.own \subseteq schema[s]
        /\ \A G : projected(r, G) \subseteq schema[s]
  <2> SUFFICES ASSUME r.kind \notin Sources
               PROVE  /\ s \in Ids /\ min_phase[s] \in Nat
                      /\ min_phase[s] <= min_phase[i] /\ min_phase[s] <= p
                      /\ r.own \subseteq schema[s]
                      /\ \A G : projected(r, G) \subseteq schema[s]
    OBVIOUS
  <2>1. s \in Ids /\ min_phase[s] \in Nat /\ min_phase[s] <= min_phase[i]
    BY <1>1, <1>3
  <2>2. min_phase[s] <= p
    BY <2>1, <1>1, <1>2 DEF Phases
  <2>3. r.own \subseteq schema[s]
    BY DEF Planned, Bound
  <2>4. \A G : projected(r, G) \subseteq schema[s]
    BY ProjectedFacts
  <2> QED
    BY <2>1, <2>2, <2>3, <2>4
<1>5. r.kind \in Joins =>
        /\ m \in Ids /\ min_phase[m] \in Phases
        /\ r.match \subseteq schema[m]
  <2>1. r.kind \in Joins => m \in Ids /\ min_phase[m] \in Nat /\ min_phase[m] <= min_phase[i]
    BY <1>1, <1>3
  <2>2. r.kind \in Joins => r.match \subseteq schema[m]
    BY DEF Planned, Bound
  <2>3. \A x \in Nat : x <= min_phase[i] => x \in Phases
    BY <1>2 DEF Phases
  <2> QED
    BY <2>1, <2>2, <2>3
<1>6. r.kind \in Kinds
  BY <1>1, RelationFacts
<1>7. schema[i] = schemaOf(schema, r)
  BY DEF Planned
<1>a. \A G : r.kind \notin Sources /\ G \subseteq schema[s] =>
        /\ request(s, p, G) \in Request /\ Legal(request(s, p, G))
        /\ request(s, min_phase[i], G) \in Request
        /\ Legal(request(s, min_phase[i], G))
  BY <1>2, <1>4, RequestLawful
<1>b. \A G : r.kind \in Joins /\ G \subseteq schema[m] =>
        /\ request(m, min_phase[m], G) \in Request
        /\ Legal(request(m, min_phase[m], G))
  <2> SUFFICES ASSUME NEW G, r.kind \in Joins, G \subseteq schema[m]
               PROVE  /\ request(m, min_phase[m], G) \in Request
                      /\ Legal(request(m, min_phase[m], G))
    OBVIOUS
  <2>1. m \in Ids /\ min_phase[m] \in Phases
    BY <1>5
  <2> HIDE DEF m
  <2>2. min_phase[m] <= min_phase[m]
    BY <2>1, <1>2 DEF Phases
  <2> QED
    BY <2>1, <2>2, RequestLawful
<1> USE DEF Sources, Joins, Collectors, Unions, Keyed
<1>8. CASE r.kind \in Sources
  <2>1. requests(i, p, F) = <<>>
    BY <1>8 DEF requests
  <2> QED
    BY <2>1 DEF Lawful
<1>9. CASE r.kind = "aggregate"
  <2>1. requests(i, p, F) = <<request(s, min_phase[i], projected(r, DOMAIN r.projs))>>
    BY <1>9 DEF requests
  <2> QED
    BY <2>1, <1>9, <1>4, <1>a, OneLawful
<1>10. CASE r.kind = "materialize"
  <2>1. requests(i, p, F) = <<request(s, min_phase[i], F)>>
    BY <1>10 DEF requests
  <2>2. F \subseteq schema[s]
    BY <1>10, <1>7 DEF schemaOf
  <2> QED
    BY <2>1, <2>2, <1>10, <1>a, OneLawful
<1>11. CASE r.kind = "projection"
  <2>1. requests(i, p, F) = <<request(s, p, projected(r, F))>>
    BY <1>11 DEF requests
  <2> QED
    BY <2>1, <1>11, <1>4, <1>a, OneLawful
<1>12. CASE r.kind = "group"
  <2>1. requests(i, p, F) = <<request(s, p, r.own \cup projected(r, F))>>
    BY <1>12 DEF requests
  <2>2. r.own \cup projected(r, F) \subseteq schema[s]
    BY <1>12, <1>4
  <2> QED
    BY <2>1, <2>2, <1>12, <1>a, OneLawful
<1>13. CASE r.kind \in Keyed \cup {"limit"}
  <2>1. requests(i, p, F) = <<request(s, p, F \cup r.own)>>
    BY <1>13 DEF requests
  <2>2. F \cup r.own \subseteq schema[s]
    BY <1>13, <1>4, <1>7 DEF schemaOf
  <2> QED
    BY <2>1, <2>2, <1>13, <1>a, OneLawful
<1>14. CASE r.kind \in Unions
  <2>1. requests(i, p, F) =
          [k \in 1..Len(r.args) |-> request(r.args[k], p, F \cup r.own)]
    BY <1>14 DEF requests
  <2>2. F \cup r.own \subseteq schema[s]
    BY <1>14, <1>4, <1>7 DEF schemaOf
  <2>3. Len(r.args) \in Nat
    BY <1>1, RelationFacts
  <2>4. ASSUME NEW k \in 1..Len(r.args)
        PROVE  /\ request(r.args[k], p, F \cup r.own) \in Request
               /\ Legal(request(r.args[k], p, F \cup r.own))
    <3>1. schema[r.args[k]] = schema[s]
      BY <1>14 DEF Planned, Bound
    <3>2. r.args[k] \in Ids /\ min_phase[r.args[k]] <= p
      <4>1. r.args[k] \in Ids /\ min_phase[r.args[k]] \in Nat
            /\ min_phase[r.args[k]] <= min_phase[i]
        BY <1>1, <1>3
      <4>2. min_phase[i] \in Nat /\ min_phase[i] <= p /\ p \in Nat
        BY <1>1 DEF Phases
      <4> HIDE DEF r
      <4> QED
        BY <4>1, <4>2
    <3> QED
      BY <2>2, <3>1, <3>2, RequestLawful
  <2> DEFINE n == Len(r.args)
             g == [k \in 1..n |-> request(r.args[k], p, F \cup r.own)]
  <2>5. g \in [1..n -> Request] /\ \A k \in 1..n : Legal(g[k])
    BY <2>4
  <2>6. g \in Seq(Request) /\ Len(g) = n
    <3> HIDE DEF g
    <3> QED
      BY <2>3, <2>5, SeqDef, LenProperties
  <2>7. requests(i, p, F) = g
    BY <2>1
  <2> HIDE DEF g, n
  <2> QED
    BY <2>5, <2>6, <2>7 DEF Lawful
<1>15. CASE r.kind = "semijoin"
  <2>1. requests(i, p, F) =
          <<request(m, min_phase[m], r.match), request(s, p, F \cup r.own)>>
    BY <1>15 DEF requests
  <2>2. F \cup r.own \subseteq schema[s]
    BY <1>15, <1>4, <1>7 DEF schemaOf
  <2> QED
    BY <2>1, <2>2, <1>15, <1>5, <1>a, <1>b, TwoLawful
<1>16. CASE r.kind = "markjoin"
  <2>1. requests(i, p, F) =
          <<request(m, min_phase[m], r.match), request(s, p, (F \ r.out) \cup r.own)>>
    BY <1>16 DEF requests
  <2>2. (F \ r.out) \cup r.own \subseteq schema[s]
    BY <1>16, <1>4, <1>7 DEF schemaOf
  <2> QED
    BY <2>1, <2>2, <1>16, <1>5, <1>a, <1>b, TwoLawful
<1>17. CASE r.kind = "leftjoin"
  <2>1. requests(i, p, F) =
          <<request(s, p, (F \cap schema[s]) \cup r.own),
            request(m, min_phase[m], (F \cap schema[m]) \cup r.match)>>
    BY <1>17 DEF requests
  <2>2. (F \cap schema[s]) \cup r.own \subseteq schema[s]
    BY <1>17, <1>4
  <2>3. (F \cap schema[m]) \cup r.match \subseteq schema[m]
    BY <1>17, <1>5
  <2> QED
    BY <2>1, <2>2, <2>3, <1>17, <1>a, <1>b, TwoLawful
<1> QED
  BY <1>6, <1>8, <1>9, <1>10, <1>11, <1>12, <1>13, <1>14, <1>15, <1>16, <1>17 DEF Kinds


\* What required_fields holds of a phase, or nothing.
LEMMA RequiredFacts ==
  ASSUME Types, RequestLegal, NEW j \in Ids, NEW p \in Phases
  PROVE  /\ required_fields[j] \in PhaseMap
         /\ lookup(required_fields[j], p) \subseteq schema[j]
         /\ \A q \in DOMAIN required_fields[j] :
              /\ q \in Phases
              /\ min_phase[j] <= q
              /\ required_fields[j][q] \subseteq schema[j]
<1>1. required_fields[j] \in PhaseMap
  BY DEF Types, Ids
<1>2. DOMAIN required_fields[j] \subseteq Phases
  BY <1>1, LookupFacts
<1>3. \A q \in DOMAIN required_fields[j] :
        min_phase[j] <= q /\ required_fields[j][q] \subseteq schema[j]
  BY DEF RequestLegal, Legal, request
<1>4. lookup(required_fields[j], p) \subseteq schema[j]
  BY <1>3 DEF lookup
<1> QED
  BY <1>1, <1>2, <1>3, <1>4

\* The elements of two sequences of requests, one after the other.
LEMMA ConcatFacts ==
  ASSUME NEW S, NEW a \in Seq(S), NEW b \in Seq(S)
  PROVE  /\ a \o b \in Seq(S)
         /\ Len(a \o b) = Len(a) + Len(b)
         /\ \A k \in 1..Len(a) : k \in 1..Len(a \o b) /\ (a \o b)[k] = a[k]
         /\ \A k \in 1..Len(b) :
              Len(a) + k \in 1..Len(a \o b) /\ (a \o b)[Len(a) + k] = b[k]
         /\ \A k \in 1..Len(a \o b) :
              \/ k \in 1..Len(a)
              \/ k - Len(a) \in 1..Len(b) /\ k = Len(a) + (k - Len(a))
  OBVIOUS

\* What recording fields of operation j makes of its entry.
LEMMA RecordFacts ==
  ASSUME Types, NEW j \in Ids, NEW ph \in Phases, NEW M \in SUBSET schema[j]
  PROVE  /\ required_fields[j] \in PhaseMap
         /\ put(required_fields[j], ph, M) \in PhaseMap
         /\ DOMAIN put(required_fields[j], ph, M) = DOMAIN required_fields[j] \cup {ph}
         /\ put(required_fields[j], ph, M)[ph] = M
         /\ \A q \in DOMAIN required_fields[j] :
              q # ph => put(required_fields[j], ph, M)[q] = required_fields[j][q]
<1>1. required_fields[j] \in PhaseMap
  BY DEF Types, Ids
<1>2. M \in SUBSET Fields
  BY DEF Types, Ids
<1> QED
  BY <1>1, <1>2, PutFacts

\* A call that asks operation j for the fields M in phase ph: it is recorded
\* and j's own requests are put before the calls that are still pending.
LEMMA Push ==
  ASSUME Inv, NEW j \in Ids, NEW ph \in Phases, min_phase[j] <= ph,
         NEW M \in SUBSET schema[j], lookup(required_fields[j], ph) \subseteq M,
         NEW rest \in Seq(Request), \A k \in 1..Len(rest) : Legal(rest[k]),
         \A d : Pending(d) => \/ d.op = j /\ d.phase = ph /\ d.fields \subseteq M
                              \/ PendingIn(rest, d),
         required_fields' = [required_fields EXCEPT ![j] = put(@, ph, M)],
         stack' = requests(j, ph, M) \o rest,
         UNCHANGED <<ops, min_phase, schema>>
  PROVE  Inv'
<1> DEFINE rs == requests(j, ph, M)
           old == required_fields[j]
<1>1. Types /\ AllPlanned /\ RequestLegal /\ Closing
  BY DEF Inv
<1>2. ops' = ops /\ min_phase' = min_phase /\ schema' = schema
  OBVIOUS
<1>3. rs \in Seq(Request) /\ \A k \in 1..Len(rs) : Legal(rs[k])
  BY <1>1, RequestsLawful DEF AllPlanned, Lawful
<1>4. /\ old \in PhaseMap
      /\ put(old, ph, M) \in PhaseMap
      /\ DOMAIN put(old, ph, M) = DOMAIN old \cup {ph}
      /\ put(old, ph, M)[ph] = M
      /\ \A q \in DOMAIN old : q # ph => put(old, ph, M)[q] = old[q]
  BY <1>1, RecordFacts DEF old
<1>5. /\ required_fields \in Seq(PhaseMap) /\ Len(required_fields) = Len(ops)
      /\ Ids = 1..Len(ops) /\ Ids' = Ids
  BY <1>1, <1>2 DEF Types, Ids
<1>6. /\ required_fields' \in Seq(PhaseMap) /\ Len(required_fields') = Len(ops)
      /\ required_fields'[j] = put(old, ph, M)
      /\ \A i \in Ids : i # j => required_fields'[i] = required_fields[i]
  BY <1>4, <1>5
<1> HIDE DEF rs, old
<1>7. /\ stack' \in Seq(Request)
      /\ Len(stack') = Len(rs) + Len(rest)
      /\ \A k \in 1..Len(rs) : k \in 1..Len(stack') /\ stack'[k] = rs[k]
      /\ \A k \in 1..Len(rest) :
           Len(rs) + k \in 1..Len(stack') /\ stack'[Len(rs) + k] = rest[k]
      /\ \A k \in 1..Len(stack') :
           \/ k \in 1..Len(rs)
           \/ k - Len(rs) \in 1..Len(rest) /\ k = Len(rs) + (k - Len(rs))
  BY <1>3, ConcatFacts DEF rs
<1>8. Types'
  <2>1. Request' = Request
    BY <1>5 DEF Request
  <2> QED
    BY <1>1, <1>2, <1>6, <1>7, <2>1 DEF Types
<1>9. AllPlanned'
  BY <1>1, <1>2, <1>5 DEF AllPlanned, Planned
<1>10. RequestLegal'
  <2>1. ASSUME NEW k \in 1..Len(stack') PROVE Legal(stack'[k])
    <3>1. CASE k \in 1..Len(rs)
      BY <3>1, <1>3, <1>7
    <3>2. CASE k - Len(rs) \in 1..Len(rest) /\ k = Len(rs) + (k - Len(rs))
      <4>1. PICK l \in 1..Len(rest) : k = Len(rs) + l
        BY <3>2
      <4> QED
        BY <4>1, <1>7
    <3> QED
      BY <3>1, <3>2, <1>7
  <2>2. ASSUME NEW i \in Ids, NEW p \in DOMAIN required_fields'[i]
        PROVE  min_phase[i] <= p /\ required_fields'[i][p] \subseteq schema[i]
    <3>1. CASE i = j /\ p = ph
      BY <3>1, <1>4, <1>6
    <3>2. CASE i # j \/ p # ph
      <4>1. p \in DOMAIN required_fields[i] /\ required_fields'[i][p] = required_fields[i][p]
        BY <3>2, <1>4, <1>6 DEF old
      <4> QED
        BY <4>1, <1>1 DEF RequestLegal, Legal, request
    <3> QED
      BY <3>1, <3>2
  <2> QED
    BY <2>1, <2>2, <1>2, <1>5 DEF RequestLegal, Legal, request
<1>11. Closing'
  <2>1. \A d : d.op \in Ids /\ Served(d) => ServedBy(required_fields', d)
    <3> SUFFICES ASSUME NEW d, d.op \in Ids, Served(d) PROVE ServedBy(required_fields', d)
      OBVIOUS
    <3>1. CASE d.op = j /\ d.phase = ph
      <4>1. d.fields \subseteq M
        BY <3>1 DEF Served, lookup
      <4> QED
        BY <3>1, <4>1, <1>4, <1>6 DEF Served, ServedBy
    <3>2. CASE d.op # j
      BY <3>2, <1>6 DEF Served, ServedBy
    <3>3. CASE d.op = j /\ d.phase # ph
      BY <3>3, <1>4, <1>6 DEF Served, ServedBy, old
    <3> QED
      BY <3>1, <3>2, <3>3
  <2>2. \A d : d.op = j /\ d.phase = ph /\ d.fields \subseteq M => ServedBy(required_fields', d)
    BY <1>4, <1>6 DEF Served, ServedBy
  <2>3. \A d : PendingIn(rest, d) => PendingIn(stack', d)
    <3> SUFFICES ASSUME NEW d, PendingIn(rest, d) PROVE PendingIn(stack', d)
      OBVIOUS
    <3>1. PICK k \in 1..Len(rest) :
            /\ rest[k].op = d.op /\ rest[k].phase = d.phase
            /\ d.fields \subseteq rest[k].fields
      BY DEF PendingIn
    <3>2. PICK l \in 1..Len(stack') : stack'[l] = rest[k]
      BY <1>7
    <3> QED
      BY <3>1, <3>2 DEF PendingIn
  <2>4. ASSUME NEW i \in Ids, NEW p \in DOMAIN required_fields'[i],
               NEW k \in 1..Len(requests(i, p, required_fields'[i][p]))
        PROVE  LET d == requests(i, p, required_fields'[i][p])[k]
               IN  ServedBy(required_fields', d) \/ PendingIn(stack', d)
    <3>1. CASE i = j /\ p = ph
      <4>1. requests(i, p, required_fields'[i][p]) = rs
        BY <3>1, <1>4, <1>6 DEF rs
      <4>2. stack'[k] = rs[k] /\ k \in 1..Len(stack')
        BY <4>1, <1>7
      <4> QED
        BY <4>1, <4>2 DEF PendingIn
    <3>2. CASE i # j \/ p # ph
      <4>1. p \in DOMAIN required_fields[i] /\ required_fields'[i][p] = required_fields[i][p]
        BY <3>2, <1>4, <1>6 DEF old
      <4> DEFINE d == requests(i, p, required_fields[i][p])[k]
      <4>2. Served(d) \/ Pending(d)
        BY <4>1, <1>1 DEF Closing
      <4>3. d.op \in Ids
        <5>1. Lawful(requests(i, p, required_fields[i][p]))
          BY <4>1, <1>1, RequiredFacts, RequestsLawful DEF AllPlanned
        <5>2. d \in Request
          BY <5>1, <4>1 DEF Lawful
        <5> QED
          BY <5>2 DEF Request
      <4> HIDE DEF d
      <4>4. ServedBy(required_fields', d) \/ PendingIn(stack', d)
        BY <4>2, <4>3, <2>1, <2>2, <2>3
      <4> QED
        BY <4>1, <4>4 DEF d
    <3> QED
      BY <3>1, <3>2
  <2>5. ASSUME NEW i \in Ids, NEW p \in DOMAIN required_fields'[i]
        PROVE  LET rq == requests(i, p, required_fields[i][p])
               IN  (\A k \in 1..Len(rq) : Served(rq[k]) \/ Pending(rq[k]))'
    <3> DEFINE now == requests(i, p, required_fields'[i][p])
    <3>1. requests(i, p, required_fields[i][p])' = now
      BY <1>2 DEF requests, source, match, request, projected
    <3>2. \A k \in 1..Len(now) :
            ServedBy(required_fields', now[k]) \/ PendingIn(stack', now[k])
      BY <2>4
    <3> HIDE DEF now
    <3> QED
      BY <3>1, <3>2 DEF Served, ServedBy, Pending
  <2> QED
    BY <2>5, <1>5 DEF Closing
<1> QED
  BY <1>8, <1>9, <1>10, <1>11 DEF Inv


\* The fields of a bound relation.
LEMMA SchemaType ==
  ASSUME Types, NEW r \in Relations, Bound(schema, r)
  PROVE  schemaOf(schema, r) \in SUBSET Fields
<1>1. \A k \in 1..Len(r.args) : schema[r.args[k]] \in SUBSET Fields
  BY DEF Types, Bound
<1>2. r.kind \in Kinds
  BY RelationFacts
<1>3. DOMAIN r.projs \subseteq Fields /\ r.out \subseteq Fields
  BY RelationFacts
<1>4. r.kind \notin Sources => schema[source(r)] \in SUBSET Fields
  BY <1>1, ArgFacts
<1>5. r.kind \in Joins => schema[match(r)] \in SUBSET Fields
  BY <1>1, ArgFacts
<1> QED
  BY <1>2, <1>3, <1>4, <1>5
  DEF schemaOf, Kinds, Sources, Joins, Collectors, Unions, Keyed

\* A new operation: the earlier ones stay as they were planned, and nothing is
\* required of the new one yet.
LEMMA Grow ==
  ASSUME Inv, NEW r \in Relations, planRelation(r)
  PROVE  Inv'
<1> DEFINE n == Len(ops) + 1
<1>1. Types /\ AllPlanned /\ RequestLegal /\ Closing
  BY DEF Inv
<1>2. PICK m \in floors(r) : /\ \A f \in floors(r) : f <= m
                             /\ min_phase' = Append(min_phase, m)
  BY DEF planRelation
<1>3. /\ stack = <<>> /\ stack' = stack
      /\ Len(ops) < MaxOps
      /\ Bound(schema, r)
      /\ ops' = Append(ops, r)
      /\ schema' = Append(schema, schemaOf(schema, r))
      /\ required_fields' = Append(required_fields, <<>>)
  BY DEF planRelation
<1>4. \A k \in 1..Len(r.args) : r.args[k] \in Ids
  BY <1>1, <1>3 DEF Bound, Types, Ids
<1>5. r.kind \in Joins => r.kind \notin Sources
  BY DEF Joins, Sources
<1>6. r.kind \in Joins => match(r) \in Ids /\ source(r) \in Ids
  BY <1>4, <1>5, ArgFacts
<1>7. \A i \in Ids : min_phase[i] \in Nat /\ min_phase[i] < i
  <2>1. \A i \in Ids : min_phase[i] \in Nat
    BY <1>1 DEF Types, Ids
  <2>2. \A i \in Ids : min_phase[i] < i
    BY <1>1 DEF AllPlanned, Planned
  <2> QED
    BY <2>1, <2>2
<1>8. Len(ops) \in Nat /\ n \in Nat
  BY <1>1 DEF Types
<1>9. m \in Nat /\ m < n
  <2>1. \A i \in Ids : min_phase[i] \in Nat /\ min_phase[i] + 1 < n
    BY <1>7, <1>8 DEF Ids
  <2>2. CASE r.kind \in Joins
    <3>1. m = 0 \/ m = min_phase[match(r)] + 1 \/ m = min_phase[source(r)]
      BY <2>2 DEF floors
    <3>2. /\ min_phase[match(r)] \in Nat /\ min_phase[match(r)] + 1 < n
          /\ min_phase[source(r)] \in Nat /\ min_phase[source(r)] + 1 < n
      BY <2>1, <2>2, <1>6
    <3>3. \A x \in Nat : x + 1 < n => x < n /\ x + 1 \in Nat
      BY <1>8
    <3>4. 0 \in Nat /\ 0 < n
      BY <1>8
    <3> HIDE DEF n
    <3> QED
      BY <3>1, <3>2, <3>3, <3>4
  <2>3. CASE r.kind \notin Joins
    <3>1. m = 0 \/ \E k \in 1..Len(r.args) : m = min_phase[r.args[k]]
      BY <2>3 DEF floors
    <3> QED
      BY <2>1, <3>1, <1>4, <1>8
  <2> QED
    BY <2>2, <2>3
<1>10. /\ \A k \in 1..Len(r.args) : min_phase[r.args[k]] <= m
       /\ r.kind \in Joins => min_phase[match(r)] < m
  <2>1. CASE r.kind \in Joins
    <3>1. min_phase[match(r)] + 1 <= m /\ min_phase[source(r)] <= m
      BY <2>1, <1>2 DEF floors
    <3>2. \A k \in 1..Len(r.args) : r.args[k] = match(r) \/ r.args[k] = source(r)
      BY <2>1, ArgFacts
    <3>3. min_phase[match(r)] \in Nat
      BY <2>1, <1>6, <1>7
    <3>4. \A x \in Nat : x + 1 <= m => x < m /\ x <= m
      BY <1>9
    <3> QED
      BY <3>1, <3>2, <3>3, <3>4
  <2>2. CASE r.kind \notin Joins
    BY <2>2, <1>2 DEF floors
  <2> QED
    BY <2>1, <2>2

<1>11. /\ Ids = 1..Len(ops) /\ Ids' = 1..n
       /\ Ids' = Ids \cup {n} /\ n \notin Ids
  <2>1. Len(ops') = n
    BY <1>1, <1>3 DEF Types
  <2> QED
    BY <2>1, <1>8 DEF Ids
<1>12. <<>> \in PhaseMap /\ DOMAIN <<>> = {}
  <2>1. DOMAIN <<>> = {} /\ <<>> \in [{} -> SUBSET Fields]
    OBVIOUS
  <2> QED
    BY <2>1 DEF PhaseMap
<1>13. schemaOf(schema, r) \in SUBSET Fields
  BY <1>1, <1>3, SchemaType
<1>14. /\ ops' \in Seq(Relations) /\ Len(ops') = n /\ ops'[n] = r
       /\ \A i \in Ids : ops'[i] = ops[i]
  BY <1>1, <1>3 DEF Types, Ids
<1>15. /\ min_phase' \in Seq(Nat) /\ Len(min_phase') = n /\ min_phase'[n] = m
       /\ \A i \in Ids : min_phase'[i] = min_phase[i]
  BY <1>1, <1>2, <1>9 DEF Types, Ids
<1>16. /\ schema' \in Seq(SUBSET Fields) /\ Len(schema') = n
       /\ schema'[n] = schemaOf(schema, r)
       /\ \A i \in Ids : schema'[i] = schema[i]
  BY <1>1, <1>3, <1>13 DEF Types, Ids
<1>17. /\ required_fields' \in Seq(PhaseMap) /\ Len(required_fields') = n
       /\ required_fields'[n] = <<>>
       /\ \A i \in Ids : required_fields'[i] = required_fields[i]
  BY <1>1, <1>3, <1>12 DEF Types, Ids
<1>18. Types'
  <2>1. stack' = <<>> /\ n <= MaxOps
    BY <1>3, <1>8, PlanAssumption
  <2>2. stack' \in Seq(Request')
    BY <2>1
  <2> HIDE DEF n
  <2> QED
    BY <2>1, <2>2, <1>14, <1>15, <1>16, <1>17 DEF Types
<1> HIDE DEF n
\* The inputs of the operations of this plan keep phase and schema.
<1>19. ASSUME NEW o \in Relations, \A k \in 1..Len(o.args) : o.args[k] \in Ids,
              o.kind \notin Sources
       PROVE  /\ schema'[source(o)] = schema[source(o)]
              /\ schema'[match(o)] = schema[match(o)]
              /\ min_phase'[match(o)] = min_phase[match(o)]
  <2>2. source(o) \in Ids /\ match(o) \in Ids
    BY <1>19, ArgFacts
  <2> QED
    BY <2>2, <1>15, <1>16
<1>20. Ids \subseteq Ids'
  BY <1>11
<1>21. ASSUME NEW i \in Ids PROVE Planned(i)'
  <2>1. Planned(i) /\ ops[i] \in Relations /\ ops'[i] = ops[i]
    <3>1. Planned(i)
      BY <1>1 DEF AllPlanned
    <3>2. ops[i] \in Relations
      BY <1>1 DEF Types, Ids
    <3> QED
      BY <3>1, <3>2, <1>14
  <2>2. \A k \in 1..Len(ops[i].args) : ops[i].args[k] \in Ids
    BY <1>1, <2>1, InputFacts
  <2>3. min_phase'[i] = min_phase[i] /\ schema'[i] = schema[i]
    BY <1>15, <1>16
  <2>4. \A k \in 1..Len(ops[i].args) :
          /\ min_phase'[ops[i].args[k]] = min_phase[ops[i].args[k]]
          /\ schema'[ops[i].args[k]] = schema[ops[i].args[k]]
    BY <2>2, <1>15, <1>16
  <2>5. /\ ops[i].kind \notin Sources =>
             schema'[source(ops[i])] = schema[source(ops[i])]
        /\ ops[i].kind \in Joins =>
             /\ schema'[match(ops[i])] = schema[match(ops[i])]
             /\ min_phase'[match(ops[i])] = min_phase[match(ops[i])]
    BY <2>1, <2>2, <1>19 DEF Sources, Joins
  <2>6. schemaOf(schema', ops[i]) = schemaOf(schema, ops[i])
    BY <2>1, <2>5, RelationFacts
    DEF schemaOf, Kinds, Sources, Joins, Collectors, Unions, Keyed
  <2>7. Bound(schema', ops[i])
    <3>1. Bound(schema, ops[i])
      BY <2>1 DEF Planned
    <3>2. \A k \in 1..Len(ops[i].args) : ops[i].args[k] \in DOMAIN schema'
      BY <2>2, <1>11, <1>16
    <3>3. /\ ops[i].kind \in Joins \cup Unions => ops[i].kind \notin Sources
          /\ "leftjoin" \in Joins
      BY DEF Joins, Unions, Sources
    <3> QED
      BY <3>1, <3>2, <3>3, <2>4, <2>5 DEF Bound
  <2> QED
    BY <2>1, <2>3, <2>4, <2>5, <2>6, <2>7 DEF Planned
<1>22. ASSUME NEW j, j = n PROVE Planned(j)'
  <2>1. /\ r.kind \notin Sources => schema'[source(r)] = schema[source(r)]
        /\ r.kind \in Joins => /\ schema'[match(r)] = schema[match(r)]
                               /\ min_phase'[match(r)] = min_phase[match(r)]
    BY <1>4, <1>19 DEF Sources, Joins
  <2>2. \A k \in 1..Len(r.args) :
          /\ r.args[k] \in 1..(n - 1)
          /\ min_phase'[r.args[k]] = min_phase[r.args[k]]
          /\ schema'[r.args[k]] = schema[r.args[k]]
    <3>1. 1..(n - 1) = Ids
      BY <1>8, <1>11 DEF n
    <3> QED
      BY <3>1, <1>4, <1>15, <1>16
  <2>3. schemaOf(schema', r) = schemaOf(schema, r)
    BY <2>1, RelationFacts
    DEF schemaOf, Kinds, Sources, Joins, Collectors, Unions, Keyed
  <2>4. Bound(schema', r)
    <3>1. \A k \in 1..Len(r.args) : r.args[k] \in DOMAIN schema'
      BY <1>4, <1>11, <1>16
    <3>2. /\ r.kind \in Joins \cup Unions => r.kind \notin Sources
          /\ "leftjoin" \in Joins
      BY DEF Joins, Unions, Sources
    <3> QED
      BY <3>1, <3>2, <1>3, <2>1, <2>2 DEF Bound
  <2> QED
    BY <1>22, <1>9, <1>10, <1>14, <1>15, <1>16, <2>1, <2>2, <2>3, <2>4 DEF Planned
<1>23. AllPlanned'
  BY <1>11, <1>21, <1>22 DEF AllPlanned
<1>24. \A i \in Ids' : i \in Ids \/ DOMAIN required_fields'[i] = {}
  BY <1>11, <1>12, <1>17
<1>25. RequestLegal'
  <2>1. 1..Len(stack') = {}
    BY <1>3
  <2> QED
    BY <2>1, <1>1, <1>15, <1>16, <1>17, <1>24 DEF RequestLegal, Legal, request
<1>26. Closing'
  <2>1. ASSUME NEW i \in Ids, NEW p \in DOMAIN required_fields[i]
        PROVE  LET rq == requests(i, p, required_fields[i][p])
               IN  (\A k \in 1..Len(rq) : Served(rq[k]) \/ Pending(rq[k]))'
    <3> DEFINE now == requests(i, p, required_fields[i][p])
    <3>1. \A k \in 1..Len(now) : Served(now[k]) \/ Pending(now[k])
      BY <1>1 DEF Closing
    <3>2. \A d : ~Pending(d)
      BY <1>3 DEF Pending, PendingIn
    <3>3. \A k \in 1..Len(now) : now[k].op \in Ids
      <4>1. 0 \in Phases
        BY PlanAssumption DEF Phases
      <4>2. /\ p \in Phases /\ min_phase[i] <= p
            /\ required_fields[i][p] \subseteq schema[i]
        BY <4>1, <1>1, RequiredFacts
      <4>3. Lawful(now)
        BY <4>2, <1>1, RequestsLawful DEF AllPlanned
      <4> HIDE DEF now
      <4>4. \A k \in 1..Len(now) : now[k] \in Request
        BY <4>3 DEF Lawful
      <4> QED
        BY <4>4 DEF Request
    <3>4. requests(i, p, required_fields[i][p])' = now
      <4>1. /\ Planned(i) /\ ops[i] \in Relations /\ ops'[i] = ops[i]
            /\ min_phase'[i] = min_phase[i] /\ required_fields'[i] = required_fields[i]
        <5>1. Planned(i)
          BY <1>1 DEF AllPlanned
        <5>2. ops[i] \in Relations
          BY <1>1 DEF Types, Ids
        <5> QED
          BY <5>1, <5>2, <1>14, <1>15, <1>17
      <4>2. \A k \in 1..Len(ops[i].args) : ops[i].args[k] \in Ids
        BY <1>1, <4>1, InputFacts
      <4>3. CASE ops[i].kind \in Sources
        BY <4>1, <4>3 DEF requests
      <4>4. CASE ops[i].kind \notin Sources
        <5>1. /\ schema'[source(ops[i])] = schema[source(ops[i])]
              /\ schema'[match(ops[i])] = schema[match(ops[i])]
              /\ min_phase'[match(ops[i])] = min_phase[match(ops[i])]
          BY <4>1, <4>2, <4>4, <1>19
        <5> QED
          BY <4>1, <4>4, <5>1 DEF requests, source, match, request, projected
      <4> QED
        BY <4>3, <4>4
    <3>5. \A k \in 1..Len(now) : ServedBy(required_fields', now[k])
      <4> HIDE DEF now
      <4> QED
        BY <3>1, <3>2, <3>3, <1>17 DEF Served, ServedBy
    <3> HIDE DEF now
    <3> QED
      BY <3>4, <3>5 DEF Served, ServedBy, Pending
  <2>2. \A i \in Ids : required_fields'[i] = required_fields[i]
    BY <1>17
  <2> QED
    BY <2>1, <2>2, <1>24 DEF Closing
<1> QED
  BY <1>18, <1>23, <1>25, <1>26 DEF Inv


\* A query's request: planStatement assigns all fields of the operation, which
\* contain what was required of it before.
LEMMA QueryStep ==
  ASSUME Inv, NEW i \in Ids, planStatement(i)
  PROVE  Inv'
<1>1. Types /\ AllPlanned /\ RequestLegal
  BY DEF Inv
<1>2. min_phase[i] \in Nat /\ min_phase[i] \in Phases
  <2>1. min_phase[i] \in Nat /\ i \in Nat /\ i <= MaxOps /\ min_phase[i] < i
    <3>1. min_phase[i] \in Nat /\ i \in Nat /\ i <= MaxOps
      BY <1>1, PlanAssumption DEF Types, Ids
    <3> QED
      BY <1>1, <3>1 DEF AllPlanned, Planned
  <2> QED
    BY <2>1, PlanAssumption DEF Phases
<1>3. lookup(required_fields[i], min_phase[i]) \subseteq schema[i]
  BY <1>1, <1>2, RequiredFacts
<1>4. <<>> \in Seq(Request) /\ \A k \in 1..Len(<<>>) : Legal(<<>>[k])
  OBVIOUS
<1>5. \A d : ~Pending(d)
  BY DEF planStatement, Pending, PendingIn
<1>6. requests(i, min_phase[i], schema[i]) \in Seq(Request)
  BY <1>1, <1>2, RequestsLawful DEF AllPlanned, Lawful
<1>7. stack' = requests(i, min_phase[i], schema[i]) \o <<>>
  BY <1>6 DEF planStatement
<1>8. /\ required_fields' =
           [required_fields EXCEPT ![i] = put(@, min_phase[i], schema[i])]
      /\ UNCHANGED <<ops, min_phase, schema>>
  BY DEF planStatement
<1>9. min_phase[i] <= min_phase[i] /\ schema[i] \in SUBSET schema[i]
  BY <1>2
<1> QED
  BY <1>2, <1>3, <1>4, <1>5, <1>7, <1>8, <1>9, Push

\* The innermost pending call.
LEMMA RequestStep ==
  ASSUME Inv, requestOutput
  PROVE  Inv'
<1> DEFINE c == Head(stack)
           merged == lookup(required_fields[c.op], c.phase) \cup c.fields
<1>1. Types /\ AllPlanned /\ RequestLegal /\ stack # <<>>
  BY DEF Inv, requestOutput
<1>2. /\ stack \in Seq(Request) /\ Len(stack) \in Nat /\ 1 \in 1..Len(stack)
      /\ c = stack[1] /\ c \in Request
      /\ Tail(stack) \in Seq(Request)
      /\ Len(Tail(stack)) = Len(stack) - 1
      /\ \A k \in 1..Len(Tail(stack)) : k + 1 \in 1..Len(stack) /\ Tail(stack)[k] = stack[k + 1]
      /\ \A k \in 1..Len(stack) : k = 1 \/ k - 1 \in 1..Len(Tail(stack))
  BY <1>1 DEF Types
<1>3. /\ required_fields' = [required_fields EXCEPT ![c.op] = put(@, c.phase, merged)]
      /\ stack' = requests(c.op, c.phase, merged) \o Tail(stack)
      /\ UNCHANGED <<ops, min_phase, schema>>
  BY DEF requestOutput
<1> HIDE DEF c
<1>4. c.op \in Ids /\ c.phase \in Phases /\ min_phase[c.op] <= c.phase
      /\ c.fields \subseteq schema[c.op]
  BY <1>1, <1>2 DEF Request, RequestLegal, Legal
<1>5. merged \in SUBSET schema[c.op]
  BY <1>1, <1>4, RequiredFacts
<1>6. \A k \in 1..Len(Tail(stack)) : Legal(Tail(stack)[k])
  BY <1>1, <1>2 DEF RequestLegal
<1>7. ASSUME NEW d, Pending(d)
      PROVE  \/ d.op = c.op /\ d.phase = c.phase /\ d.fields \subseteq merged
             \/ PendingIn(Tail(stack), d)
  <2>1. PICK k \in 1..Len(stack) : /\ stack[k].op = d.op /\ stack[k].phase = d.phase
                                   /\ d.fields \subseteq stack[k].fields
    BY <1>7 DEF Pending, PendingIn
  <2>2. CASE k = 1
    BY <2>1, <2>2, <1>2
  <2>3. CASE k # 1
    <3>1. k - 1 \in 1..Len(Tail(stack)) /\ Tail(stack)[k - 1] = stack[k]
      BY <2>3, <1>2
    <3> QED
      BY <2>1, <3>1 DEF PendingIn
  <2> QED
    BY <2>2, <2>3
<1>8. lookup(required_fields[c.op], c.phase) \subseteq merged
  OBVIOUS
<1> HIDE DEF merged
<1> QED
  BY <1>2, <1>3, <1>4, <1>5, <1>6, <1>7, <1>8, Push

\* Steps that leave the plan alone: the builder's.
LEMMA BuildStep ==
  ASSUME Inv, UNCHANGED planVars
  PROVE  Inv'
<1>1. /\ ops' = ops /\ min_phase' = min_phase /\ schema' = schema
      /\ required_fields' = required_fields /\ stack' = stack
  BY DEF planVars
<1>2. Types' /\ AllPlanned'
  BY <1>1 DEF Inv, Types, AllPlanned, Planned, Ids, Request
<1>3. RequestLegal'
  BY <1>1 DEF Inv, RequestLegal, Legal, Ids
<1>4. Closing'
  <2>1. ASSUME NEW i \in Ids, NEW p \in DOMAIN required_fields[i]
        PROVE  LET rq == requests(i, p, required_fields[i][p])
               IN  (\A k \in 1..Len(rq) : Served(rq[k]) \/ Pending(rq[k]))'
    <3> DEFINE now == requests(i, p, required_fields[i][p])
    <3>1. requests(i, p, required_fields[i][p])' = now
      BY <1>1 DEF requests, source, match, request, projected
    <3>2. \A k \in 1..Len(now) : Served(now[k]) \/ Pending(now[k])
      BY DEF Inv, Closing
    <3> HIDE DEF now
    <3> QED
      BY <1>1, <3>1, <3>2 DEF Served, Pending
  <2>2. Ids' = Ids
    BY <1>1 DEF Ids
  <2> QED
    BY <2>1, <2>2, <1>1 DEF Closing
<1> QED
  BY <1>2, <1>3, <1>4 DEF Inv

\* The planner's invariant holds throughout.
THEOREM Inductive == Spec => []Inv
<1>1. Init => Inv
  <2> SUFFICES ASSUME Init PROVE Inv
    OBVIOUS
  <2>1. Ids = {} /\ stack = <<>>
    BY DEF Init, Ids
  <2>2. Types
    BY PlanAssumption DEF Init, Types
  <2>3. AllPlanned /\ Closing
    BY <2>1 DEF AllPlanned, Closing
  <2>4. RequestLegal
    BY <2>1 DEF RequestLegal
  <2> QED
    BY <2>2, <2>3, <2>4 DEF Inv
<1>2. Inv /\ [Next]_vars => Inv'
  <2> SUFFICES ASSUME Inv, [Next]_vars PROVE Inv'
    OBVIOUS
  <2>1. ASSUME NEW r \in Relations, planRelation(r) PROVE Inv'
    BY <2>1, Grow
  <2>2. ASSUME NEW i \in Ids, planStatement(i) PROVE Inv'
    BY <2>2, QueryStep
  <2>3. ASSUME NEW i \in Ids, build(i) PROVE Inv'
    BY <2>3, BuildStep DEF build
  <2>4. CASE requestOutput
    BY <2>4, RequestStep
  <2>5. CASE UNCHANGED vars
    BY <2>5, BuildStep DEF vars
  <2> QED
    BY <2>1, <2>2, <2>3, <2>4, <2>5 DEF Next
<1> QED
  BY <1>1, <1>2, PTL DEF Spec

\* requestOutput's verify() hold for every plan: no request comes before the
\* first phase of an operation or names a field it does not have.
THEOREM RequestsLegal == Spec => []RequestLegal
<1>1. Inv => RequestLegal
  BY DEF Inv
<1> QED
  BY <1>1, Inductive, PTL

\* When no call is pending, every operation finds the fields it reads, in the
\* phases it runs in, however many queries share it and in whatever order.
THEOREM PlansClosed == Spec => []PlanClosed
<1>1. Inv => PlanClosed
  <2> SUFFICES ASSUME Inv, stack = <<>> PROVE PlanClosed
    BY DEF PlanClosed
  <2>1. \A d : ~Pending(d)
    BY DEF Pending, PendingIn
  <2> QED
    BY <2>1 DEF Inv, Closing, PlanClosed
<1> QED
  BY <1>1, Inductive, PTL

\* Joins probe in later phases than the one their table is built in, through
\* every chain of joins and shared operations.
THEOREM ProbesAfterBuild == Spec => []TablesFirst
<1>1. Inv => TablesFirst
  <2> SUFFICES ASSUME Inv, NEW i \in Ids, NEW p \in DOMAIN required_fields[i],
                      ops[i].kind \in Joins
               PROVE  min_phase[match(ops[i])] < p
    BY DEF TablesFirst
  <2>1. Types /\ Planned(i) /\ RequestLegal
    BY DEF Inv, AllPlanned
  <2>2. 0 \in Phases
    BY PlanAssumption DEF Phases
  <2>3. p \in Phases /\ min_phase[i] <= p
    BY <2>1, <2>2, RequiredFacts
  <2>4. min_phase[i] \in Nat /\ min_phase[match(ops[i])] < min_phase[i]
    <3>1. min_phase[i] \in Nat
      BY <2>1 DEF Types, Ids
    <3> QED
      BY <2>1, <3>1 DEF Planned
  <2>5. min_phase[match(ops[i])] \in Nat
    BY <2>1, InputFacts
  <2>6. p \in Nat
    BY <2>3, PlanAssumption DEF Phases
  <2>7. \A a, b, e \in Nat : a < b /\ b <= e => a < e
    OBVIOUS
  <2> QED
    BY <2>3, <2>4, <2>5, <2>6, <2>7
<1> QED
  BY <1>1, Inductive, PTL
----------------------------------------------------------------------------
(***************************************************************************)
(* The builder.  What reachable computes is known by induction: from a     *)
(* least counterexample, for a set of numbers that is not empty has a      *)
(* least one.                                                              *)
(***************************************************************************)
LEMMA LeastNumber ==
  ASSUME NEW T, T \subseteq Nat, T # {}
  PROVE  \E x \in T : \A y \in T : x <= y
<1> DEFINE R == {ss \in Nat \X Nat : ss[1] < ss[2]}
<1>1. IsWellFoundedOn(R, Nat)
  BY NatLessThanWellFounded DEF OpToRel
<1>2. PICK x \in T : \A y \in T : ~ (<<y, x>> \in R)
  <2> HIDE DEF R
  <2> QED
    BY <1>1, WFMin
<1>3. \A y \in T : ~(y < x)
  BY <1>2
<1> QED
  BY <1>3

\* Operation i is a query's or an input of a member of S that comes after it.
ReachedFrom(S, i) ==
  \/ \E q \in 1..Len(top_operations) : top_operations[q] = i
  \/ \E j \in (i + 1)..Len(ops) :
       j \in S /\ \E k \in 1..Len(ops[j].args) : ops[j].args[k] = i

\* There is a set of operations closed under ReachedFrom: it can be found from
\* the last operation to the first.
LEMMA ReachedExists ==
  ASSUME Len(ops) \in Nat
  PROVE  \E S \in SUBSET Ids : \A i \in Ids : i \in S <=> ReachedFrom(S, i)
<1>0. PICK N \in Nat : N = Len(ops)
  OBVIOUS
<1> DEFINE Good(S, n) == \A i \in Ids : i > N - n => (i \in S <=> ReachedFrom(S, i))
           T == {n \in Nat : n <= N /\ ~\E S \in SUBSET Ids : Good(S, n)}
<1>1. T = {}
  <2> SUFFICES ASSUME T # {} PROVE FALSE
    OBVIOUS
  <2>1. PICK n \in T : \A m \in T : n <= m
    <3>1. T \subseteq Nat
      OBVIOUS
    <3> HIDE DEF T
    <3> QED
      BY <3>1, LeastNumber
  <2>2. n \in Nat /\ n <= N /\ ~\E S \in SUBSET Ids : Good(S, n)
    OBVIOUS
  <2>3. n # 0
    <3> SUFFICES ASSUME n = 0 PROVE FALSE
      OBVIOUS
    <3>1. \A i \in Ids : ~(i > N - n)
      BY <1>0 DEF Ids
    <3>2. Good({}, n) /\ {} \in SUBSET Ids
      BY <3>1
    <3> HIDE DEF Good
    <3> QED
      BY <2>2, <3>2
  <2>4. n - 1 \in Nat /\ n - 1 <= N /\ ~(n <= n - 1)
    BY <2>2, <2>3
  <2>5. PICK S \in SUBSET Ids : Good(S, n - 1)
    <3>1. n - 1 \notin T
      BY <2>1, <2>4
    <3>2. n - 1 \in T <=> n - 1 \in Nat /\ n - 1 <= N /\ ~\E S \in SUBSET Ids : Good(S, n - 1)
      <4> HIDE DEF Good
      <4> QED
        OBVIOUS
    <3> HIDE DEF Good, T
    <3> QED
      BY <2>4, <3>1, <3>2
  <2>6. PICK x : x = N - n + 1
    OBVIOUS
  <2>7. x \in Ids /\ \A i \in Ids : i > N - n => i = x \/ (i > N - (n - 1) /\ i > x)
    BY <1>0, <2>2, <2>3, <2>6 DEF Ids
  <2>8. PICK S2 : S2 = IF ReachedFrom(S, x) THEN S \cup {x} ELSE S \ {x}
    OBVIOUS
  <2>9. S2 \in SUBSET Ids /\ (x \in S2 <=> ReachedFrom(S, x)) /\ \A i \in Ids : i # x => (i \in S2 <=> i \in S)
    BY <2>7, <2>8
  <2>10. ASSUME NEW i \in Ids, i >= x PROVE ReachedFrom(S2, i) <=> ReachedFrom(S, i)
    <3>1. \A j \in (i + 1)..Len(ops) : j \in Ids /\ j # x
      BY <1>0, <2>7, <2>10 DEF Ids
    <3>2. \A j \in (i + 1)..Len(ops) : j \in S2 <=> j \in S
      BY <2>9, <3>1
    <3> QED
      BY <3>2 DEF ReachedFrom
  <2>11. ASSUME NEW i \in Ids, i > N - n PROVE i \in S2 <=> ReachedFrom(S2, i)
    <3>1. CASE i = x
      <4>1. x >= x
        BY <2>7 DEF Ids
      <4> QED
        BY <3>1, <4>1, <2>7, <2>9, <2>10
    <3>2. CASE i > N - (n - 1) /\ i > x
      <4>1. i >= x /\ i # x
        BY <2>7, <3>2 DEF Ids
      <4>2. i \in S <=> ReachedFrom(S, i)
        BY <2>5, <3>2
      <4> QED
        BY <4>1, <4>2, <2>9, <2>10
    <3> QED
      BY <2>7, <2>11, <3>1, <3>2
  <2> QED
    BY <2>2, <2>9, <2>11
<1>2. \E S \in SUBSET Ids : Good(S, N)
  <2>1. N \notin T
    BY <1>1
  <2>2. N \in T <=> N \in Nat /\ N <= N /\ ~\E S \in SUBSET Ids : Good(S, N)
    <3> HIDE DEF Good
    <3> QED
      OBVIOUS
  <2>3. N <= N
    OBVIOUS
  <2> HIDE DEF Good, T
  <2> QED
    BY <2>1, <2>2, <2>3
<1>3. \A i \in Ids : i > N - N
  BY <1>0 DEF Ids
<1> QED
  BY <1>2, <1>3

\* So reachable satisfies the equation that defines it.
LEMMA ReachableFacts ==
  ASSUME Len(ops) \in Nat, NEW i \in Ids
  PROVE  reachable[i] <=>
           \/ \E q \in 1..Len(top_operations) : top_operations[q] = i
           \/ \E j \in (i + 1)..Len(ops) :
                reachable[j] /\ \E k \in 1..Len(ops[j].args) : ops[j].args[k] = i
<1> DEFINE Reaches(f, n) ==
             \/ \E q \in 1..Len(top_operations) : top_operations[q] = n
             \/ \E j \in (n + 1)..Len(ops) :
                  f[j] /\ \E k \in 1..Len(ops[j].args) : ops[j].args[k] = n
           Solves(f) == f = [n \in Ids |-> Reaches(f, n)]
<1>1. PICK S \in SUBSET Ids : \A n \in Ids : n \in S <=> ReachedFrom(S, n)
  BY ReachedExists
<1>2. PICK g : g = [n \in Ids |-> n \in S]
  OBVIOUS
<1>3. ASSUME NEW n \in Ids PROVE g[n] = Reaches(g, n)
  <2>1. \A j \in (n + 1)..Len(ops) : j \in Ids
    BY DEF Ids
  <2>2. \A j \in (n + 1)..Len(ops) : g[j] <=> j \in S
    BY <1>2, <2>1
  <2>3. Reaches(g, n) <=> ReachedFrom(S, n)
    BY <2>2 DEF ReachedFrom
  <2>4. g[n] = (n \in S)
    BY <1>2
  <2>5. (n \in S) <=> Reaches(g, n)
    BY <1>1, <2>3
  <2>6. Reaches(g, n) \in BOOLEAN
    OBVIOUS
  <2> HIDE DEF Reaches
  <2> QED
    BY <2>4, <2>5, <2>6
<1>4. Solves(g)
  BY <1>2, <1>3
<1>5. reachable = CHOOSE f : Solves(f)
  BY DEF reachable
<1>6. Solves(CHOOSE f : Solves(f))
  <2> HIDE DEF Solves
  <2> QED
    BY <1>4, Zenon
<1>7. Solves(reachable)
  <2> HIDE DEF Solves
  <2> QED
    BY <1>5, <1>6
<1>8. reachable[i] = Reaches(reachable, i)
  <2>1. reachable = [n \in Ids |-> Reaches(reachable, n)]
    BY <1>7
  <2> HIDE DEF Reaches
  <2> QED
    BY <2>1
<1> QED
  BY <1>8

\* One of the calls rs asks operation a for phase q.
Asks(rs, a, q) == \E n \in 1..Len(rs) : rs[n].op = a /\ rs[n].phase = q

\* The calls an operation makes when it is asked for a phase: each input is
\* asked, a collector's and a table's for the phase in which it is connected.
LEMMA RequestsReach ==
  ASSUME Types, NEW i \in Ids, Planned(i), NEW p, NEW F
  PROVE  /\ ops[i].kind \in Collectors => Asks(requests(i, p, F), source(ops[i]), min_phase[i])
         /\ ops[i].kind \in Joins =>
              /\ Asks(requests(i, p, F), match(ops[i]), min_phase[match(ops[i])])
              /\ Asks(requests(i, p, F), source(ops[i]), p)
         /\ ops[i].kind \notin Collectors \cup Joins =>
              \A k \in 1..Len(ops[i].args) : Asks(requests(i, p, F), ops[i].args[k], p)
<1> DEFINE r == ops[i]
           rs == requests(i, p, F)
<1>1. r \in Relations /\ r.kind \in Kinds /\ Arity(r) /\ r.args \in Seq(Nat \ {0}) /\ Len(r.args) \in Nat
  <2>1. r \in Relations
    BY InputFacts
  <2> HIDE DEF r
  <2> QED
    BY <2>1, RelationFacts
<1>2. \A a, q, G : request(a, q, G).op = a /\ request(a, q, G).phase = q
  BY DEF request
<1>3. ASSUME NEW a, NEW q, NEW G, rs = <<request(a, q, G)>> PROVE Asks(rs, a, q)
  <2>1. 1 \in 1..Len(rs) /\ rs[1] = request(a, q, G)
    BY <1>3
  <2> HIDE DEF rs
  <2> QED
    BY <1>2, <2>1 DEF Asks
<1>4. ASSUME NEW a, NEW q, NEW G, NEW b, NEW o, NEW H, rs = <<request(a, q, G), request(b, o, H)>>
      PROVE  Asks(rs, a, q) /\ Asks(rs, b, o)
  <2>1. 1 \in 1..Len(rs) /\ rs[1] = request(a, q, G) /\ 2 \in 1..Len(rs) /\ rs[2] = request(b, o, H)
    BY <1>4
  <2> HIDE DEF rs
  <2> QED
    BY <1>2, <2>1 DEF Asks
<1> USE DEF Sources, Joins, Collectors, Unions, Keyed
<1>5. CASE r.kind \in Collectors
  <2>1. \E G : rs = <<request(source(r), min_phase[i], G)>>
    BY <1>5 DEF requests
  <2> HIDE DEF rs
  <2>2. Asks(rs, source(r), min_phase[i])
    BY <1>3, <2>1
  <2> QED
    BY <1>5, <2>2 DEF rs
<1>6. CASE r.kind \in Joins
  <2>1. \/ \E G, H : rs = <<request(match(r), min_phase[match(r)], G), request(source(r), p, H)>>
        \/ \E G, H : rs = <<request(source(r), p, H), request(match(r), min_phase[match(r)], G)>>
    BY <1>6 DEF requests
  <2> HIDE DEF rs
  <2>2. Asks(rs, source(r), p) /\ Asks(rs, match(r), min_phase[match(r)])
    BY <1>4, <2>1
  <2> QED
    BY <1>6, <2>2 DEF rs
<1>7. CASE r.kind \in Sources
  <2>1. Len(r.args) = 0
    BY <1>1, <1>7 DEF Arity
  <2>2. 1..Len(r.args) = {} /\ r.kind \notin Collectors \cup Joins
    BY <1>7, <2>1
  <2> HIDE DEF r
  <2> QED
    BY <2>2 DEF r
<1>8. CASE r.kind \in Unions
  <2>1. \E G : rs = [k \in 1..Len(r.args) |-> request(r.args[k], p, G)]
    BY <1>8 DEF requests
  <2>2. PICK G : rs = [k \in 1..Len(r.args) |-> request(r.args[k], p, G)]
    BY <2>1
  <2>3. Len(rs) = Len(r.args)
    <3> HIDE DEF rs
    <3> QED
      BY <1>1, <2>2
  <2>4. ASSUME NEW k \in 1..Len(r.args) PROVE Asks(rs, r.args[k], p)
    <3>1. rs[k] = request(r.args[k], p, G) /\ k \in 1..Len(rs)
      BY <2>2, <2>3
    <3> HIDE DEF rs
    <3> QED
      BY <1>2, <3>1 DEF Asks
  <2> QED
    BY <1>8, <2>4
<1>9. CASE r.kind \in Keyed \cup {"projection", "group", "limit"}
  <2>1. \E G : rs = <<request(source(r), p, G)>>
    BY <1>9 DEF requests
  <2>2. Len(r.args) = 1 /\ \A k \in 1..Len(r.args) : r.args[k] = source(r)
    BY <1>1, <1>9 DEF Arity, source
  <2> HIDE DEF rs
  <2>3. \A k \in 1..Len(r.args) : Asks(rs, r.args[k], p)
    BY <1>3, <2>1, <2>2
  <2> QED
    BY <1>9, <2>3 DEF rs
<1> QED
  BY <1>1, <1>5, <1>6, <1>7, <1>8, <1>9 DEF Kinds

\* When no call is pending, an operation that is required in phase p has its
\* inputs required in the phases in which the builder connects them.
LEMMA InputsRequired ==
  ASSUME Inv, stack = <<>>, NEW i \in Ids, NEW p \in DOMAIN required_fields[i]
  PROVE  LET r == ops[i]
         IN /\ r.kind \in Collectors => min_phase[i] \in DOMAIN required_fields[source(r)]
            /\ r.kind \in Joins => /\ min_phase[match(r)] \in DOMAIN required_fields[match(r)]
                                   /\ p \in DOMAIN required_fields[source(r)]
            /\ r.kind \notin Collectors \cup Joins =>
                 \A k \in 1..Len(r.args) : p \in DOMAIN required_fields[r.args[k]]
<1> DEFINE rs == requests(i, p, required_fields[i][p])
<1>1. \A n \in 1..Len(rs) : Served(rs[n])
  <2>1. \A d : ~Pending(d)
    BY DEF Pending, PendingIn
  <2> QED
    BY <2>1 DEF Inv, Closing
<1>2. \A n \in 1..Len(rs) : rs[n].phase \in DOMAIN required_fields[rs[n].op]
  BY <1>1 DEF Served
<1>3. Types /\ Planned(i)
  BY DEF Inv, AllPlanned
<1> HIDE DEF rs
<1>4. \A a, q : Asks(rs, a, q) => q \in DOMAIN required_fields[a]
  BY <1>2 DEF Asks
<1> QED
  BY <1>3, <1>4, RequestsReach DEF rs

\* Every query's operation is required in a phase.
TopsRequired ==
  \A q \in 1..Len(top_operations) :
    top_operations[q] \in Ids /\ DOMAIN required_fields[top_operations[q]] # {}

\* So is everything they reach: from the least distance to the end of a plan
\* at which it would not be.
LEMMA ReachedRequired ==
  ASSUME Inv, stack = <<>>, TopsRequired, NEW a \in Ids, reachable[a]
  PROVE  DOMAIN required_fields[a] # {}
<1>0. PICK N \in Nat : N = Len(ops)
  BY DEF Inv, Types
<1> DEFINE T == {n \in Nat : \E i \in Ids : n = N - i /\ reachable[i] /\ DOMAIN required_fields[i] = {}}
<1>1. T = {}
  <2> SUFFICES ASSUME T # {} PROVE FALSE
    OBVIOUS
  <2>1. PICK n \in T : \A m \in T : n <= m
    <3>1. T \subseteq Nat
      OBVIOUS
    <3> HIDE DEF T
    <3> QED
      BY <3>1, LeastNumber
  <2>2. PICK i \in Ids : n = N - i /\ reachable[i] /\ DOMAIN required_fields[i] = {}
    OBVIOUS
  <2>3. PICK j \in (i + 1)..Len(ops) :
          reachable[j] /\ \E k \in 1..Len(ops[j].args) : ops[j].args[k] = i
    <3>1. ~\E q \in 1..Len(top_operations) : top_operations[q] = i
      BY <2>2 DEF TopsRequired
    <3> QED
      BY <1>0, <2>2, <3>1, ReachableFacts
  <2>4. PICK k \in 1..Len(ops[j].args) : ops[j].args[k] = i
    BY <2>3
  <2>5. j \in Ids /\ N - j \in Nat /\ ~(N - i <= N - j)
    BY <1>0 DEF Ids
  <2>6. DOMAIN required_fields[j] # {}
    <3>1. N - j \notin T
      BY <2>1, <2>2, <2>5
    <3> QED
      BY <2>3, <2>5, <3>1
  <2>7. PICK p \in DOMAIN required_fields[j] : TRUE
    BY <2>6
  <2>8. ops[j] \in Relations /\ ops[j].kind \in Kinds /\ Types /\ Planned(j)
    BY <2>5, InputFacts, RelationFacts DEF Inv, AllPlanned
  <2>9. CASE ops[j].kind \in Joins
    <3>1. i = match(ops[j]) \/ i = source(ops[j])
      BY <2>4, <2>8, <2>9, ArgFacts
    <3> QED
      BY <2>2, <2>5, <2>9, <3>1, InputsRequired
  <2>10. CASE ops[j].kind \in Collectors
    <3>1. Len(ops[j].args) = 1
      BY <2>8, <2>10, RelationFacts DEF Arity, Collectors, Sources, Joins, Unions
    <3>2. i = source(ops[j])
      BY <2>4, <3>1 DEF source
    <3> QED
      BY <2>2, <2>5, <2>10, <3>2, InputsRequired
  <2>11. CASE ops[j].kind \notin Collectors \cup Joins
    BY <2>2, <2>4, <2>5, <2>11, InputsRequired
  <2> QED
    BY <2>9, <2>10, <2>11
<1>2. N - a \in Nat
  BY <1>0 DEF Ids
<1> QED
  BY <1>1, <1>2

Wire == [from : Ids \X (0..MaxOps), to : Ids \X (0..MaxOps \cup {Table}) \X Nat]

\* The state of the builder, and of the queries it starts from.  Once the
\* builder has begun, the plan is final.
BuildInv ==
  /\ top_operations \in Seq(Ids) /\ Len(top_operations) <= MaxQueries
  /\ TopsRequired
  /\ built \subseteq Ids /\ wires \subseteq Wire
  /\ built # {} => stack = <<>>
  /\ built = {} => wires = {}
  /\ BuildVerified

\* Planning another relation changes nothing of this.
LEMMA GrowBuild ==
  ASSUME Inv, BuildInv, NEW r \in Relations, planRelation(r)
  PROVE  BuildInv'
<1>1. /\ built = {} /\ wires = {} /\ UNCHANGED <<top_operations, stack, built, wires>>
      /\ ops' = Append(ops, r) /\ required_fields' = Append(required_fields, <<>>)
  BY DEF planRelation, BuildInv
<1>2. ops \in Seq(Relations) /\ required_fields \in Seq(PhaseMap) /\ Len(required_fields) = Len(ops)
  BY DEF Inv, Types
<1>3. Ids \subseteq Ids'
  <2>1. Len(ops') = Len(ops) + 1 /\ Len(ops) \in Nat
    BY <1>1, <1>2
  <2> QED
    BY <2>1 DEF Ids
<1>4. \A i \in Ids : required_fields'[i] = required_fields[i]
  BY <1>1, <1>2 DEF Ids
<1>5. TopsRequired'
  BY <1>1, <1>3, <1>4 DEF BuildInv, TopsRequired
<1>6. top_operations' \in Seq(Ids')
  <2>1. \A q \in 1..Len(top_operations) : top_operations[q] \in Ids'
    BY <1>3 DEF BuildInv
  <2>2. top_operations = [q \in 1..Len(top_operations) |-> top_operations[q]] /\ Len(top_operations) \in Nat
    BY DEF BuildInv
  <2>3. top_operations \in [1..Len(top_operations) -> Ids']
    BY <2>1, <2>2
  <2> QED
    BY <1>1, <2>2, <2>3, SeqDef
<1> QED
  BY <1>1, <1>5, <1>6 DEF BuildInv, BuildVerified

\* A call of requestOutput, or a query's, adds phases to an operation.
LEMMA PutBuild ==
  ASSUME Inv, BuildInv, built = {}, UNCHANGED <<ops, built, wires>>, NEW i \in Ids,
         NEW p \in Phases, NEW F \in SUBSET Fields,
         required_fields' = [required_fields EXCEPT ![i] = put(@, p, F)],
         \/ top_operations' = top_operations
         \/ top_operations' = Append(top_operations, i) /\ Len(top_operations) < MaxQueries
  PROVE  BuildInv'
<1>1. wires = {} /\ Ids' = Ids
  BY DEF BuildInv, Ids
<1>2. /\ required_fields \in Seq(PhaseMap) /\ Len(required_fields) = Len(ops)
      /\ DOMAIN required_fields = Ids /\ required_fields[i] \in PhaseMap
  BY DEF Inv, Types, Ids
<1>3. DOMAIN put(required_fields[i], p, F) = DOMAIN required_fields[i] \cup {p}
  BY <1>2, PutFacts
<1>4. /\ required_fields'[i] = put(required_fields[i], p, F)
      /\ \A j \in Ids : j # i => required_fields'[j] = required_fields[j]
  BY <1>2
<1>5. DOMAIN required_fields'[i] # {} /\ \A j \in Ids : DOMAIN required_fields[j] # {} => DOMAIN required_fields'[j] # {}
  BY <1>3, <1>4
<1>6. top_operations \in Seq(Ids) /\ Len(top_operations) \in Nat
  BY DEF BuildInv
<1>7. /\ top_operations' \in Seq(Ids) /\ Len(top_operations') <= MaxQueries
      /\ \A q \in 1..Len(top_operations') :
           top_operations'[q] = i \/ \E o \in 1..Len(top_operations) : top_operations'[q] = top_operations[o]
  BY <1>6, PlanAssumption DEF BuildInv
<1>8. TopsRequired'
  BY <1>1, <1>5, <1>7 DEF BuildInv, TopsRequired
<1> QED
  BY <1>1, <1>7, <1>8 DEF BuildInv, BuildVerified

\* The builder connects operators that are built, in phases they run in.
LEMMA GetsFacts ==
  ASSUME Inv, TopsRequired, stack = <<>>, NEW i \in Ids, reachable[i],
         \A j \in 1..(i - 1) : reachable[j] => j \in built,
         NEW w \in gets(i)
  PROVE  /\ w \in Wire
         /\ w.from[1] \in built /\ w.from[2] \in DOMAIN required_fields[w.from[1]]
<1> DEFINE r == ops[i]
<1>1. Types /\ RequestLegal /\ Planned(i) /\ MaxOps \in Nat /\ Len(ops) \in Nat
  BY PlanAssumption DEF Inv, AllPlanned, Types
<1>2. r \in Relations /\ r.kind \in Kinds /\ r.args \in Seq(Nat \ {0})
  <2>1. r \in Relations
    BY <1>1, InputFacts
  <2> HIDE DEF r
  <2> QED
    BY <2>1, RelationFacts
<1>3. PICK p \in DOMAIN required_fields[i] : TRUE
  BY ReachedRequired
<1>4. ASSUME NEW k \in 1..Len(r.args) PROVE r.args[k] \in built /\ r.args[k] \in Ids
  <2>1. r.args[k] \in 1..(i - 1) /\ r.args[k] \in Ids /\ i \in (r.args[k] + 1)..Len(ops)
    <3>1. r.args[k] \in 1..(i - 1)
      BY <1>1 DEF Planned
    <3> QED
      BY <3>1 DEF Ids
  <2>2. reachable[r.args[k]]
    BY <1>1, <2>1, ReachableFacts
  <2> QED
    BY <2>1, <2>2
<1>5. ASSUME NEW a \in Ids, NEW q \in Phases \cup {Table}, NEW k \in Nat, NEW o \in Phases
      PROVE  wire(a, o, i, q, k) \in Wire
  BY <1>5 DEF wire, Wire, Phases
<1>6. ASSUME NEW a \in Ids, NEW o \in DOMAIN required_fields[a] PROVE o \in Phases
  <2>1. required_fields[a] \in PhaseMap
    BY <1>1 DEF Types, Ids
  <2> QED
    BY <2>1, LookupFacts
<1>a. r.kind \notin Sources => source(r) \in built /\ source(r) \in Ids /\ match(r) \in built /\ match(r) \in Ids
  <2> HIDE DEF r
  <2> SUFFICES ASSUME r.kind \notin Sources
               PROVE  source(r) \in built /\ source(r) \in Ids /\ match(r) \in built /\ match(r) \in Ids
    OBVIOUS
  <2>1. PICK k \in 1..Len(r.args) : source(r) = r.args[k]
    BY <1>2, ArgFacts
  <2>2. PICK l \in 1..Len(r.args) : match(r) = r.args[l]
    BY <1>2, ArgFacts
  <2> QED
    BY <1>4, <2>1, <2>2
<1>7. \A a, o, q, k : wire(a, o, i, q, k).from[1] = a /\ wire(a, o, i, q, k).from[2] = o
  BY DEF wire
<1>8. CASE r.kind \in Collectors
  <2>1. w = wire(source(r), min_phase[i], i, min_phase[i], 1)
    <3>1. r.kind \notin Joins
      BY <1>8 DEF Collectors, Joins
    <3>2. gets(i) = {wire(source(r), min_phase[i], i, min_phase[i], 1)}
      BY <1>8, <3>1 DEF gets
    <3> QED
      BY <3>2
  <2>2. r.kind \notin Sources
    BY <1>8 DEF Collectors, Sources
  <2>3. source(r) \in built /\ source(r) \in Ids
    BY <1>a, <2>2
  <2>4. min_phase[i] \in DOMAIN required_fields[source(r)]
    BY <1>3, <1>8, InputsRequired
  <2> HIDE DEF r
  <2>5. min_phase[i] \in Phases
    BY <1>6, <2>3, <2>4
  <2>6. w \in Wire
    BY <1>5, <2>1, <2>3, <2>5
  <2> QED
    BY <1>7, <2>1, <2>3, <2>4, <2>6
<1>9. CASE r.kind \in Joins
  <2>1. r.kind \notin Sources /\ r.kind \notin Collectors
    BY <1>9 DEF Joins, Sources, Collectors
  <2>2. source(r) \in built /\ source(r) \in Ids /\ match(r) \in built /\ match(r) \in Ids
    BY <1>a, <2>1
  <2>3. min_phase[match(r)] \in DOMAIN required_fields[match(r)]
    BY <1>3, <1>9, InputsRequired
  <2>4. \A q \in DOMAIN required_fields[i] : q \in DOMAIN required_fields[source(r)]
    BY <1>9, InputsRequired
  <2>5. \/ w = wire(match(r), min_phase[match(r)], i, Table, 1)
        \/ \E q \in DOMAIN required_fields[i] : w = wire(source(r), q, i, q, 2)
    <3>1. gets(i) = {wire(match(r), min_phase[match(r)], i, Table, 1)}
                      \cup {wire(source(r), q, i, q, 2) : q \in DOMAIN required_fields[i]}
      BY <1>9 DEF gets, Collectors, Joins
    <3> QED
      BY <3>1
  <2> HIDE DEF r
  <2>6. CASE w = wire(match(r), min_phase[match(r)], i, Table, 1)
    <3>1. min_phase[match(r)] \in Phases
      BY <1>6, <2>2, <2>3
    <3>2. w \in Wire
      BY <1>5, <2>2, <2>6, <3>1
    <3>3. w.from[1] = match(r) /\ w.from[2] = min_phase[match(r)]
      BY <2>6 DEF wire
    <3> QED
      BY <2>2, <2>3, <3>2, <3>3
  <2>7. CASE \E q \in DOMAIN required_fields[i] : w = wire(source(r), q, i, q, 2)
    <3>1. PICK q \in DOMAIN required_fields[i] : w = wire(source(r), q, i, q, 2)
      BY <2>7
    <3>2. q \in Phases /\ q \in DOMAIN required_fields[source(r)]
      BY <1>6, <2>4
    <3> QED
      BY <1>5, <1>7, <2>2, <3>1, <3>2
  <2> QED
    BY <2>5, <2>6, <2>7
<1>10. CASE r.kind \notin Collectors \cup Joins
  <2>1. PICK k \in 1..Len(r.args), q \in DOMAIN required_fields[i] : w = wire(r.args[k], q, i, q, k)
    <3>1. r.kind \notin Collectors /\ r.kind \notin Joins
      BY <1>10
    <3> DEFINE streams == {wire(r.args[l], o, i, o, l) : l \in 1..Len(r.args), o \in DOMAIN required_fields[i]}
    <3>2. gets(i) = streams
      <4>1. gets(i) = CASE r.kind \in Collectors -> {wire(source(r), min_phase[i], i, min_phase[i], 1)}
                        [] r.kind \in Joins ->
                             {wire(match(r), min_phase[match(r)], i, Table, 1)}
                               \cup {wire(source(r), o, i, o, 2) : o \in DOMAIN required_fields[i]}
                        [] OTHER -> streams
        BY DEF gets
      <4> HIDE DEF streams
      <4> QED
        BY <3>1, <4>1
    <3> QED
      BY <3>2
  <2>2. q \in DOMAIN required_fields[r.args[k]]
    BY <1>10, InputsRequired
  <2>3. r.args[k] \in built /\ r.args[k] \in Ids /\ k \in Nat
    BY <1>2, <1>4
  <2> HIDE DEF r
  <2>4. q \in Phases
    BY <1>6
  <2> QED
    BY <1>5, <1>7, <2>1, <2>2, <2>3, <2>4
<1> QED
  BY <1>8, <1>9, <1>10

\* The builder's step.
LEMMA BuildBuild ==
  ASSUME Inv, BuildInv, NEW i \in Ids, build(i)
  PROVE  BuildInv'
<1>1. /\ stack = <<>> /\ reachable[i] /\ built' = built \cup {i} /\ wires' = wires \cup gets(i)
      /\ \A j \in 1..(i - 1) : reachable[j] => j \in built
      /\ UNCHANGED <<ops, min_phase, schema, required_fields, top_operations, stack>>
  BY DEF build, planVars
<1>2. Ids' = Ids /\ Wire' = Wire
  BY <1>1 DEF Ids, Wire
<1>3. \A w \in gets(i) : /\ w \in Wire
                          /\ w.from[1] \in built /\ w.from[2] \in DOMAIN required_fields[w.from[1]]
  BY <1>1, GetsFacts DEF BuildInv
<1>4. wires' \subseteq Wire /\ BuildVerified'
  BY <1>1, <1>3 DEF BuildInv, BuildVerified
<1>5. TopsRequired'
  BY <1>1, <1>2 DEF BuildInv, TopsRequired
<1> QED
  BY <1>1, <1>2, <1>4, <1>5 DEF BuildInv

\* The builder's invariant holds throughout.
THEOREM BuildInductive == Spec => []BuildInv
<1>1. Init => BuildInv
  BY PlanAssumption DEF Init, BuildInv, TopsRequired, BuildVerified
<1>2. Inv /\ BuildInv /\ [Next]_vars => BuildInv'
  <2> SUFFICES ASSUME Inv, BuildInv, [Next]_vars PROVE BuildInv'
    OBVIOUS
  <2>1. ASSUME NEW i \in Ids, planStatement(i) PROVE BuildInv'
    <3>1. /\ built = {} /\ UNCHANGED <<ops, built, wires>>
          /\ top_operations' = Append(top_operations, i) /\ Len(top_operations) < MaxQueries
          /\ required_fields' = [required_fields EXCEPT ![i] = put(@, min_phase[i], schema[i])]
      BY <2>1 DEF planStatement
    <3>2. min_phase[i] \in Phases /\ schema[i] \in SUBSET Fields
      <4>1. min_phase[i] \in Nat /\ i \in Nat /\ i <= MaxOps /\ min_phase[i] < i /\ MaxOps \in Nat
        <5>1. min_phase[i] \in Nat /\ i \in Nat /\ i <= MaxOps
          BY PlanAssumption DEF Inv, Types, Ids
        <5> QED
          BY <5>1, PlanAssumption DEF Inv, AllPlanned, Planned
      <4>2. schema[i] \in SUBSET Fields
        BY DEF Inv, Types, Ids
      <4> QED
        BY <4>1, <4>2 DEF Phases
    <3> QED
      BY <3>1, <3>2, PutBuild
  <2>2. CASE requestOutput
    <3>1. PICK c : c = Head(stack)
      OBVIOUS
    <3>2. PICK F : F = lookup(required_fields[c.op], c.phase) \cup c.fields
      OBVIOUS
    <3>3. /\ stack # <<>> /\ UNCHANGED <<ops, built, wires, top_operations>>
          /\ required_fields' = [required_fields EXCEPT ![c.op] = put(@, c.phase, F)]
      BY <2>2, <3>1, <3>2 DEF requestOutput
    <3>4. built = {} /\ c \in Request
      BY <3>1, <3>3 DEF BuildInv, Inv, Types
    <3>5. c.op \in Ids /\ c.phase \in Phases /\ c.fields \in SUBSET Fields
      BY <3>4 DEF Request
    <3>6. required_fields[c.op] \in PhaseMap
      BY <3>5 DEF Inv, Types, Ids
    <3>7. F \in SUBSET Fields
      BY <3>2, <3>5, <3>6, LookupFacts
    <3> QED
      BY <3>3, <3>4, <3>5, <3>7, PutBuild
  <2>3. CASE UNCHANGED vars
    <3>1. UNCHANGED <<ops, required_fields, top_operations, stack, built, wires>>
      BY <2>3 DEF vars, planVars
    <3> QED
      BY <3>1 DEF BuildInv, TopsRequired, BuildVerified, Ids, Wire
  <2> QED
    BY <2>1, <2>2, <2>3, GrowBuild, BuildBuild DEF Next
<1> QED
  BY <1>1, <1>2, Inductive, PTL DEF Spec

\* Builder::get's verify() holds for every plan: what it connects is built, in
\* a phase in which it runs.
THEOREM GetsBuilt == Spec => []BuildVerified
<1>1. BuildInv => BuildVerified
  BY DEF BuildInv
<1> QED
  BY <1>1, BuildInductive, PTL

\* The state of the planner and the builder has its type.
THEOREM TypeCorrect == Spec => []TypeOK
<1>1. ASSUME Inv, BuildInv PROVE TypeOK
  <2>1. Types /\ AllPlanned /\ MaxOps \in Nat /\ Len(ops) \in Nat
    BY <1>1, PlanAssumption DEF Inv, Types
  <2>2. min_phase \in [Ids -> 0..MaxOps]
    <3>1. ASSUME NEW i \in Ids PROVE min_phase[i] \in 0..MaxOps
      <4>1. min_phase[i] \in Nat /\ i \in Nat /\ i <= MaxOps
        BY <2>1 DEF Types, Ids
      <4>2. min_phase[i] < i
        BY <2>1 DEF AllPlanned, Planned
      <4> QED
        BY <2>1, <4>1, <4>2
    <3>2. DOMAIN min_phase = Ids /\ min_phase = [i \in Ids |-> min_phase[i]]
      BY <2>1 DEF Types, Ids
    <3> QED
      BY <3>1, <3>2
  <2>3. schema \in [Ids -> SUBSET Fields]
    BY <2>1 DEF Types, Ids
  <2>4. DOMAIN required_fields = Ids /\ \A i \in Ids : required_fields[i] \in PhaseMap
    BY <2>1 DEF Types, Ids
  <2>5. ASSUME NEW i \in Ids
        PROVE  /\ DOMAIN required_fields[i] \subseteq 0..MaxOps
               /\ \A p \in DOMAIN required_fields[i] : required_fields[i][p] \subseteq Fields
    BY <2>4, LookupFacts DEF Phases
  <2>6. \A k \in 1..Len(stack) : stack[k] \in Request
    BY <2>1 DEF Types
  <2>7. \A k \in 1..Len(stack) : /\ stack[k].op \in Ids /\ stack[k].phase \in 0..MaxOps
                                  /\ stack[k].fields \subseteq Fields
    BY <2>6 DEF Request, Phases
  <2> QED
    BY <1>1, <2>1, <2>2, <2>3, <2>4, <2>5, <2>7 DEF TypeOK, Types, BuildInv, Wire
<1> QED
  BY <1>1, Inductive, BuildInductive, PTL
=============================================================================
