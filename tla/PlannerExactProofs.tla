------------------------- MODULE PlannerExactProofs -------------------------
(***************************************************************************)
(* For every set of relations and any number of queries: what the planner  *)
(* requires of an operation is exactly what the queries and the consumers  *)
(* of the operation need, in whatever order they were planned.             *)
(*                                                                         *)
(* PlannerProofs shows that nothing is missing (Closing).  Here every      *)
(* phase, field and pending call is shown to have a reason: a query, or a  *)
(* request that a consumer makes for what is required of it.  Reasons last *)
(* because an operation of which more is required asks for no less.  So    *)
(* required_fields solves the equation of need between the calls, and the  *)
(* equation has one solution, found from the last operation to the first.  *)
(***************************************************************************)
EXTENDS PlannerProofs

\* The request c is at least what d asks.
Covers(c, d) == c.op = d.op /\ c.phase = d.phase /\ d.fields \subseteq c.fields

\* What d asks has a reason, if rf is required and tops are the queries'.
Wanted(rf, tops, d) ==
  \/ \E j \in Ids : \E p \in DOMAIN rf[j] :
       \E k \in 1..Len(requests(j, p, rf[j][p])) : Covers(requests(j, p, rf[j][p])[k], d)
  \/ \E q \in 1..Len(tops) : /\ tops[q] = d.op /\ d.op \in Ids
                             /\ Covers(request(d.op, min_phase[d.op], schema[d.op]), d)

\* The phases in which an operation runs, and its fields there, have reasons.
Reasons(rf, tops) ==
  \A i \in Ids : \A p \in DOMAIN rf[i] :
    /\ Wanted(rf, tops, request(i, p, {}))
    /\ \A x \in rf[i][p] : Wanted(rf, tops, request(i, p, {x}))

\* What the queries ask is recorded.
TopsServed ==
  \A q \in 1..Len(top_operations) :
    /\ top_operations[q] \in Ids
    /\ Served(request(top_operations[q], min_phase[top_operations[q]],
                      schema[top_operations[q]]))

Justified ==
  /\ top_operations \in Seq(Nat)
  /\ TopsServed
  /\ Reasons(required_fields, top_operations)
  /\ \A k \in 1..Len(stack) : Wanted(required_fields, top_operations, stack[k])
----------------------------------------------------------------------------
\* The requests rs and qs are for the same inputs and phases, qs for no fewer
\* fields, and the inputs come before operation i.
NoLess(i, rs, qs) ==
  /\ Len(rs) = Len(qs)
  /\ \A k \in 1..Len(rs) :
       /\ rs[k].op \in 1..(i - 1)
       /\ Covers(qs[k], rs[k])

\* One request ...
LEMMA OneMore ==
  ASSUME NEW i \in Nat, NEW a \in 1..(i - 1), NEW q, NEW F, NEW G, F \subseteq G
  PROVE  NoLess(i, <<request(a, q, F)>>, <<request(a, q, G)>>)
  BY DEF NoLess, Covers, request

\* ... or two.
LEMMA TwoMore ==
  ASSUME NEW i \in Nat, NEW a \in 1..(i - 1), NEW q, NEW F, NEW G, F \subseteq G,
         NEW b \in 1..(i - 1), NEW o, NEW D, NEW E, D \subseteq E
  PROVE  NoLess(i, <<request(a, q, F), request(b, o, D)>>,
                   <<request(a, q, G), request(b, o, E)>>)
<1> DEFINE c == request(a, q, F)   d == request(b, o, D)
           e == request(a, q, G)   f == request(b, o, E)
<1>1. Covers(e, c) /\ Covers(f, d) /\ c.op = a /\ d.op = b
  BY DEF Covers, request
<1> HIDE DEF c, d, e, f
<1>2. NoLess(i, <<c, d>>, <<e, f>>)
  <2>1. Len(<<c, d>>) = 2 /\ Len(<<e, f>>) = 2
    OBVIOUS
  <2>2. ASSUME NEW k \in 1..2
        PROVE  <<c, d>>[k].op \in 1..(i - 1) /\ Covers(<<e, f>>[k], <<c, d>>[k])
    <3>1. CASE k = 1
      BY <1>1, <3>1
    <3>2. CASE k = 2
      BY <1>1, <3>2
    <3> QED
      BY <3>1, <3>2
  <2> QED
    BY <2>1, <2>2 DEF NoLess
<1> QED
  BY <1>2 DEF c, d, e, f

\* An operation of which more is required asks its inputs for no less, in the
\* same phases.
LEMMA RequestsMonotone ==
  ASSUME Types, NEW i \in Ids, Planned(i), NEW p, NEW F, NEW G, F \subseteq G
  PROVE  NoLess(i, requests(i, p, F), requests(i, p, G))
<1> DEFINE r == ops[i]
           s == source(r)
           m == match(r)
<1>1. r \in Relations /\ r.kind \in Kinds /\ r.args \in Seq(Nat \ {0}) /\ Len(r.args) \in Nat
  <2>1. r \in Relations
    BY InputFacts
  <2> HIDE DEF r
  <2> QED
    BY <2>1, RelationFacts
<1>2. \A k \in 1..Len(r.args) : r.args[k] \in 1..(i - 1)
  BY DEF Planned
<1>3. i \in Nat
  BY DEF Types, Ids
<1>4. r.kind \notin Sources => s \in 1..(i - 1) /\ m \in 1..(i - 1)
  <2> SUFFICES ASSUME r.kind \notin Sources PROVE s \in 1..(i - 1) /\ m \in 1..(i - 1)
    OBVIOUS
  <2> HIDE DEF r
  <2>1. PICK k \in 1..Len(r.args) : s = r.args[k]
    BY <1>1, ArgFacts
  <2>2. PICK l \in 1..Len(r.args) : m = r.args[l]
    BY <1>1, ArgFacts
  <2> QED
    BY <1>2, <2>1, <2>2
<1>5. projected(r, F) \subseteq projected(r, G)
  BY DEF projected
<1> DEFINE rs == requests(i, p, F)
           qs == requests(i, p, G)
<1> USE DEF Sources, Joins, Collectors, Unions, Keyed
<1>6. CASE r.kind \in Sources
  <2>1. rs = <<>> /\ qs = <<>>
    BY <1>6 DEF requests
  <2> QED
    BY <2>1 DEF NoLess
<1>7. CASE r.kind \in Unions
  <2>1. /\ rs = [k \in 1..Len(r.args) |-> request(r.args[k], p, F \cup r.own)]
        /\ qs = [k \in 1..Len(r.args) |-> request(r.args[k], p, G \cup r.own)]
    BY <1>7 DEF requests
  <2> HIDE DEF rs, qs
  <2>2. Len(rs) = Len(r.args) /\ Len(qs) = Len(r.args)
    BY <1>1, <2>1
  <2>3. ASSUME NEW k \in 1..Len(r.args)
        PROVE  rs[k].op \in 1..(i - 1) /\ Covers(qs[k], rs[k])
    <3>1. /\ rs[k] = request(r.args[k], p, F \cup r.own)
          /\ qs[k] = request(r.args[k], p, G \cup r.own)
      BY <2>1
    <3> QED
      BY <3>1, <1>2 DEF Covers, request
  <2>4. NoLess(i, rs, qs)
    BY <2>2, <2>3 DEF NoLess
  <2> QED
    BY <2>4 DEF rs, qs
<1>8. CASE r.kind \in Joins
  <2>1. \/ /\ r.kind = "semijoin"
           /\ rs = <<request(m, min_phase[m], r.match), request(s, p, F \cup r.own)>>
           /\ qs = <<request(m, min_phase[m], r.match), request(s, p, G \cup r.own)>>
        \/ /\ r.kind = "markjoin"
           /\ rs = <<request(m, min_phase[m], r.match), request(s, p, (F \ r.out) \cup r.own)>>
           /\ qs = <<request(m, min_phase[m], r.match), request(s, p, (G \ r.out) \cup r.own)>>
        \/ /\ r.kind = "leftjoin"
           /\ rs = <<request(s, p, (F \cap schema[s]) \cup r.own),
                     request(m, min_phase[m], (F \cap schema[m]) \cup r.match)>>
           /\ qs = <<request(s, p, (G \cap schema[s]) \cup r.own),
                     request(m, min_phase[m], (G \cap schema[m]) \cup r.match)>>
    BY <1>8 DEF requests
  <2>2. s \in 1..(i - 1) /\ m \in 1..(i - 1)
    BY <1>4, <1>8
  <2>3. /\ F \cup r.own \subseteq G \cup r.own
        /\ (F \ r.out) \cup r.own \subseteq (G \ r.out) \cup r.own
        /\ (F \cap schema[s]) \cup r.own \subseteq (G \cap schema[s]) \cup r.own
        /\ (F \cap schema[m]) \cup r.match \subseteq (G \cap schema[m]) \cup r.match
        /\ r.match \subseteq r.match
    OBVIOUS
  <2> HIDE DEF r, s, m, rs, qs
  <2>4. NoLess(i, rs, qs)
    BY <1>3, <2>1, <2>2, <2>3, TwoMore
  <2> QED
    BY <2>4 DEF rs, qs
<1>9. CASE r.kind \in Collectors \cup Keyed \cup {"projection", "group", "limit"}
  <2>1. \E q, D, E : /\ rs = <<request(s, q, D)>> /\ qs = <<request(s, q, E)>>
                     /\ D \subseteq E
    <3>1. CASE r.kind = "aggregate"
      BY <3>1 DEF requests
    <3>2. CASE r.kind = "materialize"
      BY <3>2 DEF requests
    <3>3. CASE r.kind = "projection"
      BY <3>3, <1>5 DEF requests
    <3>4. CASE r.kind = "group"
      <4>1. r.own \cup projected(r, F) \subseteq r.own \cup projected(r, G)
        BY <1>5
      <4> QED
        BY <3>4, <4>1 DEF requests
    <3>5. CASE r.kind \in Keyed \cup {"limit"}
      <4>1. F \cup r.own \subseteq G \cup r.own
        OBVIOUS
      <4> QED
        BY <3>5, <4>1 DEF requests
    <3> QED
      BY <1>9, <3>1, <3>2, <3>3, <3>4, <3>5
  <2>2. s \in 1..(i - 1)
    BY <1>4, <1>9
  <2> HIDE DEF r, s, rs, qs
  <2>3. NoLess(i, rs, qs)
    BY <1>3, <2>1, <2>2, OneMore
  <2> QED
    BY <2>3 DEF rs, qs
<1> QED
  BY <1>1, <1>6, <1>7, <1>8, <1>9 DEF Kinds

\* What covers a request covers one for less.
LEMMA CoverLess ==
  ASSUME NEW rf, NEW tops, NEW c, NEW d, Covers(c, d), Wanted(rf, tops, c)
  PROVE  Wanted(rf, tops, d)
<1>1. \A e : Covers(e, c) => Covers(e, d)
  BY DEF Covers
<1>2. c.op = d.op
  BY DEF Covers
<1> QED
  BY <1>1, <1>2 DEF Wanted

\* A reason lasts while more is required and queries are added.
LEMMA WantedGrows ==
  ASSUME Types, AllPlanned, NEW rf, NEW new, NEW tops, NEW more,
         \A i \in Ids : \A p \in DOMAIN rf[i] :
           p \in DOMAIN new[i] /\ rf[i][p] \subseteq new[i][p],
         \A q \in 1..Len(tops) : q \in 1..Len(more) /\ more[q] = tops[q],
         NEW d, Wanted(rf, tops, d)
  PROVE  Wanted(new, more, d)
<1>1. CASE \E q \in 1..Len(tops) :
             /\ tops[q] = d.op /\ d.op \in Ids
             /\ Covers(request(d.op, min_phase[d.op], schema[d.op]), d)
  BY <1>1 DEF Wanted
<1>2. CASE \E j \in Ids : \E p \in DOMAIN rf[j] :
             \E k \in 1..Len(requests(j, p, rf[j][p])) : Covers(requests(j, p, rf[j][p])[k], d)
  <2>1. PICK j \in Ids : \E p \in DOMAIN rf[j] :
          \E k \in 1..Len(requests(j, p, rf[j][p])) : Covers(requests(j, p, rf[j][p])[k], d)
    BY <1>2
  <2>2. PICK p \in DOMAIN rf[j] :
          \E k \in 1..Len(requests(j, p, rf[j][p])) : Covers(requests(j, p, rf[j][p])[k], d)
    BY <2>1
  <2>3. PICK rs, qs : rs = requests(j, p, rf[j][p]) /\ qs = requests(j, p, new[j][p])
    OBVIOUS
  <2>4. PICK k \in 1..Len(rs) : Covers(rs[k], d)
    BY <2>2, <2>3
  <2>5. NoLess(j, rs, qs)
    BY <2>3, RequestsMonotone DEF AllPlanned
  <2>6. k \in 1..Len(qs) /\ Covers(qs[k], d)
    BY <2>4, <2>5 DEF NoLess, Covers
  <2>7. p \in DOMAIN new[j]
    OBVIOUS
  <2> QED
    BY <2>3, <2>6, <2>7 DEF Wanted
<1> QED
  BY <1>1, <1>2 DEF Wanted

\* What an operation asks depends on the plan alone.
LEMMA SameRequests ==
  ASSUME ops' = ops, min_phase' = min_phase, schema' = schema, NEW i, NEW p, NEW F
  PROVE  requests(i, p, F)' = requests(i, p, F)
  BY DEF requests, source, match, request, projected

\* A call that asks operation j for the fields M in phase ph, all of which have
\* a reason once it is recorded: so do j's own requests.
LEMMA PushJustified ==
  ASSUME Inv, Justified, NEW j \in Ids, NEW ph \in Phases, NEW M \in SUBSET schema[j],
         lookup(required_fields[j], ph) \subseteq M,
         NEW rest, rest \in Seq(Request), min_phase[j] <= ph,
         NEW new, new = [required_fields EXCEPT ![j] = put(@, ph, M)],
         NEW tops, tops \in Seq(Nat),
         \A q \in 1..Len(top_operations) : q \in 1..Len(tops) /\ tops[q] = top_operations[q],
         Wanted(new, tops, request(j, ph, {})),
         \A x \in M : x \in lookup(required_fields[j], ph)
                        \/ Wanted(new, tops, request(j, ph, {x})),
         \A k \in 1..Len(rest) : Wanted(required_fields, top_operations, rest[k]),
         \A q \in 1..Len(tops) :
           \/ \E o \in 1..Len(top_operations) : tops[q] = top_operations[o]
           \/ tops[q] = j /\ ph = min_phase[j] /\ M = schema[j],
         required_fields' = new, top_operations' = tops,
         stack' = requests(j, ph, M) \o rest,
         UNCHANGED <<ops, min_phase, schema>>
  PROVE  Justified'
<1>1. Types /\ AllPlanned /\ RequestLegal
  BY DEF Inv
<1>2. /\ ops' = ops /\ min_phase' = min_phase /\ schema' = schema
      /\ Ids' = Ids
  BY DEF Ids
<1>3. \A i, p, F : requests(i, p, F)' = requests(i, p, F)
  BY <1>2, SameRequests
<1>4. \A rf, tp, d : Wanted(rf, tp, d)' <=> Wanted(rf, tp, d)
  BY <1>2, <1>3 DEF Wanted, request
<1>5. /\ new[j] = put(required_fields[j], ph, M)
      /\ \A i \in Ids : i # j => new[i] = required_fields[i]
  BY <1>1 DEF Types, Ids
<1>6. /\ DOMAIN new[j] = DOMAIN required_fields[j] \cup {ph}
      /\ new[j][ph] = M
      /\ \A q \in DOMAIN required_fields[j] : q # ph => new[j][q] = required_fields[j][q]
  <2>1. /\ DOMAIN put(required_fields[j], ph, M) = DOMAIN required_fields[j] \cup {ph}
        /\ put(required_fields[j], ph, M)[ph] = M
        /\ \A q \in DOMAIN required_fields[j] :
             q # ph => put(required_fields[j], ph, M)[q] = required_fields[j][q]
    <3>1. required_fields[j] \in PhaseMap /\ M \in SUBSET Fields
      BY <1>1 DEF Types, Ids
    <3>2. \A f \in PhaseMap, q \in Phases, F \in SUBSET Fields :
            /\ DOMAIN put(f, q, F) = DOMAIN f \cup {q}
            /\ put(f, q, F)[q] = F
            /\ \A o \in DOMAIN f : o # q => put(f, q, F)[o] = f[o]
      BY PutFacts
    <3> QED
      BY <3>1, <3>2
  <2> QED
    BY <1>5, <2>1
<1>7. ASSUME NEW i \in Ids, NEW p \in DOMAIN required_fields[i]
      PROVE  p \in DOMAIN new[i] /\ required_fields[i][p] \subseteq new[i][p]
  <2>1. CASE i = j /\ p = ph
    BY <1>6, <2>1 DEF lookup
  <2>2. CASE i # j \/ p # ph
    BY <1>5, <1>6, <2>2
  <2> QED
    BY <2>1, <2>2
<1>8. ASSUME NEW d, Wanted(required_fields, top_operations, d) PROVE Wanted(new, tops, d)
  BY <1>1, <1>7, <1>8, WantedGrows
<1>9. Reasons(new, tops)
  <2> SUFFICES ASSUME NEW i \in Ids, NEW p \in DOMAIN new[i]
               PROVE  /\ Wanted(new, tops, request(i, p, {}))
                      /\ \A x \in new[i][p] : Wanted(new, tops, request(i, p, {x}))
    BY DEF Reasons
  <2>1. ASSUME NEW o \in Ids, NEW q \in DOMAIN required_fields[o]
        PROVE  /\ Wanted(new, tops, request(o, q, {}))
               /\ \A x \in required_fields[o][q] : Wanted(new, tops, request(o, q, {x}))
    BY <1>8 DEF Justified, Reasons
  <2>2. CASE i = j /\ p = ph
    <3>1. \A x \in lookup(required_fields[j], ph) : Wanted(new, tops, request(j, ph, {x}))
      BY <2>1 DEF lookup
    <3> QED
      BY <1>6, <2>2, <3>1
  <2>3. CASE i # j \/ p # ph
    <3>1. p \in DOMAIN required_fields[i] /\ new[i][p] = required_fields[i][p]
      BY <1>5, <1>6, <2>3
    <3> QED
      BY <2>1, <3>1
  <2> QED
    BY <2>2, <2>3
<1>10. PICK rs : rs = requests(j, ph, M)
  OBVIOUS
<1>11. rs \in Seq(Request)
  BY <1>1, <1>10, RequestsLawful DEF AllPlanned, Lawful
<1>12. ASSUME NEW k \in 1..Len(rs) PROVE Wanted(new, tops, rs[k])
  <2>1. ph \in DOMAIN new[j] /\ requests(j, ph, new[j][ph]) = rs
    BY <1>6, <1>10
  <2>2. Covers(rs[k], rs[k])
    BY DEF Covers
  <2> QED
    BY <2>1, <2>2 DEF Wanted
<1>13. \A k \in 1..Len(stack') : Wanted(new, tops, stack'[k])
  <2>1. \A k \in 1..Len(rest) : Wanted(new, tops, rest[k])
    BY <1>8
  <2>2. ASSUME NEW k \in 1..Len(stack') PROVE Wanted(new, tops, stack'[k])
    <3>1. /\ \A l \in 1..Len(rs) : stack'[l] = rs[l]
          /\ \A l \in 1..Len(rest) : stack'[Len(rs) + l] = rest[l]
          /\ \/ k \in 1..Len(rs)
             \/ k - Len(rs) \in 1..Len(rest) /\ k = Len(rs) + (k - Len(rs))
      <4>1. stack' = rs \o rest
        BY <1>10
      <4> QED
        BY <1>11, <4>1, ConcatFacts
    <3>2. CASE k \in 1..Len(rs)
      BY <1>12, <3>1, <3>2
    <3>3. CASE k - Len(rs) \in 1..Len(rest) /\ k = Len(rs) + (k - Len(rs))
      <4>1. PICK l \in 1..Len(rest) : k = Len(rs) + l
        BY <3>3
      <4> QED
        BY <2>1, <3>1, <4>1
    <3> QED
      BY <3>1, <3>2, <3>3
  <2> QED
    BY <2>2
<1>14. ASSUME NEW q \in 1..Len(tops)
       PROVE  /\ tops[q] \in Ids
              /\ min_phase[tops[q]] \in DOMAIN new[tops[q]]
              /\ schema[tops[q]] \subseteq new[tops[q]][min_phase[tops[q]]]
  <2>1. CASE \E o \in 1..Len(top_operations) : tops[q] = top_operations[o]
    <3>1. PICK t \in Ids : /\ t = tops[q] /\ min_phase[t] \in DOMAIN required_fields[t]
                           /\ schema[t] \subseteq required_fields[t][min_phase[t]]
      BY <2>1 DEF Justified, TopsServed, Served, request
    <3>2. /\ min_phase[t] \in DOMAIN new[t]
          /\ required_fields[t][min_phase[t]] \subseteq new[t][min_phase[t]]
      BY <1>7, <3>1
    <3> QED
      BY <3>1, <3>2
  <2>2. CASE tops[q] = j /\ ph = min_phase[j] /\ M = schema[j]
    BY <1>6, <2>2
  <2> QED
    BY <2>1, <2>2
<1>15. TopsServed'
  BY <1>2, <1>14 DEF TopsServed, Served, request
<1>16. Reasons(required_fields, top_operations)'
  BY <1>2, <1>4, <1>9 DEF Reasons, request
<1> QED
  BY <1>4, <1>13, <1>15, <1>16 DEF Justified

\* A query is the reason of what it asks.
LEMMA QueryJustified ==
  ASSUME Inv, Justified, NEW i \in Ids, planStatement(i)
  PROVE  Justified'
<1>1. Types /\ AllPlanned /\ RequestLegal
  BY DEF Inv
<1>2. min_phase[i] \in Nat /\ min_phase[i] \in Phases /\ i \in Nat
  <2>1. min_phase[i] \in Nat /\ i \in Nat /\ i <= MaxOps /\ min_phase[i] < i
    <3>1. min_phase[i] \in Nat /\ i \in Nat /\ i <= MaxOps
      BY <1>1, PlanAssumption DEF Types, Ids
    <3> QED
      BY <1>1, <3>1 DEF AllPlanned, Planned
  <2> QED
    BY <2>1, PlanAssumption DEF Phases
<1>0. PICK ph \in Phases : ph = min_phase[i]
  BY <1>2
<1>3. PICK new, tops, M : /\ M = schema[i]
                          /\ new = [required_fields EXCEPT ![i] = put(@, ph, M)]
                          /\ tops = Append(top_operations, i)
  OBVIOUS
<1>4. /\ required_fields' = new /\ top_operations' = tops
      /\ stack' = requests(i, ph, M)
      /\ UNCHANGED <<ops, min_phase, schema>>
  BY <1>0, <1>3 DEF planStatement
<1>5. /\ tops \in Seq(Nat) /\ Len(tops) \in 1..Len(tops) /\ tops[Len(tops)] = i
      /\ \A q \in 1..Len(top_operations) : q \in 1..Len(tops) /\ tops[q] = top_operations[q]
      /\ \A q \in 1..Len(tops) : q \in 1..Len(top_operations) \/ q = Len(tops)
  BY <1>2, <1>3 DEF Justified
<1>6. ASSUME NEW F \in SUBSET M PROVE Wanted(new, tops, request(i, ph, F))
  <2>1. PICK d : d = request(i, ph, F)
    OBVIOUS
  <2>2. d.op = i /\ Covers(request(i, min_phase[i], schema[i]), d)
    BY <1>0, <1>3, <2>1 DEF Covers, request
  <2>3. Wanted(new, tops, d)
    BY <1>5, <2>2 DEF Wanted
  <2> QED
    BY <2>1, <2>3
<1>7. /\ Wanted(new, tops, request(i, ph, {}))
      /\ \A x \in M : Wanted(new, tops, request(i, ph, {x}))
  BY <1>6
<1>8. \A q \in 1..Len(tops) : \/ \E o \in 1..Len(top_operations) : tops[q] = top_operations[o]
                              \/ tops[q] = i /\ ph = min_phase[i] /\ M = schema[i]
  BY <1>0, <1>3, <1>5
<1>9. stack' = requests(i, ph, M) \o <<>>
  <2>1. requests(i, ph, M) \in Seq(Request)
    BY <1>0, <1>1, <1>2, <1>3, RequestsLawful DEF AllPlanned, Lawful
  <2> QED
    BY <1>4, <2>1
<1>10. PICK rest \in Seq(Request) : rest = <<>> /\ 1..Len(rest) = {}
  <2>1. <<>> \in Seq(Request) /\ Len(<<>>) = 0 /\ 1..0 = {}
    OBVIOUS
  <2> QED
    BY <2>1
<1>14. \A k \in 1..Len(rest) : Wanted(required_fields, top_operations, rest[k])
  BY <1>10
<1>13. stack' = requests(i, ph, M) \o rest
  BY <1>9, <1>10
<1>11. lookup(required_fields[i], ph) \subseteq M
  BY <1>1, <1>2, <1>3, RequiredFacts
<1>12. min_phase[i] <= ph /\ M \in SUBSET schema[i]
  BY <1>0, <1>2, <1>3
<1>15. \A x \in M : x \in lookup(required_fields[i], ph)
                      \/ Wanted(new, tops, request(i, ph, {x}))
  BY <1>7
<1>16. tops \in Seq(Nat) /\ new = [required_fields EXCEPT ![i] = put(@, ph, M)]
  BY <1>3, <1>5
<1>17. \A q \in 1..Len(top_operations) : q \in 1..Len(tops) /\ tops[q] = top_operations[q]
  BY <1>5
<1>18. /\ required_fields' = new /\ top_operations' = tops
       /\ UNCHANGED <<ops, min_phase, schema>>
  BY <1>4
<1>19. Wanted(new, tops, request(i, ph, {}))
  BY <1>7
<1> QED
  BY <1>8, <1>11, <1>12, <1>13, <1>14, <1>15, <1>16, <1>17, <1>18, <1>19, PushJustified

\* A pending call has a reason, and hands it on.
LEMMA RequestJustified ==
  ASSUME Inv, Justified, requestOutput
  PROVE  Justified'
<1>1. Types /\ AllPlanned /\ RequestLegal /\ stack # <<>>
  BY DEF Inv, requestOutput
<1>2. PICK c, rest : c = Head(stack) /\ rest = Tail(stack)
  OBVIOUS
<1>3. /\ c \in Request /\ rest \in Seq(Request) /\ Legal(c)
      /\ Wanted(required_fields, top_operations, c)
      /\ \A k \in 1..Len(rest) : Wanted(required_fields, top_operations, rest[k])
  <2>1. /\ 1 \in 1..Len(stack) /\ c = stack[1] /\ c \in Request /\ rest \in Seq(Request)
        /\ \A k \in 1..Len(rest) : k + 1 \in 1..Len(stack) /\ rest[k] = stack[k + 1]
    BY <1>1, <1>2 DEF Types
  <2> QED
    BY <1>1, <2>1 DEF Justified, RequestLegal
<1>4. c.op \in Ids /\ c.phase \in Phases /\ min_phase[c.op] <= c.phase
      /\ c.fields \subseteq schema[c.op]
  BY <1>3 DEF Request, Legal
<1>5. PICK j \in Ids, ph \in Phases : j = c.op /\ ph = c.phase
  BY <1>4
<1>6. PICK M, new : /\ M = lookup(required_fields[j], ph) \cup c.fields
                    /\ new = [required_fields EXCEPT ![j] = put(@, ph, M)]
  OBVIOUS
<1>7. /\ required_fields' = new /\ stack' = requests(j, ph, M) \o rest
      /\ UNCHANGED <<ops, min_phase, schema>> /\ top_operations' = top_operations
  BY <1>2, <1>5, <1>6 DEF requestOutput
<1>8. lookup(required_fields[j], ph) \subseteq M /\ M \in SUBSET schema[j] /\ min_phase[j] <= ph
  BY <1>1, <1>4, <1>5, <1>6, RequiredFacts
<1>9. /\ new[j] = put(required_fields[j], ph, M)
      /\ \A i \in Ids : i # j => new[i] = required_fields[i]
  <2>1. DOMAIN required_fields = Ids
    BY <1>1 DEF Types, Ids
  <2> QED
    BY <1>6, <2>1
<1>10. ASSUME NEW i \in Ids, NEW p \in DOMAIN required_fields[i]
       PROVE  p \in DOMAIN new[i] /\ required_fields[i][p] \subseteq new[i][p]
  <2>1. CASE i = j /\ p = ph
    BY <1>6, <1>9, <2>1 DEF lookup, put
  <2>2. CASE i # j \/ p # ph
    BY <1>9, <2>2 DEF put
  <2> QED
    BY <2>1, <2>2
<1>11. Wanted(new, top_operations, c)
  BY <1>1, <1>3, <1>10, WantedGrows
<1>12. ASSUME NEW F \in SUBSET c.fields PROVE Wanted(new, top_operations, request(j, ph, F))
  <2>1. PICK d : d = request(j, ph, F)
    OBVIOUS
  <2>2. Covers(c, d)
    BY <1>5, <2>1 DEF Covers, request
  <2>3. Wanted(new, top_operations, d)
    BY <1>11, <2>2, CoverLess
  <2> QED
    BY <2>1, <2>3
<1>13. /\ Wanted(new, top_operations, request(j, ph, {}))
       /\ \A x \in c.fields : Wanted(new, top_operations, request(j, ph, {x}))
  BY <1>12
<1>14. \A x \in M : x \in lookup(required_fields[j], ph)
                      \/ Wanted(new, top_operations, request(j, ph, {x}))
  BY <1>6, <1>13
<1>15. top_operations \in Seq(Nat)
  BY DEF Justified
<1> QED
  BY <1>3, <1>6, <1>7, <1>8, <1>13, <1>14, <1>15, PushJustified

\* A new operation has no phase yet, and the others ask what they asked.
LEMMA GrowJustified ==
  ASSUME Inv, Justified, NEW r \in Relations, planRelation(r)
  PROVE  Justified'
<1>1. Types /\ AllPlanned
  BY DEF Inv
<1>2. PICK m \in floors(r) : min_phase' = Append(min_phase, m)
  BY DEF planRelation
<1>3. /\ stack = <<>> /\ stack' = stack
      /\ ops' = Append(ops, r)
      /\ schema' = Append(schema, schemaOf(schema, r))
      /\ required_fields' = Append(required_fields, <<>>)
      /\ top_operations' = top_operations
  BY DEF planRelation
<1>4. /\ Ids \subseteq Ids' /\ Len(ops) \in Nat
      /\ \A i \in Ids' : i \in Ids \/ DOMAIN required_fields'[i] = {}
      /\ \A i \in Ids : /\ ops'[i] = ops[i] /\ min_phase'[i] = min_phase[i]
                        /\ schema'[i] = schema[i]
                        /\ required_fields'[i] = required_fields[i]
  BY <1>1, <1>2, <1>3 DEF Types, Ids
<1>5. ASSUME NEW i \in Ids, NEW p, NEW F PROVE requests(i, p, F)' = requests(i, p, F)
  <2>1. Planned(i) /\ ops[i] \in Relations
    BY <1>1 DEF AllPlanned, Types, Ids
  <2>2. \A k \in 1..Len(ops[i].args) : ops[i].args[k] \in Ids
    BY <1>1, <2>1, InputFacts
  <2>5. ops'[i] = ops[i] /\ min_phase'[i] = min_phase[i]
    BY <1>4
  <2>3. CASE ops[i].kind \in Sources
    BY <2>3, <2>5 DEF requests
  <2>4. CASE ops[i].kind \notin Sources
    <3>1. source(ops[i]) \in Ids /\ match(ops[i]) \in Ids
      BY <2>1, <2>2, <2>4, ArgFacts
    <3>2. /\ schema'[source(ops[i])] = schema[source(ops[i])]
          /\ schema'[match(ops[i])] = schema[match(ops[i])]
          /\ min_phase'[match(ops[i])] = min_phase[match(ops[i])]
      BY <1>4, <3>1
    <3> QED
      BY <2>4, <2>5, <3>2 DEF requests, source, match, request, projected
  <2> QED
    BY <2>3, <2>4
<1>6. ASSUME NEW d, Wanted(required_fields, top_operations, d)
      PROVE  Wanted(required_fields, top_operations, d)'
  <2>1. CASE \E q \in 1..Len(top_operations) :
               /\ top_operations[q] = d.op /\ d.op \in Ids
               /\ Covers(request(d.op, min_phase[d.op], schema[d.op]), d)
    BY <1>3, <1>4, <2>1 DEF Wanted, request, Covers
  <2>2. ASSUME NEW j \in Ids, NEW p \in DOMAIN required_fields[j],
               NEW k \in 1..Len(requests(j, p, required_fields[j][p])),
               Covers(requests(j, p, required_fields[j][p])[k], d)
        PROVE  Wanted(required_fields, top_operations, d)'
    <3>1. required_fields'[j] = required_fields[j] /\ j \in Ids'
      BY <1>4
    <3>2. PICK F : F = required_fields[j][p]
      OBVIOUS
    <3>3. requests(j, p, F)' = requests(j, p, F)
      BY <1>5
    <3> QED
      BY <2>2, <3>1, <3>2, <3>3 DEF Wanted, Covers
  <2> QED
    BY <1>6, <2>1, <2>2 DEF Wanted
<1>7. TopsServed'
  BY <1>3, <1>4 DEF Justified, TopsServed, Served, request
<1>8. Reasons(required_fields, top_operations)'
  <2>1. \A i \in Ids : \A p \in DOMAIN required_fields[i] :
          /\ Wanted(required_fields, top_operations, request(i, p, {}))'
          /\ \A x \in required_fields[i][p] :
               Wanted(required_fields, top_operations, request(i, p, {x}))'
    BY <1>6 DEF Justified, Reasons
  <2> QED
    BY <1>4, <2>1 DEF Reasons, request
<1> QED
  BY <1>3, <1>7, <1>8 DEF Justified

\* Steps that leave the plan alone: the builder's.
LEMMA BuildJustified ==
  ASSUME Justified, UNCHANGED planVars
  PROVE  Justified'
<1>1. /\ ops' = ops /\ min_phase' = min_phase /\ schema' = schema
      /\ required_fields' = required_fields /\ stack' = stack
      /\ top_operations' = top_operations /\ Ids' = Ids
  BY DEF planVars, Ids
<1>2. \A i, p, F : requests(i, p, F)' = requests(i, p, F)
  BY <1>1, SameRequests
<1>3. \A d : Wanted(required_fields, top_operations, d)' <=> Wanted(required_fields, top_operations, d)
  BY <1>1, <1>2 DEF Wanted, request
<1>4. TopsServed' /\ Reasons(required_fields, top_operations)'
  BY <1>1, <1>3 DEF Justified, TopsServed, Served, Reasons, request
<1> QED
  BY <1>1, <1>3, <1>4 DEF Justified

\* Everything that is required or asked for has a reason, at all times.
THEOREM JustifiedInductive == Spec => []Justified
<1>1. Init => Justified
  BY DEF Init, Justified, TopsServed, Reasons, Ids
<1>2. Inv /\ Justified /\ [Next]_vars => Justified'
  <2> SUFFICES ASSUME Inv, Justified, [Next]_vars PROVE Justified'
    OBVIOUS
  <2>1. ASSUME NEW i \in Ids, build(i) PROVE Justified'
    BY <2>1, BuildJustified DEF build
  <2>2. CASE UNCHANGED vars
    BY <2>2, BuildJustified DEF vars
  <2> QED
    BY <2>1, <2>2, GrowJustified, QueryJustified, RequestJustified DEF Next
<1> QED
  BY <1>1, <1>2, Inductive, PTL DEF Spec
----------------------------------------------------------------------------
\* The body of need: what is asked of operation i if f is required ...
Asked(f, i) ==
  {c \in UNION {Calls(j, f[j]) : j \in (i + 1)..Len(ops)} : c.op = i}
    \cup {request(i, min_phase[i], schema[i]) :
            q \in {q \in 1..Len(top_operations) : top_operations[q] = i}}

\* ... and the phases and fields that amounts to.
Needed(f, i) ==
  [p \in {c.phase : c \in Asked(f, i)} |->
     UNION {c.fields : c \in {d \in Asked(f, i) : d.phase = p}}]

Solves(f) == f = [i \in Ids |-> Needed(f, i)]

\* The requests among those asked.
LEMMA AskedFacts ==
  ASSUME NEW f, NEW i, NEW c
  PROVE  c \in Asked(f, i) <=>
           \/ /\ c.op = i
              /\ \E j \in (i + 1)..Len(ops) : \E p \in DOMAIN f[j] :
                   \E k \in 1..Len(requests(j, p, f[j][p])) : c = requests(j, p, f[j][p])[k]
           \/ /\ c = request(i, min_phase[i], schema[i])
              /\ \E q \in 1..Len(top_operations) : top_operations[q] = i
<1>1. \A j : c \in Calls(j, f[j]) <=>
        \E p \in DOMAIN f[j] : \E k \in 1..Len(requests(j, p, f[j][p])) :
          c = requests(j, p, f[j][p])[k]
  BY DEF Calls
<1>2. c \in Asked(f, i) <=>
        \/ c.op = i /\ \E j \in (i + 1)..Len(ops) : c \in Calls(j, f[j])
        \/ /\ c = request(i, min_phase[i], schema[i])
           /\ \E q \in 1..Len(top_operations) : top_operations[q] = i
  BY DEF Asked
<1> QED
  BY <1>1, <1>2

\* Between the calls, what is required of an operation is what is asked of it.
LEMMA RequiredIsNeeded ==
  ASSUME Inv, Justified, stack = <<>>, NEW i \in Ids
  PROVE  required_fields[i] = Needed(required_fields, i)
<1>1. Types /\ AllPlanned /\ RequestLegal /\ Closing
  BY DEF Inv
<1>2. PICK g \in PhaseMap : g = required_fields[i]
  BY <1>1 DEF Types, Ids
<1>3. PICK A : A = Asked(required_fields, i)
  OBVIOUS
<1>4. i \in Nat /\ Len(ops) \in Nat
  BY <1>1 DEF Types, Ids
<1>5. ASSUME NEW c \in A PROVE c.phase \in DOMAIN g /\ c.fields \subseteq g[c.phase]
  <2>1. CASE \E q \in 1..Len(top_operations) : /\ top_operations[q] = i
                                               /\ c = request(i, min_phase[i], schema[i])
    BY <1>2, <2>1 DEF Justified, TopsServed, Served, request
  <2>2. ASSUME c.op = i, NEW j \in (i + 1)..Len(ops), NEW p \in DOMAIN required_fields[j],
               NEW k \in 1..Len(requests(j, p, required_fields[j][p])),
               c = requests(j, p, required_fields[j][p])[k]
        PROVE  c.phase \in DOMAIN g /\ c.fields \subseteq g[c.phase]
    <3>1. j \in Ids
      BY <1>4 DEF Ids
    <3>2. Served(c) \/ Pending(c)
      BY <1>1, <2>2, <3>1 DEF Closing
    <3>3. ~Pending(c)
      BY DEF Pending, PendingIn
    <3> QED
      BY <1>2, <2>2, <3>2, <3>3 DEF Served
  <2> QED
    BY <1>3, <2>1, <2>2, AskedFacts
<1>6. ASSUME NEW p \in DOMAIN g, NEW F, Wanted(required_fields, top_operations, request(i, p, F))
      PROVE  \E c \in A : c.phase = p /\ F \subseteq c.fields
  <2>1. PICK d : d = request(i, p, F) /\ d.op = i /\ d.phase = p /\ d.fields = F
    <3>1. request(i, p, F).op = i /\ request(i, p, F).phase = p /\ request(i, p, F).fields = F
      BY DEF request
    <3> QED
      BY <3>1
  <2>2. CASE \E q \in 1..Len(top_operations) :
               /\ top_operations[q] = d.op /\ d.op \in Ids
               /\ Covers(request(d.op, min_phase[d.op], schema[d.op]), d)
    <3>1. PICK c : c = request(i, min_phase[i], schema[i]) /\ Covers(c, d)
      BY <2>1, <2>2
    <3>2. c \in A
      BY <1>3, <2>1, <2>2, <3>1, AskedFacts
    <3> QED
      BY <2>1, <3>1, <3>2 DEF Covers
  <2>3. ASSUME NEW j \in Ids, NEW o \in DOMAIN required_fields[j],
               NEW k \in 1..Len(requests(j, o, required_fields[j][o])),
               Covers(requests(j, o, required_fields[j][o])[k], d)
        PROVE  \E c \in A : c.phase = p /\ F \subseteq c.fields
    <3>1. PICK rs : rs = requests(j, o, required_fields[j][o])
      OBVIOUS
    <3>2. NoLess(j, rs, rs)
      BY <1>1, <3>1, RequestsMonotone DEF AllPlanned
    <3>3. PICK c : c = rs[k] /\ Covers(c, d) /\ k \in 1..Len(rs)
      BY <2>3, <3>1
    <3>4. c.op = i /\ c.op \in 1..(j - 1)
      BY <2>1, <3>2, <3>3 DEF NoLess, Covers
    <3>5. j \in (i + 1)..Len(ops)
      BY <1>4, <3>4 DEF Ids
    <3>6. c \in A
      BY <1>3, <3>1, <3>3, <3>4, <3>5, AskedFacts
    <3> QED
      BY <2>1, <3>3, <3>6 DEF Covers
  <2> QED
    BY <1>6, <2>1, <2>2, <2>3 DEF Wanted
<1>7. DOMAIN g = {c.phase : c \in A}
  <2>1. \A p \in DOMAIN g : \E c \in A : c.phase = p
    BY <1>2, <1>6 DEF Justified, Reasons
  <2> QED
    BY <1>5, <2>1
<1>8. ASSUME NEW p \in DOMAIN g PROVE g[p] = UNION {c.fields : c \in {d \in A : d.phase = p}}
  <2>1. ASSUME NEW x \in g[p] PROVE \E c \in A : c.phase = p /\ x \in c.fields
    <3>1. Wanted(required_fields, top_operations, request(i, p, {x}))
      BY <1>2 DEF Justified, Reasons
    <3>2. \E c \in A : c.phase = p /\ {x} \subseteq c.fields
      BY <1>6, <3>1
    <3> QED
      BY <3>2
  <2> QED
    BY <1>5, <2>1
<1>9. g = [p \in DOMAIN g |-> g[p]]
  BY DEF PhaseMap
<1>10. g = [p \in {c.phase : c \in A} |-> UNION {c.fields : c \in {d \in A : d.phase = p}}]
  BY <1>7, <1>8, <1>9
<1> QED
  BY <1>2, <1>3, <1>10 DEF Needed

\* The equation of need has one solution: two that differ differ at a last
\* operation, of which the later ones ask the same.
LEMMA OneSolution ==
  ASSUME Len(ops) \in Nat, NEW f, NEW g, Solves(f), Solves(g), NEW i \in Ids
  PROVE  f[i] = g[i]
<1>0. PICK N \in Nat : N = Len(ops)
  OBVIOUS
<1> DEFINE T == {n \in Nat : \E j \in Ids : n = N - j /\ f[j] # g[j]}
<1>1. T = {}
  <2> SUFFICES ASSUME T # {} PROVE FALSE
    OBVIOUS
  <2>1. PICK n \in T : \A m \in T : n <= m
    <3>1. T \subseteq Nat
      OBVIOUS
    <3> HIDE DEF T
    <3> QED
      BY <3>1, LeastNumber
  <2>2. PICK j \in Ids : n = N - j /\ f[j] # g[j]
    OBVIOUS
  <2>3. ASSUME NEW o \in (j + 1)..Len(ops) PROVE f[o] = g[o]
    <3>1. o \in Ids /\ N - o \in Nat /\ ~(N - j <= N - o)
      BY <1>0 DEF Ids
    <3>2. N - o \notin T
      BY <2>1, <2>2, <3>1
    <3> QED
      BY <3>1, <3>2
  <2>4. \A c : c \in Asked(f, j) <=> c \in Asked(g, j)
    BY <2>3, AskedFacts
  <2>5. Asked(f, j) = Asked(g, j)
    BY <2>4
  <2>6. Needed(f, j) = Needed(g, j)
    BY <2>5 DEF Needed
  <2>7. f[j] = Needed(f, j) /\ g[j] = Needed(g, j)
    <3> HIDE DEF T
    <3>1. \A h : Solves(h) => h[j] = Needed(h, j)
      BY DEF Solves
    <3> QED
      BY <3>1
  <2> QED
    BY <2>2, <2>6, <2>7
<1>2. N - i \in Nat
  BY <1>0 DEF Ids
<1> QED
  BY <1>1, <1>2

\* The order of the statements and of the calls does not matter, for every
\* plan: between the calls, what is required of an operation is what its
\* queries and consumers need, and no more.
THEOREM RequiresWhatIsNeeded == Spec => []PlanExact
<1>1. ASSUME Inv, Justified, stack = <<>>, NEW i \in Ids PROVE required_fields[i] = need[i]
  <2>1. Len(ops) \in Nat /\ required_fields = [j \in Ids |-> required_fields[j]]
    BY <1>1 DEF Inv, Types, Ids
  <2>2. \A j \in Ids : required_fields[j] = Needed(required_fields, j)
    BY <1>1, RequiredIsNeeded
  <2>3. Solves(required_fields)
    BY <2>1, <2>2 DEF Solves
  <2>4. need = CHOOSE f : Solves(f)
    BY DEF need, Solves, Needed, Asked
  <2>5. Solves(CHOOSE f : Solves(f))
    BY <2>3, Zenon
  <2>6. Solves(need)
    BY <2>4, <2>5
  <2> QED
    BY <2>1, <2>3, <2>6, OneSolution
<1>2. Inv /\ Justified => PlanExact
  BY <1>1 DEF PlanExact
<1> QED
  BY <1>2, Inductive, JustifiedInductive, PTL
=============================================================================
