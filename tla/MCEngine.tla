------------------------------ MODULE MCEngine ------------------------------
(* Programs of two sources and two or three further relations.             *)
EXTENDS Engine, TLC

CONSTANTS MCKinds,      \* the kinds of the relations in programs with two of them
          MCDeepKinds   \* the kinds of the relations in programs with three of them

Rel(k, as, ow, ma, pr, ou) ==
  [kind |-> k, args |-> as, own |-> ow, match |-> ma, projs |-> pr, out |-> ou]

Inputs == 1..(MaxOps - 1)
One == {<<a>> : a \in Inputs}
Two == {<<a, b>> : a, b \in Inputs}

LogRel == Rel("log", <<>>, {}, {}, 1 :> {}, {})
ValuesRel == Rel("values", <<>>, {}, {}, 2 :> {}, {})

All ==
  {LogRel, ValuesRel}
  \cup {Rel(k, as, {1}, {}, <<>>, {}) : k \in {"filter", "sort", "topk"}, as \in One}
  \cup {Rel(k, as, {}, {}, <<>>, {}) : k \in {"materialize", "limit"}, as \in One}
  \cup {Rel("projection", as, {}, {}, 1 :> {2}, {}) : as \in One}
  \cup {Rel("aggregate", as, {}, {}, g :> {f}, {}) : as \in One, f, g \in {1, 2}}
  \cup {Rel("group", as, {1}, {}, 2 :> {1}, {1}) : as \in One}
  \cup {Rel("union", as, {}, {}, <<>>, {}) : as \in Two}
  \cup {Rel("semijoin", as, {1}, {2}, <<>>, {}) : as \in Two}
  \cup {Rel("markjoin", as, {1}, {2}, <<>>, {3}) : as \in Two}
  \cup {Rel("leftjoin", as, {1}, {2}, <<>>, {}) : as \in Two}

MCRelations == {r \in All : r.kind \in MCKinds \cup MCDeepKinds \cup Sources}

\* Sequences of relations, each bound to earlier ones, with their schemas.
MCBase == [ops |-> <<LogRel, ValuesRel>>, sch |-> <<{1}, {2}>>]
Extensions(b, kinds) ==
  {[ops |-> Append(b.ops, r), sch |-> Append(b.sch, schemaOf(b.sch, r))] :
     r \in {x \in MCRelations : x.kind \in kinds /\ Bound(b.sch, x)}}
MCBodies[n \in 0..3, kinds \in {MCKinds, MCDeepKinds}] ==
  IF n = 0 THEN {MCBase} ELSE UNION {Extensions(b, kinds) : b \in MCBodies[n - 1, kinds]}

MCTops(n) == {<<n>>, <<n - 1, n>>, <<n, 1>>}

\* An aggregate that is requested only after the phase that collects it.
Late(p) ==
  \E a, j \in 1..Len(p.ops) :
    /\ p.ops[a].kind = "aggregate" /\ a \notin Range(p.tops)
    /\ p.ops[j].kind \in Joins /\ p.ops[j].args[1] # a /\ p.ops[j].args[2] = a

\* Every relation is used.
Used(p) == \A i \in 3..Len(p.ops) :
  i \in Range(p.tops) \/ \E j \in (i + 1)..Len(p.ops) : i \in Range(p.ops[j].args)

\* Bound: the number of interleavings a relation may mean.
FewUnions(p) == Cardinality({i \in 1..Len(p.ops) : p.ops[i].kind = "union"}) <= 2

ProgramsOf(n, kinds) ==
  {p \in {[ops |-> b.ops, tops |-> t] : b \in MCBodies[n, kinds], t \in MCTops(n + 2)} : Used(p) /\ FewUnions(p)}
MCAnyPrograms == ProgramsOf(2, MCKinds) \cup ProgramsOf(3, MCDeepKinds)

MCPrograms == {p \in MCAnyPrograms : ~Late(p)}

MCContents == {[log |-> <<2, 1, 2>>, values |-> <<2>>], [log |-> <<1>>, values |-> <<>>]}
=============================================================================
