------------------------------- MODULE Optimizer -------------------------------
(* The optimizer's passes over the IR (src/optimize).  Each pass walks every
   relation bottom up and rewrites a node where it may; it reports whether it
   changed anything, at exactly the places where the code calls setChanges.   *)
EXTENDS IR

Changed(n) == [n |-> n, c |-> TRUE]
Same(n) == [n |-> n, c |-> FALSE]
Map(s, Op(_)) == Computed([i \in DOMAIN s |-> Op(s[i])])
Relation(v, src, x, a, schema) == [v |-> v, src |-> src, x |-> x, a |-> a, schema |-> schema]
Expr(e) == [id |-> NoField, e |-> e]
Ids(x) == Map(x, LAMBDA p : p.id)
IsValue(s) == IsA(s, "Value")
IsLeaf(s) == IsA(s, "Field") \/ IsA(s, "Value")

-------------------------------------------------------------------------------
(* constScalarFold, constAggregateFold. *)

constScalarFold(s) ==
    IF IsA(s, "Fn") /\ isScalar(s.v) /\ \A i \in DOMAIN s.args : IsValue(s.args[i])
    THEN Changed(ValueScalar(eval(s, <<>>), s.t))
    ELSE Same(s)

\* min and max of a constant keep their null for an empty input.
constAggregateFold(g) ==
    IF ~IsA(g, "Fn") \/ g.args = <<>> \/ ~IsValue(g.args[1]) THEN Same(g)
    ELSE LET val == g.args[1].v[2] IN
         CASE g.v[2] = "CountNonNull" /\ val = Null ->
                Changed([g EXCEPT !.v = <<"Const", Num(0), FALSE>>, !.args = <<>>])
           [] g.v[2] = "CountNonNull" /\ val # Null ->
                Changed([g EXCEPT !.v = <<"Fn", "CountAll">>, !.args = <<>>])
           [] g.v[2] \in {"Min", "Max"} ->
                Changed([g EXCEPT !.v = <<"Const", val, TRUE>>, !.args = <<>>])
           [] OTHER -> Same(g)

-------------------------------------------------------------------------------
(* scalarSimplify. *)

simplifyBooleanBinary(s, conjunction) ==
    LET constant == {i \in DOMAIN s.args : IsValue(s.args[i]) /\ s.args[i].v[2][1] = "Boolean"}
        i == Min(constant)
    IN  IF constant = {} THEN Same(s)
        ELSE Changed(s.args[IF s.args[i].v[2] = Bool(conjunction) THEN 3 - i ELSE i])

\* The arguments of a coalesce that can still decide it: no null, no repetition,
\* nothing after the first constant.
coalesceArgs(args) ==
    FoldLeft(LAMBDA kept, a :
        IF \/ kept # <<>> /\ IsValue(Last(kept))
           \/ IsValue(a) /\ a.v[2] = Null
           \/ ~IsValue(a) /\ Contains(kept, a)
        THEN kept ELSE Append(kept, a), <<>>, args)

simplifyCoalesce(s) ==
    LET kept == coalesceArgs(s.args) IN
    CASE kept = <<>> -> Changed(ValueScalar(Null, s.t))
      [] kept # <<>> /\ IsValue(kept[1]) -> Changed(ValueScalar(kept[1].v[2], s.t))
      [] Len(kept) = 1 /\ ~IsValue(kept[1]) -> Changed(kept[1])
      [] Len(kept) > 1 /\ ~IsValue(kept[1]) ->
           [n |-> [s EXCEPT !.args = kept], c |-> Len(kept) # Len(s.args)]

scalarSimplify(s) ==
    CASE IsFn(s, "Cast") -> IF s.args[1].t = s.v[3] THEN Changed(s.args[1]) ELSE Same(s)
      [] IsFn(s, "And") -> simplifyBooleanBinary(s, TRUE)
      [] IsFn(s, "Or") -> simplifyBooleanBinary(s, FALSE)
      [] IsFn(s, "BooleanNegate") ->
           IF IsFn(s.args[1], "BooleanNegate") THEN Changed(s.args[1].args[1]) ELSE Same(s)
      [] IsFn(s, "Coalesce") -> Changed([s EXCEPT !.v = <<"Coalesce">>])
      [] IsA(s, "Coalesce") -> simplifyCoalesce(s)
      [] OTHER -> Same(s)

-------------------------------------------------------------------------------
(* aggregateDeduplicate: an aggregate that is computed twice is computed once and
   projected to both fields. *)

aggregateDeduplicate(r) ==
    IF r.v[1] \notin {"Aggregate", "Group"} THEN Same(r)
    ELSE LET Key(g) == [g EXCEPT !.id = NoField]
             first(i) == Min({j \in DOMAIN r.a : Key(r.a[j]) = Key(r.a[i])})
             kept == FlattenSeq([i \in DOMAIN r.a |-> IF first(i) = i THEN <<r.a[i]>> ELSE <<>>])
             Forward(id, field, t) == [id |-> id, e |-> FieldScalar(field, t)]
             projectors == [i \in DOMAIN r.a |-> Forward(r.a[i].id, r.a[first(i)].id, r.a[i].t)]
                           \o Map(r.x, LAMBDA key : Forward(key.id, key.id, key.e.t))
         IN  IF Len(kept) = Len(r.a) THEN Same(r)
             ELSE Changed(Relation(<<"Projection">>, <<[r EXCEPT !.a = kept, !.schema = Ids(kept) \o Ids(r.x)]>>,
                                   projectors, <<>>, r.schema))

-------------------------------------------------------------------------------
(* relationSimplify. *)

isForwardingProjection(r) ==
    /\ r.schema = r.src[1].schema
    /\ \A i \in DOMAIN r.x : r.x[i].e.v = <<"Field", r.x[i].id>>

\* get<bool> of a null condition raises: the failure stays in the node.
simplifyFilter(r) ==
    LET cond == r.x[1].e IN
    CASE ~IsValue(cond) -> Same(r)
      [] IsValue(cond) /\ cond.v[2] = Bool(TRUE) -> Changed(r.src[1])
      [] IsValue(cond) /\ cond.v[2] = Bool(FALSE) -> Changed(Relation(<<"Empty">>, <<>>, <<>>, <<>>, r.schema))
      [] IsValue(cond) /\ cond.v[2] \in {Null, Err} -> Changed([r EXCEPT !.x[1].e.v[2] = Err])

relationSimplify(r) ==
    CASE r.v[1] = "Projection" -> IF isForwardingProjection(r) THEN Changed(r.src[1]) ELSE Same(r)
      [] r.v[1] = "Filter" -> simplifyFilter(r)
      [] r.v[1] = "UnionAll" ->
           [n |-> [r EXCEPT !.src = FlattenSeq(Map(@, LAMBDA s : IF IsA(s, "UnionAll") THEN s.src ELSE <<s>>))],
            c |-> \E i \in DOMAIN r.src : IsA(r.src[i], "UnionAll")]
      [] OTHER -> Same(r)

-------------------------------------------------------------------------------
(* filterPushdown. *)

RECURSIVE FieldsOf(_), Substitute(_, _)
FieldsOf(s) == IF IsA(s, "Field") THEN {s.v[2]} ELSE UNION {FieldsOf(s.args[i]) : i \in DOMAIN s.args}

\* s with every field f in the domain of by replaced by by[f].
Substitute(s, by) ==
    IF IsA(s, "Field") THEN by[s.v[2]] ELSE [s EXCEPT !.args = [i \in DOMAIN s.args |-> Substitute(s.args[i], by)]]

\* An absent condition is the empty sequence, a present one a sequence of one.
conjunction(left, right) ==
    IF left # <<>> /\ right # <<>> THEN <<FnCall(<<"And">>, left \o right, "Boolean")>> ELSE left \o right

RECURSIVE splitCondition(_, _)
splitCondition(cond, fields) ==
    IF IsFn(cond, "And")
    THEN LET l == splitCondition(cond.args[1], fields)
             r == splitCondition(cond.args[2], fields)
         IN  [pushable |-> conjunction(l.pushable, r.pushable), remaining |-> conjunction(l.remaining, r.remaining)]
    ELSE IF FieldsOf(cond) \subseteq fields THEN [pushable |-> <<cond>>, remaining |-> <<>>]
    ELSE [pushable |-> <<>>, remaining |-> <<cond>>]

\* Through a projection goes what reads fields the projection only forwards.
pushable_fields_All(src) == IF IsA(src, "LeftJoin") THEN Range(src.schema) ELSE
    {src.x[i].id : i \in {i \in DOMAIN src.x : IsA(src.x[i].e, "Field")}}
pushable_fields(src) == IF IsA(src, "LeftJoin") THEN Range(src.src[1].schema) ELSE
    {src.x[i].id : i \in {i \in DOMAIN src.x : IsA(src.x[i].e, "Field")}}

rebind(s, src) ==
    IF IsA(src, "LeftJoin") THEN s
    ELSE Substitute(s, [f \in pushable_fields(src) |->
                          FieldScalar(src.x[CHOOSE i \in DOMAIN src.x : src.x[i].id = f].e.v[2], f.type)])

Filter(src, cond) == Relation(<<"Filter">>, <<src>>, <<Expr(cond)>>, <<>>, src.schema)

RECURSIVE filterPushdown(_)
filterPushdown(r) ==
    IF r.v[1] # "Filter" THEN Same(r)
    ELSE
    LET src == r.src[1]
        cond == r.x[1].e
        addFilter(s, c) == filterPushdown(Filter(s, c)).n
    IN
    CASE src.v[1] \in {"UnionAll", "UnionAllSortedBy", "Sort"} ->
           Changed([src EXCEPT !.src = Map(@, LAMBDA s : addFilter(s, cond))])
      [] src.v[1] \in {"Projection", "LeftJoin"} ->
           LET split == splitCondition(cond, pushable_fields(src)) IN
           IF split.pushable = <<>> THEN Same(r)
           ELSE LET below == [src EXCEPT !.src[1] = addFilter(@, rebind(split.pushable[1], src))]
                IN  Changed(IF split.remaining = <<>> THEN below ELSE [r EXCEPT !.src[1] = below,
                                                                         !.x[1].e = split.remaining[1]])
      [] OTHER -> Same(r)

-------------------------------------------------------------------------------
(* limitPushdown. *)

ensureLimited(limit, s) ==
    CASE IsA(s, "Limit") -> [n |-> [s EXCEPT !.v[2] = Min({limit, @})], c |-> s.v[2] > limit]
      [] IsA(s, "TopK") -> [n |-> [s EXCEPT !.v[3] = Min({limit, @})], c |-> s.v[3] > limit]
      [] OTHER -> Changed(Relation(<<"Limit", limit>>, <<s>>, <<>>, <<>>, s.schema))

\* Through a filter as well: the rows it drops have been counted.
limitPushdown_ThroughFilter(r) ==
    IF r.v[1] = "Limit" /\ r.src[1].v[1] \in {"Projection", "Filter"}
    THEN Changed([r.src[1] EXCEPT !.src[1] = Relation(r.v, <<@>>, <<>>, <<>>, @.schema)])
    ELSE Same(r)

limitPushdown(r) ==
    IF r.v[1] # "Limit" THEN Same(r)
    ELSE
    LET src == r.src[1]
        limit == r.v[2]
    IN
    CASE IsA(src, "Projection") ->
           Changed([src EXCEPT !.src[1] = Relation(<<"Limit", limit>>, <<@>>, <<>>, <<>>, @.schema),
                               !.schema = r.schema])
      [] IsA(src, "Sort") -> Changed([src EXCEPT !.v = <<"TopK", src.v[2], limit>>, !.schema = r.schema])
      [] IsA(src, "Limit") -> Changed([src EXCEPT !.v[2] = Min({limit, @}), !.schema = r.schema])
      [] IsA(src, "TopK") -> Changed([src EXCEPT !.v[3] = Min({limit, @}), !.schema = r.schema])
      [] src.v[1] \in {"UnionAll", "UnionAllSortedBy"} ->
           LET limited == Map(src.src, LAMBDA s : ensureLimited(limit, s)) IN
           [n |-> [r EXCEPT !.src[1].src = Map(limited, LAMBDA s : s.n)],
            c |-> \E i \in DOMAIN limited : limited[i].c]
      [] OTHER -> Same(r)

-------------------------------------------------------------------------------
(* The cost of scalars, with the default settings (config/optimizer_settings.h).
   A cached scalar is charged in full where it first occurs. *)

Passes == 5
ProjectionCostOverhead == 10
CachedScalarCostOverhead == 1
RegexCostOverhead == 4
FnCostOverhead(s) ==
    CASE s.v[2] \in {"ParseTimestamp", "JSONValue"} -> 10
      [] s.v[2] \in {"Like", "RSubstr"} -> RegexCostOverhead
      [] s.v[2] = "Cast" -> (IF s.v[3] = "String" THEN 2 ELSE 0) + (IF s.args[1].t = "String" THEN 10 ELSE 0)
      [] OTHER -> 1

\* [cost, seen]: the cost of s when the scalars in seen have been cached before.
RECURSIVE cost(_, _)
cost(s, seen) ==
    IF IsA(s, "Cached") /\ s.args[1] \in seen THEN [cost |-> CachedScalarCostOverhead, seen |-> seen]
    ELSE LET args == FoldLeft(LAMBDA acc, a : LET k == cost(a, acc.seen) IN
                                              [cost |-> acc.cost + k.cost, seen |-> k.seen],
                              [cost |-> 0, seen |-> IF IsA(s, "Cached") THEN seen \cup {s.args[1]} ELSE seen],
                              s.args)
         IN  [args EXCEPT !.cost = @ + CASE IsLeaf(s) -> 0
                                         [] IsA(s, "Cached") -> CachedScalarCostOverhead
                                         [] IsA(s, "Coalesce") -> 1
                                         [] IsA(s, "Fn") -> FnCostOverhead(s)]
scopeCost(scope) ==
    FoldLeft(LAMBDA acc, s : LET k == cost(s, acc.seen) IN [cost |-> acc.cost + k.cost, seen |-> k.seen],
             [cost |-> 0, seen |-> {}], scope).cost

-------------------------------------------------------------------------------
(* scalarCache: what a scope (the scalars evaluated on one record) computes more
   than once is computed once. *)

RECURSIVE stripCache(_), Subexpressions(_), CacheIn(_, _)
stripCache(s) ==
    IF IsA(s, "Cached") THEN stripCache(s.args[1])
    ELSE [s EXCEPT !.args = [i \in DOMAIN s.args |-> stripCache(s.args[i])]]
Subexpressions(s) ==
    IF IsLeaf(s) THEN <<>> ELSE <<s>> \o FlattenSeq([i \in DOMAIN s.args |-> Subexpressions(s.args[i])])
CacheIn(s, e) ==
    IF IsLeaf(s) THEN s
    ELSE IF stripCache(s) = e THEN Cached(s)
    ELSE [s EXCEPT !.args = [i \in DOMAIN s.args |-> CacheIn(s.args[i], e)]]

\* The expressions of all, each once, those of the highest cost first.
Cost(e) == cost(e, {}).cost
Distinct(all) == SelectSeq([i \in DOMAIN all |-> <<i, all[i]>>], LAMBDA p : \A j \in 1..p[1] - 1 : all[j] # p[2])
byCost(es) ==
    FlattenSeq(Map(SetToSortSeq({Cost(e) : e \in Range(es)}, >), LAMBDA c : SelectSeq(es, LAMBDA e : Cost(e) = c)))
worthCaching(e, count) == Cost(e) * (count - 1) > CachedScalarCostOverhead * count
candidates(all) ==
    SelectSeq(byCost(Map(Distinct(all), LAMBDA p : p[2])),
              LAMBDA e : worthCaching(e, Cardinality({i \in DOMAIN all : all[i] = e})))

Cheaper(candidate, scope) == IF scopeCost(candidate) < scopeCost(scope) THEN candidate ELSE scope
buildCache(scope) ==
    FoldLeft(LAMBDA sc, e : Cheaper(Map(sc, LAMBDA s : CacheIn(s, e)), sc),
             scope, candidates(FlattenSeq(Map(scope, Subexpressions))))

updateCache(scope) ==
    LET best == Cheaper(buildCache(Map(scope, stripCache)), scope) IN [n |-> best, c |-> best # scope]

scalarCache(r) ==
    CASE r.v[1] \in {"Projection", "Filter"} ->
           LET out == updateCache(Map(r.x, LAMBDA p : p.e)) IN
           [n |-> [r EXCEPT !.x = [i \in DOMAIN @ |-> [@[i] EXCEPT !.e = out.n[i]]]], c |-> out.c]
      [] r.v[1] \in {"Aggregate", "Group"} ->
           LET fed == {i \in DOMAIN r.a : r.a[i].args # <<>>}
               order == SetToSortSeq(fed, <)
               out == updateCache(Map(order, LAMBDA i : r.a[i].args[1]))
           IN  [n |-> [r EXCEPT !.a = [i \in DOMAIN @ |->
                        IF i \in fed THEN [@[i] EXCEPT !.args = <<out.n[Position(order, i)]>>] ELSE @[i]]],
                c |-> out.c]
      [] OTHER -> Same(r)

-------------------------------------------------------------------------------
(* projectionCollapse: two projections in a row become one unless that computes
   more than the projection between them costs. *)

projectionCollapse(r) ==
    IF r.v[1] # "Projection" \/ ~IsA(r.src[1], "Projection") THEN Same(r)
    ELSE LET inner == r.src[1]
             by == [f \in Range(Ids(inner.x)) |-> inner.x[CHOOSE i \in DOMAIN inner.x : inner.x[i].id = f].e]
             collapsed == Map(r.x, LAMBDA p : [p EXCEPT !.e = Substitute(@, by)])
             Costs(x) == scopeCost(Map(x, LAMBDA p : p.e))
         IN  IF Costs(collapsed) > Costs(inner.x) + Costs(r.x) + ProjectionCostOverhead THEN Same(r)
             ELSE Changed([r EXCEPT !.src = inner.src, !.x = collapsed])

-------------------------------------------------------------------------------
(* emptyRelationPrune. *)

isEmpty(r) == IsA(r, "Empty")
Emptied(r) == Relation(<<"Empty">>, <<>>, <<>>, <<>>, r.schema)

pruneUnion(r) ==
    LET non_empty == SelectSeq(r.src, LAMBDA s : ~isEmpty(s)) IN
    CASE non_empty = <<>> -> Changed(Emptied(r))
      [] Len(non_empty) = 1 -> Changed(non_empty[1])
      [] OTHER -> [n |-> [r EXCEPT !.src = non_empty], c |-> Len(non_empty) # Len(r.src)]

\* A relation is empty when its first input is; an aggregate of nothing is a row.
pruned(r) ==
    \/ r.v[1] \in {"Projection", "Group", "Filter", "Sort", "Materialize", "TopK", "Limit",
                   "SemiJoin", "LeftJoin", "MarkJoin"} /\ isEmpty(r.src[1])
    \/ r.v[1] = "TopK" /\ r.v[3] = 0
    \/ r.v[1] = "Limit" /\ r.v[2] = 0
    \/ r.v[1] = "SemiJoin" /\ isEmpty(r.src[2])

emptyRelationPrune(r) ==
    CASE r.v[1] \in {"UnionAll", "UnionAllSortedBy"} -> pruneUnion(r)
      [] pruned(r) -> Changed(Emptied(r))
      [] OTHER -> Same(r)

-------------------------------------------------------------------------------
(* One pass over a program, a sequence of [name, rel]. *)

ScalarPasses == {"constScalarFold", "scalarSimplify"}
visitScalar(pass, s) == IF pass = "constScalarFold" THEN constScalarFold(s) ELSE scalarSimplify(s)
visitRelation(pass, r) ==
    CASE pass = "aggregateDeduplicate" -> aggregateDeduplicate(r)
      [] pass = "relationSimplify" -> relationSimplify(r)
      [] pass = "filterPushdown" -> filterPushdown(r)
      [] pass = "limitPushdown" -> limitPushdown(r)
      [] pass = "scalarCache" -> scalarCache(r)
      [] pass = "projectionCollapse" -> projectionCollapse(r)
      [] pass = "emptyRelationPrune" -> emptyRelationPrune(r)
      [] OTHER -> Same(r)

AnyOf(results) == \E i \in DOMAIN results : results[i].c
Nodes(results) == Map(results, LAMBDA k : k.n)

RECURSIVE WalkScalar(_, _), WalkRelation(_, _)
AddChange(out, c) == [out EXCEPT !.c = @ \/ c]
WithArgs(n, args) == [n EXCEPT !.args = Nodes(args)]
WithChildren(r, src, x, a) ==
    [r EXCEPT !.src = Nodes(src), !.a = Nodes(a), !.x = [i \in DOMAIN @ |-> [@[i] EXCEPT !.e = x[i].n]]]

\* A node whose children have been visited.
LeaveScalar(pass, s, args) == AddChange(visitScalar(pass, WithArgs(s, args)), AnyOf(args))
LeaveRelation(pass, r, src, x, a) ==
    AddChange(visitRelation(pass, WithChildren(r, src, x, a)), AnyOf(src) \/ AnyOf(x) \/ AnyOf(a))

WalkScalar(pass, s) == LeaveScalar(pass, s, Map(s.args, LAMBDA a : WalkScalar(pass, a)))
WalkAggregate(pass, g) ==
    IF pass = "constAggregateFold" THEN constAggregateFold(g)
    ELSE IF pass \notin ScalarPasses THEN Same(g)
    ELSE LET args == Map(g.args, LAMBDA s : WalkScalar(pass, s))
         IN  [n |-> WithArgs(g, args), c |-> AnyOf(args)]
WalkRelation(pass, r) ==
    LeaveRelation(pass, r, Map(r.src, LAMBDA s : WalkRelation(pass, s)),
        Map(r.x, LAMBDA p : IF pass \in ScalarPasses THEN WalkScalar(pass, p.e) ELSE Same(p.e)),
        Map(r.a, LAMBDA g : WalkAggregate(pass, g)))
Walked(program, out) ==
    [n |-> [i \in DOMAIN program |-> [program[i] EXCEPT !.rel = out[i].n]], c |-> AnyOf(out)]
WalkProgram(pass, program) == Walked(program, Map(program, LAMBDA st : WalkRelation(pass, st.rel)))

PassOrder == <<"constScalarFold", "scalarSimplify", "constScalarFold", "constAggregateFold",
               "aggregateDeduplicate", "relationSimplify", "filterPushdown", "limitPushdown",
               "scalarCache", "projectionCollapse", "emptyRelationPrune">>
===============================================================================
