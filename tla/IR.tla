---------------------------------- MODULE IR ----------------------------------
(* The intermediate representation the front end lowers a program to and the
   optimizer rewrites (src/ir), and what its nodes mean: the functions of
   src/core/function, the expressions of src/back/exec/expr and the relations
   of src/back/exec/phys/ops, as the set of row sequences each may produce.

   A scalar is [v, args, t]: v names the node and its payload, t is its
   value_type.  An aggregate is [v, args, id, t].  A relation is
   [v, src, x, a, schema]: its sources, its expressions (projectors, whose id is
   the alias field), its aggregates and its schema.  The payload tuples start with
   the name of the node, so that two nodes of different kinds are comparable.  *)
EXTENDS Integers, SequencesExt

CONSTANTS
    Strings,    \* the strings of the instance, in the order std::string has on them
    Text(_, _)  \* Text(f, s): the value of the text function f on the string s

ASSUME StringsAssumption == Strings \in Seq(STRING) /\ IsInjective(Strings)

\* The sequence s; TLC computes its elements once, not at every use.
Computed(s) == s \o <<>>

-------------------------------------------------------------------------------
(* Values (core/value) and fields (core/schema). *)

Null == <<"Null">>
Num(n) == <<"Integer", n>>
Str(s) == <<"String", s>>
Bool(b) == <<"Boolean", b>>
Err == <<"Error">>              \* a failed verify or a value of the wrong type

ValueTypes == <<"Null", "Integer", "Floating", "Boolean", "String">>
Position(s, e) == CHOOSE i \in DOMAIN s : s[i] = e

Less(l, r) ==
    IF l[1] # r[1] THEN Position(ValueTypes, l[1]) < Position(ValueTypes, r[1])
    ELSE \/ l[1] = "Integer" /\ l[2] < r[2]
         \/ l[1] = "Boolean" /\ ~l[2] /\ r[2]
         \/ l[1] = "String" /\ Position(Strings, l[2]) < Position(Strings, r[2])

\* A field id is a name and a type; an alias puts its own name in front.
Field(name, type) == [name |-> name, type |-> type]
NoField == Field(<<>>, "Null")

\* Decimal integers are the only strings parseInt64Strict accepts.
Digits == 0..9
parseInt64Strict(s) ==
    IF \E n \in Digits : ToString(n) = s THEN Num(CHOOSE n \in Digits : ToString(n) = s) ELSE Null

cast(val, to) ==
    CASE val = Null \/ to = "Null" -> Null
      [] val[1] = to -> val
      [] val[1] = "String" /\ to = "Integer" -> parseInt64Strict(val[2])
      [] val[1] = "String" /\ to = "Boolean" -> Bool(val[2] # "")
      [] val[1] = "Integer" /\ to = "String" -> Str(ToString(val[2]))
      [] val[1] = "Integer" /\ to = "Boolean" -> Bool(val[2] # 0)
      [] val[1] = "Boolean" /\ to = "String" -> Str(IF val[2] THEN "true" ELSE "false")
      [] val[1] = "Boolean" /\ to = "Integer" -> Num(IF val[2] THEN 1 ELSE 0)

-------------------------------------------------------------------------------
(* Functions. f is the payload of the node: <<"Fn", name, parameters...>>. *)

Aggregators == {"CountAll", "CountNonNull", "Min", "Max", "Sum", "Percentile"}
isScalar(f) == f[2] \notin Aggregators

NullPropagating == {"Lower", "SplitPart", "JSONValue", "ParseTimestamp"}
NullRefusing == {"Substr", "RSubstr", "Like"}
Comparison == {"Less", "Greater", "LessEqual", "GreaterEqual"}
Arithmetic == {"Add", "Subtract", "Divide"}

Compare(name, type, l, r) ==
    IF l[1] # type \/ r[1] # type THEN Err
    ELSE Bool(CASE name = "Less" -> Less(l, r)
                [] name = "Greater" -> Less(r, l)
                [] name = "LessEqual" -> ~Less(r, l)
                [] name = "GreaterEqual" -> ~Less(l, r))

\* C++ division truncates towards zero.
Quotient(n, d) ==
    LET abs(k) == IF k < 0 THEN -k ELSE k
        whole == abs(n) \div abs(d)
    IN  IF (n < 0) = (d < 0) THEN whole ELSE -whole

Compute(name, l, r) ==
    IF Null \in {l, r} THEN Null
    ELSE CASE name = "Add" /\ l[1] = "String" -> Text(<<"Fn", "Concat", r[2]>>, l[2])
           [] name = "Add" -> Num(l[2] + r[2])
           [] name = "Subtract" -> Num(l[2] - r[2])
           [] name = "Divide" -> IF r[2] = 0 THEN Null ELSE Num(Quotient(l[2], r[2]))

\* The executors: every argument has been evaluated.
execute(f, a) ==
    LET name == f[2] IN
    CASE name \in NullPropagating -> IF a[1] = Null THEN Null ELSE Text(f, a[1][2])
      [] name \in NullRefusing -> IF a[1] = Null THEN Err ELSE Text(f, a[1][2])
      [] name = "Cast" -> cast(a[1], f[3])
      [] name = "Coalesce" -> IF \E i \in DOMAIN a : a[i] # Null THEN SelectSeq(a, LAMBDA v : v # Null)[1] ELSE Null
      [] name = "BooleanNegate" -> IF a[1] = Null THEN Err ELSE Bool(~a[1][2])
      [] name = "Equal" -> Bool(a[1] = a[2])
      [] name = "NotEqual" -> Bool(a[1] # a[2])
      [] name \in Comparison -> Compare(name, f[3], a[1], a[2])
      [] name \in {"And", "Or"} ->
           CASE a[1] = Null -> Err
             [] a[1] = Bool(name = "Or") -> a[1]
             [] OTHER -> IF a[2] = Null THEN Err ELSE a[2]
      [] name \in Arithmetic -> Compute(name, a[1], a[2])

-------------------------------------------------------------------------------
(* Scalars and aggregates on a row, a function from fields to values. *)

FieldScalar(f, t) == [v |-> <<"Field", f>>, args |-> <<>>, t |-> t]
ValueScalar(val, t) == [v |-> <<"Value", val>>, args |-> <<>>, t |-> t]
FnCall(f, args, t) == [v |-> <<"Fn">> \o f, args |-> args, t |-> t]
Cached(s) == [v |-> <<"Cached">>, args |-> <<s>>, t |-> s.t]
IsA(node, kind) == node.v[1] = kind
IsFn(s, name) == IsA(s, "Fn") /\ s.v[2] = name

RECURSIVE eval(_, _)
eval(s, row) ==
    CASE IsA(s, "Field") -> row[s.v[2]]
      [] IsA(s, "Value") -> s.v[2]
      [] IsA(s, "Cached") -> eval(s.args[1], row)
      [] IsA(s, "Coalesce") ->
           LET first == eval(s.args[1], row) IN
           IF first # Null \/ Len(s.args) = 1 THEN first
           ELSE eval([s EXCEPT !.args = Tail(@)], row)
      [] IsA(s, "Fn") ->
           LET vals == Computed([i \in DOMAIN s.args |-> eval(s.args[i], row)]) IN
           IF \E i \in DOMAIN vals : vals[i] = Err THEN Err ELSE execute(s.v, vals)

\* The greatest or the least of vals; Null when there is none.
Extreme(vals, greatest) ==
    FoldLeft(LAMBDA acc, val :
        IF acc = Null \/ (IF greatest THEN Less(acc, val) ELSE Less(val, acc)) THEN val ELSE acc, Null, vals)

\* The value of an aggregate after it was fed the rows.
aggregate(g, rows) ==
    LET fed == Computed([i \in DOMAIN rows |-> IF g.args = <<>> THEN Num(0) ELSE eval(g.args[1], rows[i])])
        known == SelectSeq(fed, LAMBDA v : v # Null)
        name == g.v[2]
    IN  CASE IsA(g, "Const") -> IF g.v[3] /\ rows = <<>> THEN Null ELSE g.v[2]
          [] \E i \in DOMAIN fed : fed[i] = Err -> Err
          [] name = "CountAll" -> Num(Len(rows))
          [] name = "CountNonNull" -> Num(Len(known))
          [] name = "Min" -> Extreme(known, FALSE)
          [] name = "Max" -> Extreme(known, TRUE)
          [] name = "Sum" -> FoldLeft(LAMBDA acc, v : Compute("Add", acc, v),
                                    IF g.v[3] = "String" THEN Str("") ELSE Num(0), known)

-------------------------------------------------------------------------------
(* What a relation may produce: a set of outcomes, each a sequence of rows or a
   failure.  UNION ALL interleaves its inputs in any way, a sort leaves ties in
   any order, groups come out in any order. *)

Ok(rows) == [ok |-> TRUE, rows |-> rows]
Fail == [ok |-> FALSE, rows |-> <<>>]
AndThen(outcomes, Step(_)) == UNION {IF o.ok THEN Step(o.rows) ELSE {Fail} : o \in outcomes}

\* A failure in any of the rows is a failure of the whole.
Checked(rows) ==
    IF \E i \in DOMAIN rows : \E f \in DOMAIN rows[i] : rows[i][f] = Err THEN {Fail} ELSE {Ok(rows)}

\* Whether a row with the keys k may come before one with the keys l.
KeyBefore(k, l, direction) ==
    \/ direction = "any"
    \/ k = l
    \/ LET i == CHOOSE i \in DOMAIN k : k[i] # l[i] /\ \A j \in 1..i - 1 : k[j] = l[j]
       IN  IF direction = "desc" THEN Less(l[i], k[i]) ELSE Less(k[i], l[i])

RECURSIVE Interleavings(_, _, _)
Interleavings(s, t, direction) ==
    IF s = <<>> THEN {t} ELSE IF t = <<>> THEN {s}
    ELSE UNION {
        IF KeyBefore(s[1].key, t[1].key, direction)
        THEN {<<s[1]>> \o m : m \in Interleavings(Tail(s), t, direction)} ELSE {},
        IF KeyBefore(t[1].key, s[1].key, direction)
        THEN {<<t[1]>> \o m : m \in Interleavings(s, Tail(t), direction)} ELSE {}}

\* Rows with the values of the expressions of x beside them.
Keyed(rows, x) ==
    Computed([i \in DOMAIN rows |-> [row |-> rows[i], key |-> [k \in DOMAIN x |-> eval(x[k].e, rows[i])]]])
Rows(keyed) == [i \in DOMAIN keyed |-> keyed[i].row]
KeysFail(keyed) == \E i \in DOMAIN keyed : \E k \in DOMAIN keyed[i].key : keyed[i].key[k] = Err
Direction(desc) == IF desc THEN "desc" ELSE "asc"

\* Every order of the rows that respects the keys.
Sorted(keyed, desc) ==
    FoldLeft(LAMBDA acc, k : UNION {Interleavings(s, <<k>>, Direction(desc)) : s \in acc}, {<<>>}, keyed)

Project(rows, x) ==
    Computed([i \in DOMAIN rows |-> [f \in {x[k].id : k \in DOMAIN x} |->
                                       eval(x[CHOOSE k \in DOMAIN x : x[k].id = f].e, rows[i])]])
Aggregates(g, rows) == [f \in {g[k].id : k \in DOMAIN g} |-> aggregate(g[CHOOSE k \in DOMAIN g : g[k].id = f], rows)]
Keep(rows, e) ==
    IF \E i \in DOMAIN rows : eval(e, rows[i]) \in {Err, Null} THEN {Fail}
    ELSE {Ok(SelectSeq(rows, LAMBDA r : eval(e, r) = Bool(TRUE)))}

\* Group: one row per distinct key list, in any order.
Grouped(rows, x, g) ==
    LET keyed == Keyed(rows, x)
        keys == {keyed[i].key : i \in DOMAIN keyed}
        OfKey(k) == Rows(SelectSeq(keyed, LAMBDA r : r.key = k))
        Out(k) == [f \in {x[i].id : i \in DOMAIN x} |-> k[CHOOSE i \in DOMAIN x : x[i].id = f]]
                  @@ Aggregates(g, OfKey(k))
    IN  IF KeysFail(keyed) THEN {Fail}
        ELSE UNION {Checked([i \in DOMAIN p |-> Out(p[i])]) : p \in SetToSeqs(keys)}

\* SemiJoin and MarkJoin: whether a row's key is among the values of the match side.
Matches(rows, e, match, field) ==
    [i \in DOMAIN rows |-> \E j \in DOMAIN match : match[j][field] = eval(e, rows[i])]

Joined(rows, right, x, schema) ==
    LET Partners(r) == SelectSeq(right, LAMBDA q : eval(x[1].e, r) # Null /\ eval(x[1].e, r) = eval(x[2].e, q))
        Of(r) == IF Partners(r) = <<>> THEN <<[f \in Range(schema) |-> IF f \in DOMAIN r THEN r[f] ELSE Null]>>
                 ELSE [i \in DOMAIN Partners(r) |-> r @@ Partners(r)[i]]
    IN  FlattenSeq([i \in DOMAIN rows |-> Of(rows[i])])

RECURSIVE Outcomes(_, _, _)
Outcomes(r, env, db) ==
    LET In(i) == Outcomes(r.src[i], env, db)
        kind == r.v[1]
        fields == Range(r.schema)
        KeyFails(rows, e) == \E i \in DOMAIN rows : eval(e, rows[i]) = Err
    IN
    CASE kind = "Empty" -> {Ok(<<>>)}
      [] kind = "Values" -> {Ok([i \in DOMAIN r.v[2] |-> r.v[3] :> r.v[2][i]])}
      [] kind \in {"File", "Stream"} ->
           {Ok([i \in DOMAIN db[r.v] |-> [f \in fields |->
                  IF f.name \in DOMAIN db[r.v][i] THEN Str(db[r.v][i][f.name]) ELSE Null]])}
      [] kind = "NamedRef" -> env[r.v[2]]
      [] kind = "Materialize" -> In(1)
      [] kind = "Projection" -> AndThen(In(1), LAMBDA rows : Checked(Project(rows, r.x)))
      [] kind = "Aggregate" -> AndThen(In(1), LAMBDA rows : Checked(<<Aggregates(r.a, rows)>>))
      [] kind = "Group" -> AndThen(In(1), LAMBDA rows : Grouped(rows, r.x, r.a))
      [] kind = "Limit" -> AndThen(In(1), LAMBDA rows : {Ok(SubSeq(rows, 1, Min({r.v[2], Len(rows)})))})
      [] kind = "Filter" -> AndThen(In(1), LAMBDA rows : Keep(rows, r.x[1].e))
      [] kind \in {"Sort", "TopK"} ->
           AndThen(In(1), LAMBDA rows :
             LET keyed == Keyed(rows, r.x)
                 count == IF kind = "TopK" THEN Min({r.v[3], Len(rows)}) ELSE Len(rows)
             IN  IF KeysFail(keyed) THEN {Fail}
                 ELSE {Ok(SubSeq(Rows(s), 1, count)) : s \in Sorted(keyed, r.v[2])})
      [] kind = "SemiJoin" ->
           AndThen(In(1), LAMBDA rows : AndThen(In(2), LAMBDA match :
             IF KeyFails(rows, r.x[1].e) THEN {Fail}
             ELSE LET hit == Matches(rows, r.x[1].e, match, r.v[2])
                  IN {Ok(FlattenSeq([i \in DOMAIN rows |-> IF hit[i] THEN <<rows[i]>> ELSE <<>>]))}))
      [] kind = "MarkJoin" ->
           AndThen(In(1), LAMBDA rows : AndThen(In(2), LAMBDA match :
             IF KeyFails(rows, r.x[1].e) THEN {Fail}
             ELSE LET hit == Matches(rows, r.x[1].e, match, r.v[3])
                  IN {Ok([i \in DOMAIN rows |-> (r.v[2] :> Bool(hit[i])) @@ rows[i]])}))
      [] kind = "LeftJoin" ->
           AndThen(In(1), LAMBDA rows : AndThen(In(2), LAMBDA right :
             IF KeyFails(rows, r.x[1].e) \/ KeyFails(right, r.x[2].e) THEN {Fail}
             ELSE {Ok(Joined(rows, right, r.x, r.schema))}))
      [] kind \in {"UnionAll", "UnionAllSortedBy"} ->
           FoldLeft(LAMBDA acc, i :
               AndThen(acc, LAMBDA rows : AndThen(In(i), LAMBDA more :
                 LET s == Keyed(rows, r.x)
                     t == Keyed(more, r.x)
                 IN  IF KeysFail(s) \/ KeysFail(t) THEN {Fail}
                     ELSE {Ok(Rows(m)) : m \in Interleavings(s, t,
                             IF kind = "UnionAll" THEN "any" ELSE Direction(r.v[2]))})),
             {Ok(<<>>)}, [i \in DOMAIN r.src |-> i])
===============================================================================
