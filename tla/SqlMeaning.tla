------------------------------- MODULE SqlMeaning -------------------------------
(* What a bound program means, said without the IR: a SELECT filters its source,
   forms groups, evaluates its projectors and HAVING on every group or row, orders
   and cuts.  It is the specification that lowering and the optimizer are held to.
   A row is a function from fields to values; a file gives every column in
   Columns.  The relation of an IN is taken to have the same values in all of its
   outcomes.                                                                     *)
EXTENDS FrontEnd

CONSTANT Columns     \* the names of the columns of the files and streams

FileFields == {Field(<<c>>, "String") : c \in Columns}

\* The fields of a relation whose files give all of their columns.
RECURSIVE OpenIds(_)
OpenIds(fs) == IF fs.kind = "open" THEN {fs.id} ELSE UnionOf(fs.src, OpenIds)
AllFields(fs) == FieldsIn(fs, OpenIds(fs) \X FileFields)

\* The outcomes of the statements before are in env; group holds the rows an
\* aggregate is fed.
RECURSIVE Eval(_, _, _, _, _), Meaning(_, _, _)
Eval(e, row, group, env, db) ==
    LET vals == Computed([i \in DOMAIN e.args |-> Eval(e.args[i], row, group, env, db)])
        f == <<"Fn">> \o Tail(e.v)
        fed(r) == [i \in DOMAIN e.args |-> Eval(e.args[i], r, <<>>, env, db)]
        match == CHOOSE o \in Meaning(e.rel[1], env, db) : TRUE
    IN
    CASE e.v[1] = "Id" -> row[e.v[2]]
      [] e.v[1] = "Value" -> e.v[2]
      [] e.v[1] \in {"Op", "Call"} /\ isScalar(e.v) ->
           IF \E i \in DOMAIN vals : vals[i] = Err THEN Err ELSE execute(f, vals)
      [] e.v[1] = "Call" /\ ~isScalar(e.v) ->
           aggregate([v |-> f, args |-> [i \in DOMAIN e.args |-> FieldScalar(i, e.args[i].t)]],
                     [k \in DOMAIN group |-> fed(group[k])])
      [] e.v[1] = "In" ->
           IF vals[1] = Err \/ ~match.ok THEN Err
           ELSE Bool(\E i \in DOMAIN match.rows : match.rows[i][e.v[2]] = vals[1])

\* The rows of units that satisfy the conditions; a unit is [row, out, group].
Satisfying(units, conds, env, db) ==
    LET val(u) == [i \in DOMAIN conds |-> Eval(conds[i], u.row, u.group, env, db)]
    IN  IF \E i \in DOMAIN units : Range(val(units[i])) \cap {Err, Null} # {} THEN {Fail}
        ELSE {Ok(SelectSeq(units, LAMBDA u : \A i \in DOMAIN conds : val(u)[i] = Bool(TRUE)))}

\* The fields the projectors give a unit; a star gives all that the unit has.
Output(ps, u, env, db) ==
    LET own == SelectSeq(ps, LAMBDA p : p.v[1] = "Expr")
        Of(f) == own[CHOOSE i \in DOMAIN own : own[i].v[2] = f]
        out == [f \in outputFieldsOf(ps) |-> Eval(Of(f).e[1], u.row, u.group, env, db)]
    IN  IF HasStar(ps) THEN out @@ u.row ELSE out

\* The units a SELECT evaluates its projectors on: rows, or groups of rows.
Units(r, rows, env, db) ==
    LET unit(row, group) == [row |-> row, out |-> <<>>, group |-> group]
        key(row) == Output(r.group, unit(row, <<>>), env, db)
        keyed == [i \in DOMAIN rows |-> key(rows[i]) @@ rows[i]]
        OfKey(k) == FlattenSeq([i \in DOMAIN rows |-> IF key(rows[i]) = k THEN <<keyed[i]>> ELSE <<>>])
    IN  CASE r.group # <<>> -> {[i \in DOMAIN p |-> unit(p[i], OfKey(p[i]))] :
                                  p \in SetToSeqs({key(rows[i]) : i \in DOMAIN rows})}
          [] r.group = <<>> /\ r.v[3] -> {<<unit(<<>>, rows)>>}
          [] r.group = <<>> /\ ~r.v[3] -> {[i \in DOMAIN rows |-> unit(rows[i], <<>>)]}

Ordered(units, order, desc, env, db) ==
    LET keyed == Computed([i \in DOMAIN units |->
                    [row |-> units[i], key |-> [k \in DOMAIN order |-> Eval(order[k], units[i].row, <<>>, env, db)]]])
    IN  IF KeysFail(keyed) THEN {Fail}
        ELSE IF order = <<>> THEN {Ok(units)} ELSE {Ok(Rows(s)) : s \in Sorted(keyed, desc)}

SelectMeaning(r, env, db) ==
    LET Whole(rows) == [i \in DOMAIN rows |-> [row |-> rows[i], out |-> <<>>, group |-> <<>>]]
        Rowed(units) == [i \in DOMAIN units |-> units[i].row]
        WithOutput(u, out) == [u EXCEPT !.out = out, !.row = out @@ @]
        Projected(units) == Computed([i \in DOMAIN units |-> WithOutput(units[i], Output(r.proj, units[i], env, db))])
        Outs(units) == [i \in DOMAIN units |-> units[i].out]
        Cut(units) == IF r.limit = <<>> THEN units ELSE SubSeq(units, 1, Min({r.limit[1], Len(units)}))
    IN  AndThen(Meaning(r.src[1], env, db), LAMBDA rows :
        AndThen(Satisfying(Whole(rows), r.where, env, db), LAMBDA kept :
        UNION {AndThen(Satisfying(Projected(units), r.having, env, db), LAMBDA chosen :
               AndThen(Ordered(chosen, r.order, r.v[2], env, db), LAMBDA sorted :
               IF Checked(Outs(chosen)) = {Fail} THEN {Fail} ELSE {Ok(Outs(Cut(sorted)))}))
               : units \in Units(r, Rowed(kept), env, db)}))

\* Rows in an order that keeps each input's own order; with keys, merged by them.
Merged(r, first, second, env, db) ==
    LET Keys(rows) == [i \in DOMAIN rows |-> [row |-> rows[i],
                         key |-> [k \in DOMAIN r.order |-> Eval(r.order[k], rows[i], <<>>, env, db)]]]
    IN  IF KeysFail(Keys(first)) \/ KeysFail(Keys(second)) THEN {Fail}
        ELSE {Ok(Rows(m)) : m \in Interleavings(Keys(first), Keys(second),
                                    IF r.v[1] = "UnionAll" THEN "any" ELSE Direction(r.v[2]))}

\* Every left row with each right row of equal, known key; with nulls when there is none.
JoinMeaning(r, left, right, env, db) ==
    LET key(i, row) == Eval(r.where[1].args[i], row, <<>>, env, db)
        Partners(row) == SelectSeq(right, LAMBDA q : key(1, row) # Null /\ key(1, row) = key(2, q))
        missing == [f \in AllFields(r.src[2].fs) |-> Null]
    IN  IF \/ \E i \in DOMAIN left : key(1, left[i]) = Err
           \/ \E i \in DOMAIN right : key(2, right[i]) = Err THEN {Fail}
        ELSE {Ok(FlattenSeq([i \in DOMAIN left |->
                   IF Partners(left[i]) = <<>> THEN <<left[i] @@ missing>>
                   ELSE [k \in DOMAIN Partners(left[i]) |-> left[i] @@ Partners(left[i])[k]]]))}

Meaning(r, env, db) ==
    LET In(i) == Meaning(r.src[i], env, db)
        kind == r.v[1]
        table == db[SubSeq(r.v, 1, 2)]
        Renamed(row) == [f \in {Aliased(r.v[2], g) : g \in DOMAIN row} |-> row[Unaliased(f)]]
    IN
    CASE kind = "Select" -> SelectMeaning(r, env, db)
      [] kind = "Adhoc" -> {Ok([i \in DOMAIN r.v[2] |-> r.v[3] :> r.v[2][i]])}
      [] kind = "Alias" -> AndThen(In(1), LAMBDA rows : {Ok([i \in DOMAIN rows |-> Renamed(rows[i])])})
      [] kind = "LeftJoin" ->
           AndThen(In(1), LAMBDA left : AndThen(In(2), LAMBDA right : JoinMeaning(r, left, right, env, db)))
      [] kind \in {"UnionAll", "UnionAllSortedBy"} ->
           AndThen(In(1), LAMBDA first : AndThen(In(2), LAMBDA second : Merged(r, first, second, env, db)))
      [] kind \in {"File", "Stream"} ->
           {Ok([i \in DOMAIN table |-> [f \in FileFields |->
                  IF f.name \in DOMAIN table[i] THEN Str(table[i][f.name]) ELSE Null]])}
      [] kind = "NamedRef" -> env[r.v[2]]
      [] kind = "Materialize" -> In(1)

\* The outcomes of every statement, given a meaning Of(relation, env) of relations.
Statements(statements, Of(_, _)) ==
    FoldLeft(LAMBDA acc, st :
        LET o == Of(st.rel, acc.env) IN
        [env |-> IF st.name = "" THEN acc.env ELSE (st.name :> o) @@ acc.env, out |-> Append(acc.out, o)],
        [env |-> <<>>, out |-> <<>>], statements).out
===============================================================================
