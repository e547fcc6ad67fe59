------------------------------- MODULE MCCompiler -------------------------------
(* Programs over two files with the columns a and b: every combination of a few
   sources, conditions, projectors, orders and limits, and the statements and
   constructs such a combination does not contain. *)
EXTENDS Compiler

MCStrings == <<"", "1", "2", "X", "x">>
MCText(f, s) ==
    CASE f[2] = "Lower" -> Str(IF s = "X" THEN "x" ELSE s)
      [] f[2] = "Like" -> Bool(s = f[3])
      [] f[2] = "ParseTimestamp" -> parseInt64Strict(s)
      [] f[2] \in {"SplitPart", "JSONValue"} -> IF s = "X" THEN Null ELSE Str(s)
      [] f[2] = "RSubstr" /\ f[3] = "(" -> Err
      [] f[2] \in {"Substr", "RSubstr"} -> Str(IF s = "X" THEN "" ELSE s)
      [] f[2] = "Concat" -> Str(s \o f[3])
MCAccepts(f) == f # <<"JSONValue", "(">>
MCColumns == {"a", "b"}

-------------------------------------------------------------------------------
Id(n) == AstExpr(<<"Id", n>>, <<>>, <<>>)
A == Id(<<"a">>)
B == Id(<<"b">>)
Lit(v) == AstExpr(<<"Literal", v>>, <<>>, <<>>)
One == Lit(Str("1"))
Call(f, args) == AstExpr(<<"Call", f>>, args, <<>>)
Bin(op, l, r) == AstExpr(<<"Binary", op>>, <<l, r>>, <<>>)
Eq(l, r) == Bin("Equal", l, r)
Not(e) == AstExpr(<<"Unary", "BooleanNegate">>, <<e>>, <<>>)
LikeOf(e, regex) == AstExpr(<<"Like", regex>>, <<e>>, <<>>)
In(e, r) == AstExpr(<<"In">>, <<e>>, <<r>>)
As(e, alias) == [v |-> <<"Expr", <<alias>>>>, e |-> <<e>>]
Cols(ns) == [i \in DOMAIN ns |-> As(Id(<<ns[i]>>), ns[i])]
Star == [v |-> <<"Star">>, e |-> <<>>]

File(n) == AstRelation(<<"File", n, TRUE>>, <<>>)
F == File("f")
G == File("g")
Stream == AstRelation(<<"Stream", "cmd">>, <<>>)
Adhoc(vals) == AstRelation(<<"Adhoc", vals>>, <<>>)
Alias(n, r) == AstRelation(<<"Alias", n>>, <<r>>)
Ref(n) == AstRelation(<<"NamedRef", n>>, <<>>)
Materialize(r) == AstRelation(<<"Materialize">>, <<r>>)
LeftJoin(l, r, on) == [AstRelation(<<"LeftJoin">>, <<l, r>>) EXCEPT !.where = <<on>>]
Union(l, r) == AstRelation(<<"UnionAll">>, <<l, r>>)
SortedBy(l, r, by, desc) == [AstRelation(<<"UnionAllSortedBy", desc>>, <<l, r>>) EXCEPT !.order = by]
Select(ps, r) == [AstRelation(<<"Select", FALSE>>, <<r>>) EXCEPT !.proj = ps]
Where(r, cond) == [r EXCEPT !.where = <<cond>>]
By(r, order, desc) == [r EXCEPT !.order = order, !.v[2] = desc]
Limit(r, n) == [r EXCEPT !.limit = <<n>>]
Group(r, keys) == [r EXCEPT !.group = keys]
Having(r, cond) == [r EXCEPT !.having = <<cond>>]

Statement(kind, name, parameters, body, rel) ==
    [kind |-> kind, name |-> name, parameters |-> parameters, body |-> body, rel |-> rel]
Query(r) == Statement("query", "", <<>>, Refused, <<r>>)
Named(n, r) == Statement("named", n, <<>>, Refused, <<r>>)
Macro(n, ps, body) == Statement("macro", n, ps, body, <<>>)

-------------------------------------------------------------------------------
Sources ==
    {F,
     Select(Cols(<<"b">>) \o <<As(Call("lower", <<A>>), "a")>>, G),
     Union(Select(Cols(<<"a", "b">>), F), Select(Cols(<<"a", "b">>), G)),
     SortedBy(By(Select(Cols(<<"a", "b">>), F), <<A>>, FALSE), By(Select(Cols(<<"a", "b">>), G), <<A>>, FALSE), <<A>>, FALSE)}
Ones == Adhoc(<<Str("1"), Str("x")>>)
Conditions ==
    {<<>>,
     <<Bin("And", Eq(A, One), Eq(B, Call("lower", <<B>>)))>>,
     <<In(A, Ones)>>,
     <<Bin("Or", In(A, Ones), Not(Not(Eq(B, Lit(Str("x"))))))>>,
     <<Bin("And", Eq(One, One), Eq(A, One))>>,
     <<Eq(One, Lit(Str("2")))>>}
Outputs ==
    {<<Star>>,
     <<As(B, "c"), As(A, "a")>>,
     <<As(Call("lower", <<Call("lower", <<A>>)>>), "a"), As(Bin("Add", Call("lower", <<A>>), B), "d"),
       As(Call("coalesce", <<Lit(Null), B, B, One, A>>), "c")>>}
Tails == {<<<<>>, <<>>>>, <<<<A>>, <<1>>>>, <<<<B, A>>, <<>>>>, <<<<>>, <<1>>>>, <<<<>>, <<0>>>>}
Combinations ==
    {<<Query([By(Select(p, s), t[1], TRUE) EXCEPT !.where = w, !.limit = t[2]])>> :
        p \in Outputs, s \in Sources, w \in Conditions, t \in Tails}

Counts == <<As(Call("count_all", <<>>), "n"), As(Call("max", <<A>>), "m"), As(Call("max", <<A>>), "o"),
            As(Call("count_nonnull", <<Lit(Null)>>), "z"), As(Call("min", <<One>>), "p"), As(Call("count_nonnull", <<One>>), "q")>>
JoinFG == LeftJoin(Alias("l", F), Alias("r", G), Eq(Id(<<"r", "a">>), Id(<<"l", "a">>)))
LB == Id(<<"l", "b">>)
RB == Id(<<"r", "b">>)
Key == Call("json_value", <<B, Lit(Str("k"))>>)
Special ==
    {<<Query(Select(Counts, F))>>,
     <<Query(Select(Counts, Where(Select(<<Star>>, G), Eq(One, Lit(Str("2"))))))>>,
     <<Query(Limit(By(Having(Group(Select(Cols(<<"c">>) \o Counts, F), <<As(Call("lower", <<B>>), "c")>>),
                             Bin("Less", Call("count_all", <<>>), Lit(Num(3)))), <<Id(<<"n">>)>>, TRUE), 1))>>,
     <<Query(Where(Select(<<As(LB, "x"), As(RB, "y")>>, JoinFG), Bin("And", Eq(LB, Lit(Str("x"))), Eq(RB, Lit(Str("x"))))))>>,
     <<Query(Where(Select(<<Star>>, Select(<<As(LB, "x"), As(RB, "y")>>, JoinFG)), In(Id(<<"x">>), Select(Cols(<<"b">>), G))))>>,
     <<Macro("twice", <<<<"v">>>>, Bin("Add", Id(<<"v">>), Id(<<"v">>))),
       Named("t", Materialize(Select(<<As(Call("twice", <<Call("lower", <<A>>)>>), "a")>>, Stream))),
       Query(Select(<<Star>>, Limit(Select(<<Star>>, Ref("t")), 1))), Query(Select(Cols(<<"a">>), Ref("t")))>>,
     <<Query(Where(Select(<<As(Call("int", <<A>>), "i"), As(Bin("Divide", Call("int", <<A>>), Lit(Num(2))), "h")>>, F),
                   LikeOf(Call("substr", <<A, Lit(Num(1))>>), "1")))>>,
     <<Query(Limit(Select(Cols(<<"i">>), Select(<<As(Call("int", <<Call("string", <<Call("int", <<A>>)>>)>>), "i")>>, F)), 1))>>,
     <<Query(Limit(Select(<<Star>>, Union(Select(<<As(Call("lower", <<A>>), "x")>>, F), Select(<<As(Call("lower", <<B>>), "x")>>, G))), 1))>>,
     <<Query(Where(Select(<<As(Key, "x"), As(Call("lower", <<Key>>), "y")>>, F), Bin("Or", Eq(Key, One), Eq(One, Key))))>>,
     <<Query(Group(Select(<<As(Call("min", <<Key>>), "x"), As(Call("max", <<Key>>), "y"), As(Call("sum", <<Call("int", <<A>>)>>), "z")>>, F),
                   <<As(B, "b")>>))>>,
     <<Query(Select(<<As(Bin("Add", Bin("Add", A, A), A), "x")>>, Select(<<As(Key, "a")>>, Select(Cols(<<"a">>), F))))>>,
     <<Query(Select(<<As(Bin("Add", A, B), "x")>>, Select(<<As(Key, "a"), As(Call("splitpart", <<B, One, Lit(Num(1))>>), "b")>>, F)))>>,
     <<Query(Where(Select(<<Star>>, Union(Union(Select(Cols(<<"a">>), F), Where(Select(Cols(<<"a">>), G), Eq(One, One))), Select(Cols(<<"a">>), Stream))),
                   Bin("NotEqual", Lit(Null), A)))>>,
     \* refused when it is compiled: the condition is a null constant
     <<Query(Where(Select(<<Star>>, F), Call("bool", <<Lit(Null)>>)))>>,
     \* accepted, but its pattern has no executor; a constant is computed by one
     <<Query(Select(<<As(Call("rsubstr", <<A, Lit(Str("("))>>), "x")>>, F))>>,
     <<Query(Select(<<As(Call("rsubstr", <<One, Lit(Str("("))>>), "x")>>, F))>>,
     \* accepted, but they cannot be lowered
     <<Query(SortedBy(Select(Cols(<<"a">>), F), Select(Cols(<<"a">>), G), <<In(A, Ones)>>, FALSE))>>,
     <<Query(By(Select(<<As(Call("max", <<A>>), "m")>>, F), <<Id(<<"m">>)>>, FALSE))>>,
     \* rejected
     <<Query(Where(Select(<<Star>>, F), A))>>, <<Query(Select(<<As(Call("json_value", <<A, Lit(Str("("))>>), "x")>>, F))>>,
     <<Macro("unused", <<<<"v">>>>, Bin("Add", Id(<<"v">>), Call("nothing", <<Id(<<"v">>)>>))), Query(F)>>,
     <<Query(Ref("t"))>>, <<Named("t", F), Named("t", G)>>, <<Query(Select(<<As(Call("nothing", <<A>>), "x")>>, F))>>,
     <<Query(Where(Select(<<Star>>, F), In(A, G)))>>, <<Query(LeftJoin(F, G, Eq(A, B)))>>}

MCPrograms == Combinations \cup Special

Row(a, b) == <<"a">> :> a @@ <<"b">> :> b
MCDatabases ==
    {<<"File", "f">> :> <<Row("1", "X"), Row("2", "x"), Row("1", "x")>> @@ <<"File", "g">> :> <<Row("1", "x"), <<"b">> :> "x">>
       @@ <<"Stream", "cmd">> :> <<Row("x", "1"), Row("X", "2")>>,
     <<"File", "f">> :> <<>> @@ <<"File", "g">> :> <<Row("X", "1")>> @@ <<"Stream", "cmd">> :> <<>>}
===============================================================================
