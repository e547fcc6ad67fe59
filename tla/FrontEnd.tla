-------------------------------- MODULE FrontEnd --------------------------------
(* The SQL front end after parsing: macro expansion and binding
   (src/front/sql/bind, src/front/common/bind) and lowering to the IR
   (src/front/sql/lower).

   An expression of the syntax tree is [v, args, rel]: v is <<"Id", name>>,
   <<"Literal", value>>, <<"In">>, <<"Like", regex>>, <<"Call", function>>,
   <<"Binary", type>> or <<"Unary", type>>, and rel holds the relation of an IN.  A
   name is a sequence of strings: what a dot separates.  A relation is
   [v, src, proj, where, group, having, order, limit]; what is absent is the empty
   sequence.  A projector is [v, e]: <<"Star">>, or <<"Expr", alias>> with its
   expression; an identifier projector is one whose alias is its identifier.

   Binding adds to an expression its type t, its level lvl, the fields req it
   reads, a path that makes the names of its anonymous fields unique, the fields
   need it requires of open relations, and whether it was accepted (ok); to a
   relation its field set fs, need and ok.                                      *)
EXTENDS Optimizer

CONSTANT Accepts(_)   \* whether the literal parameters of a text function are valid,
                      \* where the binder asks

\* Parsed nodes; what binding computes is blank.
AstExpr(v, args, rel) == [v |-> v, args |-> args, rel |-> rel]
AstRelation(v, src) ==
    [v |-> v, src |-> src, proj |-> <<>>, where |-> <<>>, group |-> <<>>, having |-> <<>>, order |-> <<>>,
     limit |-> <<>>, fs |-> [kind |-> "fixed", own |-> {}, id |-> <<>>, src |-> <<>>], ok |-> TRUE, need |-> {}]

AnyExpr(x, Op(_)) == \E i \in DOMAIN x : Op(x[i])
AllExprs(x, Op(_)) == \A i \in DOMAIN x : Op(x[i])
UnionOf(x, Op(_)) == UNION {Op(x[i]) : i \in DOMAIN x}
SelectExprs(ps) == FlattenSeq(Map(ps, LAMBDA p : p.e))
ExprsOf(r) == r.where \o r.having \o r.order \o SelectExprs(r.proj) \o SelectExprs(r.group)

\* r with E applied to its expressions and R to its sources.
Over(r, E(_), R(_)) ==
    LET Projectors(ps) == Map(ps, LAMBDA p : [p EXCEPT !.e = Map(@, E)])
    IN  [r EXCEPT !.src = Map(@, R), !.where = Map(@, E), !.having = Map(@, E), !.order = Map(@, E),
                  !.proj = Projectors(@), !.group = Projectors(@)]

-------------------------------------------------------------------------------
(* expandMacros.  What the code refuses becomes an expression no binder accepts. *)

Refused == AstExpr(<<"Refused", "">>, <<>>, <<>>)
CastTypes == [null |-> "Null", int |-> "Integer", float |-> "Floating", bool |-> "Boolean", string |-> "String"]
Builtins == DOMAIN CastTypes \cup
    {"lower", "splitpart", "substr", "coalesce", "percentile", "rsubstr", "json_value", "count_all",
     "count_nonnull", "min", "max", "sum", "parse_timestamp"}

RECURSIVE SubstituteE(_, _), SubstituteR(_, _), ExpandE(_, _), ExpandR(_, _), FreeNames(_)
SubstituteE(e, arguments) ==
    IF e.v[1] = "Id" /\ e.v[2] \in DOMAIN arguments THEN arguments[e.v[2]]
    ELSE [e EXCEPT !.args = Map(@, LAMBDA a : SubstituteE(a, arguments)),
                   !.rel = Map(@, LAMBDA r : SubstituteR(r, arguments))]
SubstituteR(r, arguments) ==
    Over(r, LAMBDA e : SubstituteE(e, arguments), LAMBDA s : SubstituteR(s, arguments))

ExpandE(expr, defs) ==
    LET e == [expr EXCEPT !.args = Map(@, LAMBDA a : ExpandE(a, defs)), !.rel = Map(@, LAMBDA r : ExpandR(r, defs))]
        name == e.v[2]
    IN  IF e.v[1] # "Call" THEN e
        ELSE IF name \notin DOMAIN defs THEN IF name \in Builtins THEN e ELSE Refused
        ELSE IF Len(e.args) # Len(defs[name].parameters) THEN Refused
        ELSE SubstituteE(defs[name].body,
                         [p \in Range(defs[name].parameters) |-> e.args[Position(defs[name].parameters, p)]])
ExpandR(r, defs) == Over(r, LAMBDA e : ExpandE(e, defs), LAMBDA s : ExpandR(s, defs))

\* The identifiers of a macro body outside the relations in it.
FreeNames(e) == IF e.v[1] = "Id" THEN {e.v[2]} ELSE UnionOf(e.args, FreeNames)

\* Nothing in an expanded expression or relation was refused.
RECURSIVE NoneRefused(_), NoneRefusedIn(_)
NoneRefused(e) == e.v[1] # "Refused" /\ AllExprs(e.args, NoneRefused) /\ AllExprs(e.rel, NoneRefusedIn)
NoneRefusedIn(r) == AllExprs(ExprsOf(r), NoneRefused) /\ AllExprs(r.src, NoneRefusedIn)

define(st, defs) ==
    LET valid == /\ st.name \notin Builtins \cup DOMAIN defs \cup {"count"}
                 /\ IsInjective(st.parameters)
                 /\ FreeNames(st.body) \subseteq Range(st.parameters)
    IN  (st.name :> [parameters |-> st.parameters, body |-> IF valid THEN ExpandE(st.body, defs) ELSE Refused]) @@ defs

\* A program is a sequence of statements [kind, name, parameters, body, rel].
expandMacros(program) ==
    FoldLeft(LAMBDA acc, st :
        IF st.kind = "macro"
        THEN LET defs == define(st, acc.defs) IN
             [acc EXCEPT !.defs = defs, !.ok = @ /\ NoneRefused(defs[st.name].body)]
        ELSE [acc EXCEPT !.out = Append(@, [st EXCEPT !.rel = Map(@, LAMBDA r : ExpandR(r, acc.defs))])],
        [out |-> <<>>, defs |-> <<>>, ok |-> TRUE], program)

-------------------------------------------------------------------------------
(* Field sets: what a relation can give to those that read from it.  An open one
   (a file, a stream) gives any String field it is asked for; what it was asked for
   is the set need of <<id, field>>. *)

FieldSet(kind, own, id, src) == [kind |-> kind, own |-> own, id |-> id, src |-> src]
Fixed(fields) == FieldSet("fixed", fields, <<>>, <<>>)
Combined(own, sources) == FieldSet("combined", own, <<>>, sources)

Unaliased(f) == [f EXCEPT !.name = Tail(@)]
Aliased(alias, f) == [f EXCEPT !.name = <<alias>> \o @]
HasAlias(fs, f) == Len(f.name) > 1 /\ Head(f.name) = fs.id[1]

RECURSIVE canProvide(_, _), FieldsIn(_, _), require(_, _)
canProvide(fs, f) ==
    CASE fs.kind = "fixed" -> f \in fs.own
      [] fs.kind = "open" -> f.type = "String"
      [] fs.kind = "alias" -> HasAlias(fs, f) /\ canProvide(fs.src[1], Unaliased(f))
      [] fs.kind = "combined" -> f \in fs.own \/ \E i \in DOMAIN fs.src : canProvide(fs.src[i], f)
FieldsIn(fs, need) ==
    CASE fs.kind = "fixed" -> fs.own
      [] fs.kind = "open" -> {n[2] : n \in {n \in need : n[1] = fs.id}}
      [] fs.kind = "alias" -> {Aliased(fs.id[1], f) : f \in FieldsIn(fs.src[1], need)}
      [] fs.kind = "combined" -> fs.own \cup UNION {FieldsIn(fs.src[i], need) : i \in DOMAIN fs.src}
\* What asking fs for the field f asks of the open relations under it.
require(fs, f) ==
    CASE fs.kind = "fixed" \/ f \in fs.own -> {}
      [] fs.kind = "open" -> {<<fs.id, f>>}
      [] fs.kind = "alias" -> require(fs.src[1], Unaliased(f))
      [] fs.kind = "combined" /\ f \notin fs.own ->
           UNION {require(fs.src[i], f) : i \in {i \in DOMAIN fs.src : canProvide(fs.src[i], f)}}

\* The field of fs that a name stands for: one it has, or a String field it may give.
sourceField(name, fs) ==
    LET known == {f \in FieldsIn(fs, {}) : f.name = name} IN
    IF known # {} THEN CHOOSE f \in known : TRUE ELSE Field(name, "String")

\* The field a name stands for in a chain of field sets.  A field that an open set
\* was asked for before is a String one, so what was asked so far cannot matter here.
Found(fs, f) == [ok |-> TRUE, f |-> f, need |-> require(fs, f)]
RECURSIVE typeOfSourceField(_, _)
typeOfSourceField(name, chain) ==
    IF chain = <<>> THEN [ok |-> FALSE, f |-> NoField, need |-> {}]
    ELSE IF canProvide(chain[1], sourceField(name, chain[1])) THEN Found(chain[1], sourceField(name, chain[1]))
    ELSE typeOfSourceField(name, Tail(chain))

-------------------------------------------------------------------------------
(* Types and levels of expressions. *)

composable(a, b) == a = b \/ "Const" \in {a, b}
composedLevel(args) ==
    LET levels == {args[i].lvl : i \in DOMAIN args} IN
    CASE "Group" \in levels -> "Group" [] levels \subseteq {"Const"} -> "Const" [] OTHER -> "Row"
composableArgs(args) == \A i, j \in DOMAIN args : composable(args[i].lvl, args[j].lvl)

Comparable == {"Integer", "Floating", "String"}
BinaryAllowed(type, l, r) ==
    CASE type \in {"Equal", "NotEqual"} -> l = r \/ "Null" \in {l, r}
      [] type \in Comparison -> l = r /\ l \in Comparable
      [] type \in {"And", "Or"} -> l = "Boolean" /\ r = "Boolean"
      [] type = "Add" -> l = r /\ l \in {"Integer", "Floating", "String"}
      [] type \in {"Divide", "Subtract"} -> l = r /\ l \in {"Integer", "Floating"}
\* common::lower::function: the operators that depend on the type of their operands carry it.
function(type, argType) == IF type \in Comparison \cup Arithmetic THEN <<type, argType>> ELSE <<type>>

IsLiteral(a, type) == a.v[1] = "Value" /\ a.t = type
Literals(args, types) == Len(args) = Len(types) + 1 /\ \A i \in DOMAIN types : IsLiteral(args[i + 1], types[i])
Param(args, i) == args[i].v[2][2]

\* [ok, f, t, lvl]: the function a call stands for; only arguments that are not
\* parameters of the function stay arguments.
Parameters(args, n) ==
    [i \in 1..n |-> IF i + 1 \in DOMAIN args /\ args[i + 1].v[1] = "Value" THEN Param(args, i + 1) ELSE "?"]
FnOfText(args, types, name, t) ==
    [ok |-> Literals(args, types) /\ args[1].t = "String", f |-> <<name>> \o Parameters(args, Len(types)),
     t |-> t, lvl |-> composedLevel(args)]
TextFn(args, types, name, t) ==
    LET call == FnOfText(args, types, name, t) IN [call EXCEPT !.ok = @ /\ Accepts(call.f)]
bindSubstr(args) ==
    TextFn(args, IF Len(args) = 2 THEN <<"Integer">> ELSE <<"Integer", "Integer">>, "Substr", "String")
\* A pattern is not looked at before its executor is built, a path is.
bindRSubstr(args) == FnOfText(args, <<"String">>, "RSubstr", "String")
bindJSONValue(args) == TextFn(args, <<"String">>, "JSONValue", "String")
bindParseTimestamp(args) == TextFn(args, <<"String">>, "ParseTimestamp", "Integer")

bindCoalesce(args) ==
    LET types == {args[i].t : i \in DOMAIN args} \ {"Null"} IN
    [ok |-> Cardinality(types) <= 1, f |-> <<"Coalesce">>, lvl |-> composedLevel(args),
     t |-> IF types = {} THEN "Null" ELSE CHOOSE t \in types : TRUE]

bindPercentile(args) ==
    LET f == <<"Percentile", IF args = <<>> THEN "Null" ELSE args[1].t>> \o Parameters(args, Len(args) - 1) IN
    [ok |-> /\ Len(args) > 1 /\ args[1].lvl # "Group" /\ args[1].t \in Comparable
            /\ \A i \in 2..Len(args) : IsLiteral(args[i], "Floating")
            /\ Accepts(f),
     f |-> f, t |-> "String", lvl |-> "Group"]
bindCount(f, args) ==
    [ok |-> Len(args) = IF f = "CountAll" THEN 0 ELSE 1, f |-> <<f>>, t |-> "Integer", lvl |-> "Group"]
bindReduction(f, args) ==
    [ok |-> Len(args) = 1 /\ args[1].lvl # "Group", lvl |-> "Group",
     f |-> IF Len(args) = 1 THEN <<f, args[1].t>> ELSE <<f>>, t |-> IF Len(args) = 1 THEN args[1].t ELSE "Null"]
bindCast(name, args) ==
    [ok |-> Len(args) = 1, f |-> <<"Cast", CastTypes[name]>>, t |-> CastTypes[name], lvl |-> composedLevel(args)]

bindFnCall(name, args) ==
    CASE name = "lower" -> TextFn(args, <<>>, "Lower", "String")
      [] name = "splitpart" -> TextFn(args, <<"String", "Integer">>, "SplitPart", "String")
      [] name = "substr" -> bindSubstr(args)
      [] name = "rsubstr" -> bindRSubstr(args)
      [] name = "json_value" -> bindJSONValue(args)
      [] name = "parse_timestamp" -> bindParseTimestamp(args)
      [] name = "coalesce" -> bindCoalesce(args)
      [] name = "percentile" -> bindPercentile(args)
      [] name = "count_all" -> bindCount("CountAll", args)
      [] name = "count_nonnull" -> bindCount("CountNonNull", args)
      [] name = "min" -> bindReduction("Min", args)
      [] name = "max" -> bindReduction("Max", args)
      [] name = "sum" -> bindReduction("Sum", args)
      [] name \in DOMAIN CastTypes -> bindCast(name, args)
      [] OTHER -> [ok |-> FALSE, f |-> <<name>>, t |-> "Null", lvl |-> "Const"]

\* [ok, f, t, lvl] of the other expressions that have operands.
resultType(type, argType) == IF type \in Arithmetic THEN argType ELSE "Boolean"
bindOperator(e, args) ==
    CASE e.v[1] = "In" -> [ok |-> args[1].lvl # "Group", f |-> <<NoField>>, t |-> "Boolean", lvl |-> "Row"]
      [] e.v[1] = "Like" ->
           [ok |-> args[1].t = "String", f |-> <<"Like", e.v[2]>>, t |-> "Boolean", lvl |-> args[1].lvl]
      [] e.v[1] = "Unary" ->
           [ok |-> args[1].t = "Boolean", f |-> <<"BooleanNegate">>, t |-> "Boolean", lvl |-> args[1].lvl]
      [] e.v[1] = "Binary" ->
           [ok |-> BinaryAllowed(e.v[2], args[1].t, args[2].t) /\ composableArgs(args),
            f |-> function(e.v[2], args[1].t), t |-> resultType(e.v[2], args[1].t), lvl |-> composedLevel(args)]

-------------------------------------------------------------------------------
(* Binding. *)

outputFieldsOf(ps) == {ps[i].v[2] : i \in {i \in DOMAIN ps : ps[i].v[1] = "Expr"}}
HasStar(ps) == \E i \in DOMAIN ps : ps[i].v[1] = "Star"
NotGroup(e) == e.lvl # "Group"
ReadsOnly(e, fields) == e.lvl = "Row" => e.req \subseteq fields

\* An expression whose operands args and relation rel have been bound, and whose
\* name, if it is one, was found to be a field; call is what a function or an
\* operator stands for.
BoundNode(v, kept, t, lvl, req, ok, need, args, rel, path) ==
    [v |-> v, args |-> kept, rel |-> rel, t |-> t, lvl |-> lvl, req |-> req, path |-> path,
     ok |-> ok /\ AllExprs(args \o rel, LAMBDA a : a.ok),
     need |-> need \cup UnionOf(args \o rel, LAMBDA a : a.need)]
BoundId(found, path) ==
    BoundNode(<<"Id", found.f>>, <<>>, found.f.type, "Row", {found.f}, found.ok, found.need, <<>>, <<>>, path)
BoundValue(val, ok, path) == BoundNode(<<"Value", val>>, <<>>, val[1], "Const", {}, ok, {}, <<>>, <<>>, path)
BoundCall(kind, call, kept, args, rel, path) ==
    BoundNode(<<kind>> \o call.f, kept, call.t, call.lvl, UnionOf(kept, LAMBDA a : a.req),
              call.ok /\ (kind = "Call" => composableArgs(args)), {}, args, rel, path)
\* The operands of a call that are not parameters of its function.
Kept(name, args) ==
    SubSeq(args, 1, IF name \in {"coalesce"} \cup DOMAIN CastTypes THEN Len(args) ELSE Min({1, Len(args)}))
BoundApplication(e, args, rel, path) ==
    CASE e.v[1] = "In" -> BoundCall("In", bindOperator(e, args), args, args, rel, path)
      [] e.v[1] \in {"Like", "Unary", "Binary"} -> BoundCall("Op", bindOperator(e, args), args, args, rel, path)
      [] e.v[1] = "Call" -> BoundCall("Call", bindFnCall(e.v[2], args), Kept(e.v[2], args), args, rel, path)

RECURSIVE bindExpr(_, _, _, _), bindRelation(_, _, _)
bindExprs(x, chain, path, named) ==
    Computed([i \in DOMAIN x |-> bindExpr(x[i], chain, path \o <<ToString(i)>>, named)])
bindExpr(e, chain, path, named) ==
    CASE e.v[1] = "Id" -> BoundId(typeOfSourceField(e.v[2], chain), path)
      [] e.v[1] = "Literal" -> BoundValue(e.v[2], TRUE, path)
      [] e.v[1] = "Refused" -> BoundValue(Null, FALSE, path)
      [] OTHER -> BoundApplication(e, bindExprs(e.args, chain, path, named),
                      Map(e.rel, LAMBDA r : bindRelation(r, path \o <<"in">>, named)), path)

BoundProjector(p, e) == [v |-> <<"Expr", Field(p.v[2], e.t)>>, e |-> <<e>>]
bindProjector(p, chain, path, named) ==
    IF p.v[1] = "Star" THEN p ELSE BoundProjector(p, bindExpr(p.e[1], chain, path, named))

bindProjectors(ps, chain, path, named) ==
    Computed([i \in DOMAIN ps |-> bindProjector(ps[i], chain, path \o <<ToString(i)>>, named)])

\* Each part of a SELECT binds its clauses in r; the next one reads what they gave.
bindWhere(r, source, path, named) ==
    [r EXCEPT !.src = <<source>>, !.where = bindExprs(@, <<source.fs>>, path \o <<"where">>, named)]
bindSelectList(r, chain, path, named) == [r EXCEPT !.proj = bindProjectors(@, chain, path \o <<"proj">>, named)]
bindOrder(r, chain, path, named) == [r EXCEPT !.order = bindExprs(@, chain, path \o <<"order">>, named)]

OutputFields(r) == outputFieldsOf(r.proj)
GroupKeys(r) == outputFieldsOf(r.group)
Visible(r) == Fixed(OutputFields(r) \cup GroupKeys(r))

bindGroupBy(r, source, path, named) ==
    [r EXCEPT !.group = bindProjectors(@, <<source.fs>>, path \o <<"group">>, named)]
bindHaving(r, source, path, named) ==
    [r EXCEPT !.having = bindExprs(@, <<Visible(r), source.fs>>, path \o <<"having">>, named)]
\* Behind GROUP BY an expression of a row reads the group's keys only.
groupedSelect(r) ==
    [r EXCEPT !.v = <<"Select", r.v[2], TRUE>>, !.fs = Fixed(OutputFields(r)),
              !.ok = /\ @ /\ r.proj # <<>> /\ ~HasStar(r.group)
                     /\ AllExprs(SelectExprs(r.proj), LAMBDA e : ReadsOnly(e, GroupKeys(r)))
                     /\ AllExprs(r.having, LAMBDA e : e.t = "Boolean" /\ ReadsOnly(e, OutputFields(r) \cup GroupKeys(r)))]
orderGroups(r, path, named) == bindOrder(r, <<Visible(r)>>, path, named)
listGroups(r, source, path, named) == bindSelectList(r, <<Fixed(GroupKeys(r)), source.fs>>, path, named)
bindGroupedSelect(r, source, path, named) ==
    orderGroups(groupedSelect(bindHaving(listGroups(bindGroupBy(r, source, path, named),
                                                    source, path, named), source, path, named)), path, named)

\* Without GROUP BY, a projector that aggregates makes the whole SELECT one.
has_group_projector(r) == AnyExpr(SelectExprs(r.proj), LAMBDA e : e.lvl = "Group")
ungroupedSelect(r, source) ==
    [r EXCEPT !.v = <<"Select", r.v[2], has_group_projector(r)>>, !.having = <<>>,
              !.fs = IF ~has_group_projector(r) /\ HasStar(r.proj) THEN Combined(OutputFields(r), <<source.fs>>)
                     ELSE Fixed(OutputFields(r)),
              !.ok = /\ @ /\ r.proj # <<>> /\ r.having = <<>>
                     /\ has_group_projector(r) =>
                          ~HasStar(r.proj) /\ AllExprs(SelectExprs(r.proj), LAMBDA e : e.lvl # "Row")]
orderRows(r, source, path, named) ==
    bindOrder(r, IF r.v[3] THEN <<Fixed(OutputFields(r))>> ELSE <<Fixed(OutputFields(r)), source.fs>>, path, named)
bindUngroupedSelect(r, source, path, named) ==
    orderRows(ungroupedSelect(bindSelectList(r, <<source.fs>>, path, named), source), source, path, named)

AcceptSelect(r) ==
    [r EXCEPT !.ok = /\ @ /\ AllExprs(r.where, LAMBDA e : e.t = "Boolean" /\ NotGroup(e))
                     /\ r.limit # <<>> => r.limit[1] >= 0
                     /\ AllExprs(r.order, NotGroup)]
bindClauses(r, source, path, named) ==
    IF r.group # <<>> THEN bindGroupedSelect(r, source, path, named) ELSE bindUngroupedSelect(r, source, path, named)
bindSelect(r, source, path, named) ==
    AcceptSelect(bindClauses(bindWhere(r, source, path, named), source, path, named))

bindAdhoc(r) ==
    LET anon == Field(<<"anon">>, IF r.v[2] = <<>> THEN "Null" ELSE r.v[2][1][1]) IN
    [r EXCEPT !.v = <<"Adhoc", r.v[2], anon>>, !.fs = Fixed({anon}),
              !.ok = \A i \in DOMAIN r.v[2] : r.v[2][i][1] = anon.type]
bindAlias(r, src) == [r EXCEPT !.src = src, !.fs = FieldSet("alias", {}, <<r.v[2]>>, <<src[1].fs>>)]
BothSides(src) == Combined({}, Map(src, LAMBDA s : s.fs))
BoundJoin(r, src, on) ==
    [r EXCEPT !.src = src, !.fs = BothSides(src), !.where = on,
              !.ok = r.where[1].v = <<"Binary", "Equal">> /\ AllExprs(on[1].args, NotGroup)]
bindLeftJoin(r, src, path, named) ==
    BoundJoin(r, src, bindExprs(r.where, <<BothSides(src)>>, path \o <<"on">>, named))

\* A relation whose sources have been bound.
bindNode(r, src, path, named) ==
    LET Bound(fs, ok) == [r EXCEPT !.src = src, !.fs = fs, !.ok = ok]
        kind == r.v[1]
    IN
    CASE kind = "Select" -> bindSelect(r, src[1], path, named)
      [] kind = "Adhoc" -> bindAdhoc(r)
      [] kind = "Alias" -> bindAlias(r, src)
      [] kind = "LeftJoin" -> bindLeftJoin(r, src, path, named)
      [] kind = "UnionAll" -> Bound(BothSides(src), TRUE)
      [] kind = "UnionAllSortedBy" ->
           [Bound(BothSides(src), r.order # <<>>) EXCEPT
              !.order = bindExprs(@, <<BothSides(src)>>, path \o <<"by">>, named)]
      [] kind = "File" -> Bound(FieldSet("open", {}, path, <<>>), r.v[3])
      [] kind = "Stream" -> Bound(FieldSet("open", {}, path, <<>>), TRUE)
      [] kind = "NamedRef" ->
           IF r.v[2] \in DOMAIN named THEN Bound(named[r.v[2]], TRUE) ELSE Bound(Fixed({}), FALSE)
      [] kind = "Materialize" -> Bound(src[1].fs, TRUE)

\* A relation is accepted with all its parts and requires what they require.
BoundRelation(r) ==
    [r EXCEPT !.ok = @ /\ AllExprs(r.src, LAMBDA s : s.ok) /\ AllExprs(ExprsOf(r), LAMBDA e : e.ok),
              !.need = UnionOf(r.src, LAMBDA s : s.need) \cup UnionOf(ExprsOf(r), LAMBDA e : e.need)]
bindSources(src, path, named) ==
    Computed([i \in DOMAIN src |-> bindRelation(src[i], path \o <<ToString(i)>>, named)])
bindRelation(r, path, named) ==
    BoundRelation(bindNode(r, bindSources(r.src, path, named), path, named))

-------------------------------------------------------------------------------
(* postRun: what can only be decided when every statement has been bound. *)

matchFields(rel, need) == FieldsIn(rel[1].fs, need)
PostIn(e, match_fields) ==
    LET one == Cardinality(match_fields) = 1
        match_field == CHOOSE f \in match_fields : TRUE
    IN  [e EXCEPT !.v = IF one THEN <<"In", match_field>> ELSE @,
                  !.ok = @ /\ one /\ e.args[1].t = match_field.type]
PostNode(e, need) ==
    [IF e.v[1] = "In" THEN PostIn(e, matchFields(e.rel, need)) ELSE e
       EXCEPT !.ok = @ /\ AllExprs(e.args \o e.rel, LAMBDA a : a.ok)]

RECURSIVE PostExpr(_, _), PostRelation(_, _)
PostExpr(e, need) ==
    PostNode([e EXCEPT !.args = Map(@, LAMBDA a : PostExpr(a, need)),
                       !.rel = Map(@, LAMBDA r : PostRelation(r, need))], need)

\* The keys of a join are given to the side whose fields they read.
PostJoin(r, need) ==
    LET left_fields == FieldsIn(r.src[1].fs, need)
        right_fields == FieldsIn(r.src[2].fs, need)
        key(i) == r.where[1].args[i].req
        forward == key(1) \subseteq left_fields /\ key(2) \subseteq right_fields
        reverse == key(2) \subseteq left_fields /\ key(1) \subseteq right_fields
    IN  [r EXCEPT !.ok = @ /\ left_fields \cap right_fields = {} /\ (forward \/ reverse),
                  !.where[1].args = IF forward THEN @ ELSE Reverse(@)]

PostAccepted(r) == [r EXCEPT !.ok = @ /\ AllExprs(r.src \o ExprsOf(r), LAMBDA e : e.ok)]
PostSides(r, need) == IF r.v[1] = "LeftJoin" THEN PostJoin(r, need) ELSE r
PostRelation(r, need) ==
    PostAccepted(PostSides(Over(r, LAMBDA e : PostExpr(e, need), LAMBDA s : PostRelation(s, need)), need))

\* bind: a sequence of [name, rel], and whether the program is accepted.
boundStatement(acc, st, rel) ==
    LET isNamed == st.kind = "named" IN
    [out |-> Append(acc.out, [name |-> st.name, rel |-> rel]),
     named |-> IF isNamed THEN (st.name :> rel.fs) @@ acc.named ELSE acc.named,
     ok |-> acc.ok /\ rel.ok /\ (isNamed => st.name \notin DOMAIN acc.named)]
bindStatements(expanded) ==
    FoldLeft(LAMBDA acc, st : boundStatement(acc, st, bindRelation(st.rel[1], <<ToString(Len(acc.out))>>, acc.named)),
             [out |-> <<>>, named |-> <<>>, ok |-> expanded.ok], expanded.out)
postRun(all, need) ==
    [ok |-> all.ok, need |-> need, statements |-> Map(all.out, LAMBDA st : [st EXCEPT !.rel = PostRelation(@, need)])]
Decided(p) == [p EXCEPT !.ok = @ /\ AllExprs(p.statements, LAMBDA st : st.rel.ok)]
postRunAll(all) == Decided(postRun(all, UnionOf(all.out, LAMBDA st : st.rel.need)))
bind(program) == postRunAll(bindStatements(expandMacros(program)))

-------------------------------------------------------------------------------
(* Lowering.  A failed verify leaves a Panic relation in the result.  An expression
   lowers to [s, a, rel]: its scalar, its aggregates, and the relation it is
   evaluated on, to which each IN in it has added a mark.  A relation lowers to
   [out, slot]: slot is the relation of the expression it stands in, if it stands
   in one.  ctx holds the fields required of the open relations and the schemas of
   the named relations.                                                          *)

Panic == Relation(<<"Panic">>, <<>>, <<>>, <<>>, <<>>)
NoRelation == Relation(<<"None">>, <<>>, <<>>, <<>>, <<>>)   \* an empty relation slot
Verify(cond, rel) == IF cond THEN rel ELSE [Panic EXCEPT !.schema = rel.schema]
RECURSIVE Panics(_)
Panics(r) == IsA(r, "Panic") \/ \E i \in DOMAIN r.src : Panics(r.src[i])

Forward(id) == [id |-> id, e |-> FieldScalar(id, id.type)]
Projection(x, rel) == Verify(IsInjective(Ids(x)), Relation(<<"Projection">>, <<rel>>, x, <<>>, Ids(x)))
identityProjectorsFor(x) == Map(x, LAMBDA p : Forward(p.id))
addAllAsFieldScalars(from, x) == x \o Map(SetToSeq(from \ Range(Ids(x))), Forward)

\* The expressions of es one after the other, on the relation the ones before left.
Followed(acc, k) == [s |-> acc.s \o k.s, a |-> acc.a \o k.a, rel |-> k.rel]
InOrder(es, rel, Lower(_, _)) ==
    FoldLeft(LAMBDA acc, e : Followed(acc, Lower(e, acc.rel)), [s |-> <<>>, a |-> <<>>, rel |-> rel], es)

\* An expression whose operands lowered to k; match is the lowered relation of an IN.
lowerFnCall(e, k, call, output) ==
    IF isScalar(call.v) THEN [k EXCEPT !.s = <<call>>, !.rel = Verify(k.a = <<>>, @)]
    ELSE [s |-> <<FieldScalar(output, e.t)>>, a |-> <<[v |-> call.v, args |-> k.s, id |-> output, t |-> e.t]>>,
          rel |-> Verify(k.a = <<>>, k.rel)]
lowerIn(e, k, match, mark) ==
    [s |-> <<FieldScalar(mark, "Boolean")>>, a |-> <<>>,
     rel |-> Verify(k.a = <<>> /\ k.rel # NoRelation, Relation(<<"MarkJoin", mark, e.v[2]>>, <<k.rel>> \o match,
                                         Map(k.s, Expr), <<>>, Append(k.rel.schema, mark)))]
lowerNode(e, k, match, rel, fields) ==
    LET call == FnCall(Tail(e.v), k.s, e.t) IN
    CASE e.v[1] = "Id" ->
           [s |-> <<FieldScalar(e.v[2], e.t)>>, a |-> <<>>, rel |-> Verify(e.v[2] \in fields, rel)]
      [] e.v[1] = "Value" -> [s |-> <<ValueScalar(e.v[2], e.t)>>, a |-> <<>>, rel |-> rel]
      [] e.v[1] = "Op" -> [k EXCEPT !.s = <<call>>]
      [] e.v[1] = "Call" -> lowerFnCall(e, k, call, Field(<<"fn_call_aggr">> \o e.path, e.t))
      [] e.v[1] = "In" -> lowerIn(e, k, match, Field(<<"mark_join">> \o e.path, "Boolean"))

RECURSIVE lowerExpr(_, _, _, _), lowerRelation(_, _, _), extractAggregates(_, _, _, _)
lowerRelations(rels, slot, ctx) ==
    FoldLeft(LAMBDA acc, r : LET one == lowerRelation(r, acc.slot, ctx) IN
                             [out |-> Append(acc.out, one.out), slot |-> one.slot],
             [out |-> <<>>, slot |-> slot], rels)
lowerExprs(es, rel, fields, ctx) == InOrder(es, rel, LAMBDA e, r : lowerExpr(e, r, fields, ctx))
lowerExpr(e, rel, fields, ctx) ==
    LET k == lowerExprs(e.args, rel, fields, ctx)
        match == lowerRelations(e.rel, k.rel, ctx)
    IN  lowerNode(e, [k EXCEPT !.rel = match.slot], match.out, rel, fields)

\* The aggregates of a HAVING condition, which reads their fields instead.
readAggregate(e, k) ==
    LET field == k.a[1].id IN
    [k EXCEPT !.s = <<[e EXCEPT !.v = <<"Id", field>>, !.args = <<>>, !.lvl = "Row", !.req = {field}]>>]
readAggregates(e, k) ==
    [k EXCEPT !.s = <<[e EXCEPT !.args = k.s, !.lvl = IF @ = "Group" THEN "Row" ELSE @,
                                !.req = IF e.v[1] = "Id" THEN {e.v[2]} ELSE UnionOf(k.s, LAMBDA c : c.req)]>>]
extractAggregates(e, rel, fields, ctx) ==
    IF e.v[1] = "Call" /\ ~isScalar(e.v) THEN readAggregate(e, lowerExpr(e, rel, fields, ctx))
    ELSE readAggregates(e, InOrder(e.args, rel, LAMBDA c, r : extractAggregates(c, r, fields, ctx)))

asProjector(p, k) == [k EXCEPT !.s = <<[id |-> p.v[2], e |-> k.s[1]]>>]
lowerProjectors(ps, star_fields, rel, fields, ctx) ==
    InOrder(ps, rel, LAMBDA p, r :
        IF p.v[1] = "Star" THEN [s |-> Map(SetToSeq(star_fields), Forward), a |-> <<>>, rel |-> r]
        ELSE asProjector(p, lowerExpr(p.e[1], r, fields, ctx)))

\* A condition that is an IN becomes a semi-join, another one a filter.
SemiJoin(rel, id, key, match) ==
    Verify(key.a = <<>> /\ id \in Range(match[1].schema),
           Relation(<<"SemiJoin", id>>, <<key.rel>> \o match, Map(key.s, Expr), <<>>, rel.schema))
FilterBy(rel, condition) ==
    Verify(condition.a = <<>>, [Filter(condition.rel, condition.s[1]) EXCEPT !.schema = rel.schema])
lowerCondition(cond, rel, ctx) ==
    IF cond.v[1] = "In"
    THEN LET match == lowerRelations(cond.rel, rel, ctx) IN
         SemiJoin(rel, cond.v[2], lowerExprs(cond.args, match.slot, Range(rel.schema), ctx), match.out)
    ELSE FilterBy(rel, lowerExpr(cond, rel, Range(rel.schema), ctx))
lowerWhere(conds, rel, ctx) == IF conds = <<>> THEN rel ELSE lowerCondition(conds[1], rel, ctx)

sortBy(r, keys) ==
    Verify(keys.a = <<>>, Relation(<<"Sort", r.v[2]>>, <<keys.rel>>, Map(keys.s, Expr), <<>>, keys.rel.schema))
lowerOrder(r, rel, ctx) ==
    IF r.order = <<>> THEN rel ELSE sortBy(r, lowerExprs(r.order, rel, Range(rel.schema), ctx))
lowerSelectOutput(projectors, having, r, rel, ctx) ==
    LET required_fields == UnionOf(having \o r.order, LAMBDA e : e.req)
        projected == Projection(addAllAsFieldScalars(required_fields, projectors), rel)
    IN  IF having \o r.order = <<>> THEN projected
        ELSE Projection(identityProjectorsFor(projectors), lowerOrder(r, lowerWhere(having, projected, ctx), ctx))

\* GROUP BY: the keys are computed in a projection, and grouped behind it.
lowerHaving(r, fields, out, ctx) ==
    InOrder(r.having, out.rel, LAMBDA e, q : extractAggregates(e, q, fields, ctx))
groupOutput(r, group_keys, out, having, ctx) ==
    LET aggregates == out.a \o having.a IN
    lowerSelectOutput(out.s, having.s, r,
        Relation(<<"Group">>, <<having.rel>>, group_keys, aggregates, Ids(aggregates) \o Ids(group_keys)), ctx)
groupBy(r, keys, fields, out, ctx) ==
    groupOutput(r, identityProjectorsFor(keys.s), out, lowerHaving(r, fields, out, ctx), ctx)
groupPrepared(r, keys, prepared, ctx) ==
    groupBy(r, keys, Range(prepared.schema),
            lowerProjectors(r.proj, Range(Ids(keys.s)), prepared, Range(prepared.schema), ctx), ctx)
prepareGroup(r, keys, ctx) ==
    groupPrepared(r, keys,
        Verify(keys.a = <<>>, Projection(addAllAsFieldScalars(Range(keys.rel.schema), keys.s), keys.rel)), ctx)
lowerGroupedSelect(r, rel, ctx) == prepareGroup(r, lowerProjectors(r.group, {}, rel, Range(rel.schema), ctx), ctx)

aggregateOrRows(r, out, ctx) ==
    LET aggregated == r.v[3]
        source == IF aggregated THEN Relation(<<"Aggregate">>, <<out.rel>>, <<>>, out.a, Ids(out.a)) ELSE out.rel
    IN  lowerSelectOutput(out.s, <<>>, r,
            Verify(IF aggregated THEN r.order = <<>> /\ out.a # <<>> ELSE out.a = <<>>, source), ctx)
lowerUngroupedSelect(r, source_fields, rel, ctx) ==
    aggregateOrRows(r, lowerProjectors(r.proj, source_fields, rel, Range(rel.schema), ctx), ctx)

limited(r, rel) == IF r.limit = <<>> THEN rel ELSE Relation(<<"Limit", r.limit[1]>>, <<rel>>, <<>>, <<>>, rel.schema)
selectFrom(r, source, kept, ctx) ==
    limited(r, IF r.group # <<>> THEN lowerGroupedSelect(r, kept, ctx)
               ELSE lowerUngroupedSelect(r, Range(source.schema), kept, ctx))
lowerSelect(r, source, ctx) == selectFrom(r, source, lowerWhere(r.where, source, ctx), ctx)

\* An IN in a key adds a mark to its side, which is projected away behind the join.
Join(output_schema, left, right) ==
    LET schema == left.rel.schema \o right.rel.schema
        joined == Relation(<<"LeftJoin">>, <<Verify(left.a = <<>>, left.rel), Verify(right.a = <<>>, right.rel)>>,
                           Map(left.s \o right.s, Expr), <<>>, schema)
    IN  IF schema = output_schema THEN joined ELSE Projection(Map(output_schema, Forward), joined)
lowerLeftJoin(r, src, ctx) ==
    LET key(i) == lowerExpr(r.where[1].args[i], src[i], Range(src[i].schema), ctx)
    IN  Join(src[1].schema \o src[2].schema, key(1), key(2))

lowerAlias(alias, rel) ==
    Projection(Map(rel.schema, LAMBDA f : [id |-> Aliased(alias, f), e |-> FieldScalar(f, f.type)]), rel)
lowerAdhoc(r) == Relation(<<"Values", r.v[2], r.v[3]>>, <<>>, <<>>, <<>>, <<r.v[3]>>)
\* Both inputs of a union have the same schema.  A key is lowered on no relation of
\* the union: an IN in it adds its mark to the slot, and there has to be one.
unionBy(r, src, keys) ==
    [out |-> Verify(src[1].schema = src[2].schema /\ keys.a = <<>> /\ ~Panics(keys.rel),
                    Relation(r.v, src, Map(keys.s, Expr), <<>>, src[1].schema)),
     slot |-> keys.rel]
lowerUnion(r, src, slot, ctx) == unionBy(r, src, lowerExprs(r.order, slot, Range(src[1].schema), ctx))

\* A relation other than a union, whose sources lowered to src.
lowerRelationNode(r, src, ctx) ==
    LET Leaf(v) == Relation(v, <<>>, <<>>, <<>>, SetToSeq(FieldsIn(r.fs, ctx.need)))
        kind == r.v[1]
    IN
    CASE kind = "Select" -> lowerSelect(r, src[1], ctx)
      [] kind = "Adhoc" -> lowerAdhoc(r)
      [] kind = "Alias" -> lowerAlias(r.v[2], src[1])
      [] kind = "LeftJoin" -> lowerLeftJoin(r, src, ctx)
      [] kind \in {"File", "Stream"} -> Leaf(SubSeq(r.v, 1, 2))
      [] kind = "NamedRef" -> Relation(r.v, <<>>, <<>>, <<>>, ctx.named[r.v[2]])
      [] kind = "Materialize" -> Relation(r.v, src, <<>>, <<>>, src[1].schema)
lowerRelation(r, slot, ctx) ==
    LET src == lowerRelations(r.src, slot, ctx) IN
    IF r.v[1] \in {"UnionAll", "UnionAllSortedBy"} THEN lowerUnion(r, src.out, src.slot, ctx)
    ELSE [out |-> lowerRelationNode(r, src.out, ctx), slot |-> src.slot]

lowerStatement(acc, st, rel) ==
    [out |-> Append(acc.out, [name |-> st.name, rel |-> rel]),
     ctx |-> IF st.name = "" THEN acc.ctx ELSE [acc.ctx EXCEPT !.named = (st.name :> rel.schema) @@ @]]
lowerToIR(bound) ==
    FoldLeft(LAMBDA acc, st : lowerStatement(acc, st, lowerRelation(st.rel, NoRelation, acc.ctx).out),
             [out |-> <<>>, ctx |-> [need |-> bound.need, named |-> <<>>]], bound.statements).out
===============================================================================
