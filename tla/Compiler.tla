-------------------------------- MODULE Compiler --------------------------------
(* From a parsed program to the IR that is planned: bind, lower, and rounds of
   optimizer passes until one of them changes nothing or the limit is reached
   (src/cli/run.h).                                                            *)
EXTENDS SqlMeaning

CONSTANTS
    Programs,   \* the programs of the instance: sequences of statements
    Databases   \* what their files and streams may hold

VARIABLES
    program,    \* the parsed program
    stage,      \* "parsed", "bound", "optimize", "done", "rejected", "panic" or "raised"
    bound,      \* the bound program
    lowered,    \* the schemas of the statements as they were lowered
    meant,      \* the outcomes of the bound statements on each database
    ir,         \* the program in the IR
    pass,       \* the next pass of the round
    round,
    changes     \* opt::Context::changes_

vars == <<program, stage, bound, lowered, meant, ir, pass, round, changes>>

NoProgram == [ok |-> FALSE, need |-> {}, statements |-> <<>>]

Init ==
    /\ program \in Programs
    /\ stage = "parsed"
    /\ bound = NoProgram
    /\ lowered = <<>>
    /\ meant = <<>>
    /\ ir = <<>>
    /\ pass = 1 /\ round = 1 /\ changes = FALSE

Bind ==
    /\ stage = "parsed"
    /\ LET b == bind(program) IN
         /\ b.ok
         /\ bound' = b
    /\ stage' = "bound"
    /\ UNCHANGED <<program, lowered, meant, ir, pass, round, changes>>

Reject ==
    /\ stage = "parsed"
    /\ ~bind(program).ok
    /\ stage' = "rejected"
    /\ UNCHANGED <<program, bound, lowered, meant, ir, pass, round, changes>>

Lower ==
    /\ stage = "bound"
    /\ LET out == lowerToIR(bound) IN
         /\ stage' = IF AnyExpr(out, LAMBDA st : Panics(st.rel)) THEN "panic" ELSE "optimize"
         /\ ir' = out
         /\ lowered' = Map(out, LAMBDA st : st.rel.schema)
    /\ meant' = [db \in Databases |-> Statements(bound.statements, LAMBDA r, env : Meaning(r, env, db))]
    /\ UNCHANGED <<program, bound, pass, round, changes>>

\* A constant that cannot be computed raises in the pass that computes it.
RECURSIVE ScalarRaises(_), RelationRaises(_)
ScalarRaises(s) == s.v = <<"Value", Err>> \/ AnyExpr(s.args, ScalarRaises)
RelationRaises(r) ==
    \/ AnyExpr(r.src, RelationRaises)
    \/ AnyExpr(r.x, LAMBDA p : ScalarRaises(p.e))
    \/ AnyExpr(r.a, LAMBDA g : AnyExpr(g.args, ScalarRaises))

\* The flag says whether the last pass changed anything.
RunPass_LastOnly ==
    /\ stage = "optimize" /\ pass <= Len(PassOrder)
    /\ LET out == WalkProgram(PassOrder[pass], ir) IN
         /\ ir' = out.n
         /\ changes' = out.c
    /\ pass' = pass + 1
    /\ UNCHANGED <<program, bound, lowered, meant, round, stage>>

RunPass ==
    /\ stage = "optimize" /\ pass <= Len(PassOrder)
    /\ LET out == WalkProgram(PassOrder[pass], ir) IN
         /\ ir' = out.n
         /\ changes' = (changes \/ out.c)
         /\ stage' = IF AnyExpr(out.n, LAMBDA st : RelationRaises(st.rel)) THEN "raised" ELSE stage
    /\ pass' = pass + 1
    /\ UNCHANGED <<program, bound, lowered, meant, round>>

EndRound ==
    /\ stage = "optimize" /\ pass > Len(PassOrder)
    /\ IF changes /\ round < Passes
       THEN /\ pass' = 1 /\ round' = round + 1 /\ changes' = FALSE
            /\ UNCHANGED stage
       ELSE /\ stage' = "done"
            /\ UNCHANGED <<pass, round, changes>>
    /\ UNCHANGED <<program, bound, lowered, meant, ir>>

Next == Bind \/ Reject \/ Lower \/ RunPass \/ EndRound

Spec == Init /\ [][Next]_vars

-------------------------------------------------------------------------------
Compiled == stage \in {"optimize", "done"}
Restricted(outcomes, schema) ==
    {[o EXCEPT !.rows = Map(@, LAMBDA row : [f \in Range(schema) |-> row[f]])] : o \in outcomes}
Defined(outcomes) == \A o \in outcomes : o.ok

(* From lowering to the last pass, every statement keeps its columns and produces
   only what the bound program says it may: whatever a pass moves, folds, caches or
   removes, whatever the files hold. A statement whose meaning includes a failure
   (a verify of an executor) is not constrained, and only a program with such a
   statement is refused because a constant that is folded raises. *)
ResultsPreserved ==
    /\ Compiled => \A db \in Databases :
         LET made == Statements(ir, LAMBDA r, env : Outcomes(r, env, db)) IN
         \A i \in DOMAIN ir :
           /\ ir[i].rel.schema = lowered[i]
           /\ Defined(meant[db][i]) =>
                Restricted(made[i], lowered[i]) \subseteq Restricted(meant[db][i], lowered[i])
    /\ stage = "raised" => \E db \in Databases : \E i \in DOMAIN ir : ~Defined(meant[db][i])

\* The fields that the expressions of r may read, by the source they are evaluated on.
Readable(r, i) == Range(r.src[IF r.v[1] = "LeftJoin" THEN i ELSE 1].schema)
RECURSIVE WellFormedRelation(_)
WellFormedRelation(r) ==
    LET schema(i) == r.src[i].schema IN
    /\ AllExprs(r.src, WellFormedRelation)
    /\ IsInjective(r.schema)
    /\ \A i \in DOMAIN r.x : FieldsOf(r.x[i].e) \subseteq Readable(r, i)
    /\ \A i \in DOMAIN r.a : \A k \in DOMAIN r.a[i].args : FieldsOf(r.a[i].args[k]) \subseteq Range(schema(1))
    /\ CASE r.v[1] = "Projection" -> r.schema = Ids(r.x)
         [] r.v[1] \in {"Aggregate", "Group"} -> r.schema = Ids(r.a) \o Ids(r.x)
         [] r.v[1] \in {"Filter", "SemiJoin"} -> IsPrefix(r.schema, schema(1))
         [] r.v[1] \in {"Sort", "TopK", "Limit", "Materialize"} -> r.schema = schema(1)
         [] r.v[1] = "MarkJoin" -> r.schema = Append(schema(1), r.v[2])
         [] r.v[1] = "LeftJoin" -> r.schema = schema(1) \o schema(2)
         [] r.v[1] \in {"UnionAll", "UnionAllSortedBy"} -> \A i \in DOMAIN r.src : r.schema = schema(i)
         [] OTHER -> TRUE

(* In every IR the compiler holds, an expression reads only fields of the relation
   it is evaluated on and a relation's schema is the one its operator gives it: the
   builder resolves columns by position and a moved condition reads another column
   without notice. *)
WellFormed == Compiled => \A i \in DOMAIN ir : WellFormedRelation(ir[i].rel)

(* When the optimizer stops because a round reported no change, no pass would change
   the program any more: every rewrite reports itself, so that nothing which a late
   pass made possible is left undone. *)
NormalForm ==
    stage = "done" /\ ~changes => \A p \in Range(PassOrder) : WalkProgram(p, ir).n = ir
===============================================================================
