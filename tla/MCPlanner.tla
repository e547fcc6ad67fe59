----------------------------- MODULE MCPlanner -----------------------------
(* Programs of at most MaxOps relations over three fields.                 *)
EXTENDS Planner, TLC

Rel(k, as, ow, ma, pr, ou) ==
  [kind |-> k, args |-> as, own |-> ow, match |-> ma, projs |-> pr, out |-> ou]

Inputs == 1..(MaxOps - 1)
One == {<<a>> : a \in Inputs}
Two == {<<a, b>> : a, b \in Inputs}

MCRelations ==
  {Rel("log", <<>>, {}, {}, (1 :> {}) @@ (2 :> {}), {}),
   Rel("values", <<>>, {}, {}, 3 :> {}, {})}
  \cup {Rel("filter", as, {1}, {}, <<>>, {}) : as \in One}
  \cup {Rel("materialize", as, {}, {}, <<>>, {}) : as \in One}
  \cup {Rel("projection", as, {}, {}, (1 :> {2}) @@ (2 :> {1}), {}) : as \in One}
  \cup {Rel("projection", as, {}, {}, 3 :> {1}, {}) : as \in One}
  \cup {Rel("aggregate", as, {}, {}, (3 :> {1}) @@ (2 :> {2}), {}) : as \in One}
  \cup {Rel("group", as, {1}, {}, 3 :> {2}, {1}) : as \in One}
  \cup {Rel("merge", as, {1}, {}, <<>>, {}) : as \in Two}
  \cup {Rel("union", as, {}, {}, <<>>, {}) : as \in Two}
  \cup {Rel("semijoin", as, {1}, {3}, <<>>, {}) : as \in Two}
  \cup {Rel("markjoin", as, {2}, {3}, <<>>, {3}) : as \in Two}
  \cup {Rel("leftjoin", as, {1}, {3}, <<>>, {}) : as \in Two}
=============================================================================
