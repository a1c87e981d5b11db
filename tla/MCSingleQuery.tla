--------------------------- MODULE MCSingleQuery ---------------------------
(* Instances of SingleQuery: two servers with five vertices, the types 2   *)
(* and 5, the predicates 3 (p), 4 (q) and 6 (r).                           *)
EXTENDS SingleQuery

MCTriples ==
    {<<10, TYPE_ID, 2>>, <<12, TYPE_ID, 2>>, <<11, TYPE_ID, 5>>, <<13, TYPE_ID, 5>>,
     <<10, 3, 11>>, <<10, 3, 13>>, <<12, 3, 11>>, <<12, 3, 14>>,
     <<11, 4, 10>>, <<13, 4, 12>>, <<11, 4, 14>>, <<14, 6, 12>>}

MCStrings == 10 :> 3 @@ 11 :> 1 @@ 12 :> 5 @@ 13 :> 4 @@ 14 :> 2
MCIRIs == {3, 5, 1}
MCLiterals == {4, 2}

Pattern(s, p, o) == Step(s, p, "out", o)

\* x, y and z are the variables -1, -2 and -3.
Pool ==
    {Pattern(-1, TYPE_ID, 2), Pattern(-1, TYPE_ID, 5), Pattern(-2, TYPE_ID, 5),
     Pattern(-1, 3, -2), Pattern(-2, 4, -1), Pattern(-2, 4, -3), Pattern(-1, 6, -3),
     Pattern(10, 3, -2), Pattern(-1, 3, 11), Pattern(-2, 4, 14)}

\* Patterns that hang together, so that there is a plan.
VarsOf(p) == {x \in {p.subject, p.object} : x < 0}
Linked(ps) ==
    \A S \in SUBSET DOMAIN ps : S # {} /\ S # DOMAIN ps =>
        \E i \in S, j \in DOMAIN ps \ S : VarsOf(ps[i]) \cap VarsOf(ps[j]) # {}

GroupOf(ps) == [EmptyGroup EXCEPT !.patterns = ps]

Req(g, required, planner, m) ==
    [group |-> g, required |-> required, planner |-> planner, modifiers |-> m]

\* Everything that can be asked with up to three patterns.
Joins ==
    {Req(GroupOf(ps), UNION {VarsOf(p) : p \in ToSet(ps)}, TRUE, Plain) :
        ps \in {x \in UNION {[1 .. n -> Pool] : n \in 1 .. 3} : Linked(x)}}

\* ?x p ?y with everything that final_process does.
Pages ==
    {Req(GroupOf(<<Pattern(-1, 3, -2)>>), vs, TRUE,
         [distinct |-> distinct, orders |-> orders, offset |-> offset, limit |-> limit]) :
        vs \in {{-1}, {-2}, {-1, -2}}, distinct \in BOOLEAN, offset \in {0, 1, 5}, limit \in {-1, 0, 2},
        orders \in {<<>>, <<[id |-> -2, descending |-> TRUE]>>,
                    <<[id |-> -1, descending |-> FALSE], [id |-> -2, descending |-> FALSE]>>}}

Var(x) == [type |-> "Variable", valueArg |-> x]
Lit(v) == [type |-> "Literal", value |-> v]
Test(type, a, b) == [type |-> type, arg1 |-> a, arg2 |-> b]

\* ?x p ?y with filters of each kind.
Filters ==
    {Test(type, Var(-2), Lit(2)) : type \in
         {"Equal", "NotEqual", "Less", "LessOrEqual", "Greater", "GreaterOrEqual"}}
    \cup {Test("Builtin_bound", Var(-1), Lit(0)), Test("Builtin_isiri", Var(-2), Lit(0)),
          Test("Builtin_isliteral", Var(-2), Lit(0)), Test("Builtin_regex", Var(-2), Lit({1, 4})),
          Test("Greater", Var(-1), Var(-2))}

Filtered ==
    {Req([GroupOf(<<Pattern(-1, 3, -2)>>) EXCEPT !.filters = fs], {-1, -2}, TRUE, Plain) : fs \in
        {<<f>> : f \in Filters}
        \cup {<<Test(op, f, g)>> : op \in {"And", "Or"}, f, g \in Filters}}

\* Variable predicates, which the planner does not support.
Unplanned ==
    {Req(GroupOf(ps), UNION {VarsOf(p) : p \in ToSet(ps)}, FALSE, Plain) : ps \in
        {<<Pattern(10, -4, -2)>>, <<Pattern(10, -4, 11)>>,
         <<Step(12, -4, "in", -1), Pattern(-1, -3, -2)>>,
         <<Step(2, TYPE_ID, "in", -1), Pattern(-1, -4, -2)>>,
         <<Step(3, PREDICATE_ID, "out", -1), Pattern(-1, -4, 14)>>,
         <<Step(3, PREDICATE_ID, "out", -1), Pattern(-1, -4, -2), Pattern(-2, 3, -3)>>}}

\* A predicate (7) and a type (9) that the string server knows and no triple
\* has.
Unused ==
    {Req(GroupOf(ps), UNION {VarsOf(p) : p \in ToSet(ps)}, TRUE, Plain) : ps \in
        {<<Pattern(-1, 7, -2)>>, <<Pattern(10, 7, -2)>>, <<Pattern(-1, 7, 11)>>, <<Pattern(-1, TYPE_ID, 9)>>,
         <<Pattern(-1, 7, -2), Pattern(-2, 7, -3)>>, <<Pattern(-1, 3, -2), Pattern(-2, 7, -3)>>,
         <<Pattern(10, 3, -1), Pattern(-1, 7, -2)>>, <<Pattern(-1, 7, -2), Pattern(-1, TYPE_ID, 9)>>}}

MCRequests == Joins \cup Pages \cup Filtered \cup Unplanned \cup Unused

\* A proxy of the master or of the other server, in each build.
Setting(sid, versatile) ==
    [num_servers |-> 2, sid |-> sid, use_rdma |-> TRUE, rdma_threshold |-> 99, versatile |-> versatile]
MCSettings == {Setting(0, TRUE), Setting(1, FALSE)}
=============================================================================
