------------------------------ MODULE Planner ------------------------------
(***************************************************************************)
(* The query planner (core/planner.hpp): a depth-first search over the     *)
(* orders in which the patterns of a group can be executed, with a cost    *)
(* model over the statistics st.  It is one computation of a proxy, so it  *)
(* is modelled by operators: the record m is the planner's mutable state.  *)
(*                                                                         *)
(* Costs are exact ratios instead of doubles, with the value that is not   *)
(* a number: the costs of a predicate that no triple has are 0 / 0.        *)
(* Attribute patterns, which the planner moves behind the others, are left *)
(* out.                                                                    *)
(***************************************************************************)
EXTENDS Query

CONSTANT COST_THRESHOLD     \* 350 in the code, to be scaled with the graph

-----------------------------------------------------------------------------
(* Costs: <<n, d>> is n / d, and <<1, 0>> is the largest double.  <<0, 0>> *)
(* is not a number: a sum or product with it is not one, and no comparison *)
(* with it is true.                                                        *)

RECURSIVE Gcd(_, _)
Gcd(a, b) == IF b = 0 THEN a ELSE Gcd(b, a % b)

Reduced(n, d, g) == <<n \div g, d \div g>>
Ratio(n, d) == IF n = 0 /\ d = 0 THEN <<0, 0>> ELSE Reduced(n, d, Gcd(n, d))
Add(a, b) == Ratio(a[1] * b[2] + b[1] * a[2], a[2] * b[2])
Times(a, b) == Ratio(a[1] * b[1], a[2] * b[2])
Greater(a, b) == a[1] * b[2] > b[1] * a[2]

MAX_COST == <<1, 0>>

\* An entry of a map of counts; operator[] makes a missing one with 0.
Count(counts, x) == IF x \in DOMAIN counts THEN counts[x] ELSE 0

-----------------------------------------------------------------------------
(* Minimum_maintenance: the records that restrict a variable, in the order *)
(* of the search, with the most selective one at hand.  Records that are   *)
(* smaller than all before go on one stack, the others on the second one.  *)

NoRecords == [desc |-> <<>>, other |-> <<>>, order |-> <<>>]

push(ms, r) ==
    IF ms.desc = <<>> \/ Greater(Last(ms.desc).v, r.v)
    THEN [ms EXCEPT !.desc = Append(@, r), !.order = Append(@, "desc")]
    ELSE [ms EXCEPT !.other = Append(@, r), !.order = Append(@, "other")]

pop(ms) ==
    IF ms.order = <<>> THEN ms
    ELSE [[ms EXCEPT ![Last(ms.order)] = Front(@)] EXCEPT !.order = Front(@)]

top(ms) == Last(ms.desc)
empty(ms) == ms.desc = <<>>

-----------------------------------------------------------------------------
(* The search.                                                             *)

Record(p, d, v) == [p |-> p, d |-> d, v |-> v]

Selecting(m, x) == x \in DOMAIN m.min_select /\ ~ empty(m.min_select[x])

Pushed(m, x, r) ==
    [m EXCEPT !.min_select =
        (x :> push(IF x \in DOMAIN @ THEN @[x] ELSE NoRecords, r)) @@ @]

\* new_add_selectivity: what pattern t says about its variables, and the note
\* of which variables it touched.
new_add_selectivity(m, st, t) ==
    LET p == t.predicate
        s == t.subject
        o == t.object
        ps == Count(st.pscount, p)
        po == Count(st.pocount, p)
        noted(vs) == [m EXCEPT !.min_select_record = Append(@, vs)]
    IN  CASE s < 0 /\ o > 0 /\ p = TYPE_ID ->
                Pushed(noted(<<s>>), s, Record(o, "out", Ratio(Count(st.pscount, o), 1)))
          [] s < 0 /\ o > 0 /\ p # TYPE_ID -> Pushed(noted(<<s>>), s, Record(p, "out", Ratio(ps, po)))
          [] s > 0 /\ o < 0 -> Pushed(noted(<<o>>), o, Record(p, "in", Ratio(po, ps)))
          [] s < 0 /\ o < 0 ->
                Pushed(Pushed(noted(<<s, o>>), s, Record(p, "out", Ratio(ps, 1))), o, Record(p, "in", Ratio(po, 1)))
          [] OTHER -> noted(<<>>)

\* Mutant of unadd_selectivity: only the last variable is taken back.
unadd_selectivity_Last(m) ==
    LET vs == Last(m.min_select_record)
    IN  [m EXCEPT !.min_select = [x \in DOMAIN @ |-> IF vs # <<>> /\ x = Last(vs) THEN pop(@[x]) ELSE @[x]],
                  !.min_select_record = Front(@)]

unadd_selectivity(m) ==
    [m EXCEPT !.min_select = [x \in DOMAIN @ |->
                                 IF x \in ToSet(Last(m.min_select_record)) THEN pop(@[x]) ELSE @[x]],
              !.min_select_record = Front(@)]

\* The number of vertices that have both predicates, in their directions.
Correlation(st, r, p, d) ==
    Count(st.ppcount, IF r.p < p THEN <<r.p, r.d, p, d>> ELSE <<p, d, r.p, r.d>>)

\* com_prune: how many of the results before are left by predicate p.
com_prune(st, pre, r, p, d) ==
    IF r.p = p THEN pre
    ELSE Times(pre, Ratio(Correlation(st, r, p, d), IF r.d = "out" THEN Count(st.pscount, r.p) ELSE Count(st.pocount, r.p)))

\* com_prune finds out that the query is empty.
Contradicts(st, r, p, d) == r.p # p /\ Correlation(st, r, p, d) = 0

\* The ways to go on with a pattern, in the order in which they are tried.
Ways == <<"index_in", "index_out", "const_s", "const_o", "known_s", "known_o">>

Open(m, t, way) ==
    CASE way \in {"index_in", "index_out"} -> m.path = <<>> /\ t.subject < 0 /\ t.object < 0
      [] way = "const_s" -> m.path = <<>> /\ t.subject > 0
      [] way = "const_o" -> m.path = <<>> /\ t.subject <= 0 /\ t.object > 0
      [] way = "known_s" -> m.path # <<>> /\ Selecting(m, t.subject)
      [] way = "known_o" -> m.path # <<>> /\ Selecting(m, t.object)

Step(s, p, d, o) == [subject |-> s, predicate |-> p, direction |-> d, object |-> o]

\* Mutant of StepOf: a step from the object keeps the direction.
StepOf_SameDir(t, way) ==
    CASE way = "index_in" -> Step(t.predicate, PREDICATE_ID, "in", t.subject)
      [] way = "index_out" -> Step(t.predicate, PREDICATE_ID, "out", t.object)
      [] way \in {"const_s", "known_s"} -> t
      [] way \in {"const_o", "known_o"} -> Step(t.object, t.predicate, t.direction, t.subject)

\* The step of the plan that a way takes.
StepOf(t, way) ==
    CASE way = "index_in" -> Step(t.predicate, PREDICATE_ID, "in", t.subject)
      [] way = "index_out" -> Step(t.predicate, PREDICATE_ID, "out", t.object)
      [] way \in {"const_s", "known_s"} -> t
      [] way \in {"const_o", "known_o"} -> Step(t.object, t.predicate, "in", t.subject)

\* The predicate or type whose correlation a way looks at.
Pruning(t) == IF t.predicate = TYPE_ID /\ t.object > 0 THEN t.object ELSE t.predicate

\* What a step costs; pre is the number of results before it.
add_cost(m, st, t, way, pre) ==
    LET p == t.predicate
        pt == Count(st.ptcount, p)
        ps == Count(st.pscount, p)
        po == Count(st.pocount, p)
    IN  CASE way = "index_in" -> Ratio(ps, NumServers)
          [] way = "index_out" -> Ratio(po, NumServers)
          [] way = "const_s" -> Ratio(pt, ps)
          [] way = "const_o" -> IF p = TYPE_ID THEN Ratio(Count(st.pscount, t.object), 1) ELSE Ratio(pt, po)
          [] way = "known_s" ->
                LET left == com_prune(st, pre, top(m.min_select[t.subject]), Pruning(t), "out")
                IN  IF p = TYPE_ID /\ t.object > 0 THEN left
                    ELSE Times(Times(left, Ratio(pt, ps)), IF t.object >= 0 THEN Ratio(1, po) ELSE <<1, 1>>)
          [] way = "known_o" ->
                Times(Times(com_prune(st, pre, top(m.min_select[t.object]), p, "in"), Ratio(pt, po)),
                      IF t.subject >= 0 THEN Ratio(1, ps) ELSE <<1, 1>>)

FindsEmpty(m, st, t, way) ==
    \/ way = "known_s" /\ Contradicts(st, top(m.min_select[t.subject]), Pruning(t), "out")
    \/ way = "known_o" /\ Contradicts(st, top(m.min_select[t.object]), t.predicate, "in")

\* All patterns are in the path.  A cheap query that starts from a vertex is
\* good enough: the search ends (ctn).
Complete(m, cost) ==
    [m EXCEPT !.ctn = ~ (/\ m.min_cost = MAX_COST
                         /\ Greater(<<COST_THRESHOLD, 1>>, cost)
                         /\ m.path[1].subject >= FIRST_VID),
              !.min_cost = IF Greater(@, cost) THEN cost ELSE @,
              !.min_path = IF Greater(m.min_cost, cost) THEN m.path ELSE @]

\* The records that a way adds before the search goes on, and takes back.
\* An index vertex starts the records of its variable anew.
Selected(m, st, t, way) ==
    CASE way = "index_in" ->
             [m EXCEPT !.min_select = (t.subject :> push(NoRecords, Record(t.predicate, t.direction, Ratio(Count(st.pscount, t.predicate), 1)))) @@ @]
      [] way = "index_out" ->
             [m EXCEPT !.min_select = (t.object :> push(NoRecords, Record(t.predicate, "in", Ratio(Count(st.pocount, t.predicate), 1)))) @@ @]
      [] OTHER -> new_add_selectivity(m, st, t)

Unselected(m, t, way) ==
    CASE way = "index_in" -> [m EXCEPT !.min_select[t.subject] = pop(@)]
      [] way = "index_out" -> [m EXCEPT !.min_select[t.object] = pop(@)]
      [] OTHER -> unadd_selectivity(m)

RECURSIVE com_traverse(_, _, _, _, _)

\* After the rest of the search with the step: it is taken back.
Back(m, t, way) ==
    LET m1 == Unselected(m, t, way)
    IN  IF m1.ctn THEN [m1 EXCEPT !.path = Front(@), !.pruned = FALSE] ELSE m1

\* One way, unless it is already more expensive than the best path: then the
\* ways left of this pattern are skipped too.
Try(m, st, bits, i, way, cost, add) ==
    LET t == m.triples[i]
    IN  IF Greater(Add(cost, add), m.min_cost) THEN [m EXCEPT !.pruned = TRUE]
        ELSE Back(com_traverse(Selected([m EXCEPT !.path = Append(@, StepOf(t, way))], st, t, way), st,
                               IF way \in {"index_in", "index_out"} THEN bits ELSE bits \cup {i},
                               Add(cost, add), add),
                  t, way)

\* The ways of one pattern.  com_prune notes an empty query before the costs
\* are compared.
Pick(m, st, bits, i, cost, pre) ==
    FoldLeft(LAMBDA acc, way :
                 IF ~ acc.ctn \/ acc.pruned \/ ~ Open(acc, acc.triples[i], way) THEN acc
                 ELSE Try([acc EXCEPT !.is_empty = @ \/ FindsEmpty(acc, st, acc.triples[i], way)],
                          st, bits, i, way, cost, add_cost(acc, st, acc.triples[i], way, pre)),
             [m EXCEPT !.pruned = FALSE], Ways)

com_traverse(m, st, bits, cost, pre) ==
    IF bits = DOMAIN m.triples THEN Complete(m, cost)
    ELSE FoldLeft(LAMBDA acc, i : IF ~ acc.ctn \/ i \in bits THEN acc ELSE Pick(acc, st, bits, i, cost, pre),
                  m, [i \in DOMAIN m.triples |-> i])

\* The first pattern with a vertex of the graph is tried first.
Heuristic(ps) ==
    LET fixed == {i \in DOMAIN ps : ps[i].subject >= FIRST_VID \/ ps[i].object >= FIRST_VID}
    IN  IF fixed = {} THEN ps
        ELSE [ps EXCEPT ![1] = ps[Min(fixed)], ![Min(fixed)] = ps[1]]

Search(ps, st) ==
    com_traverse([triples |-> Heuristic(ps), path |-> <<>>, min_path |-> <<>>, min_cost |-> MAX_COST,
                  is_empty |-> FALSE, min_select |-> <<>>, min_select_record |-> <<>>,
                  ctn |-> TRUE, pruned |-> FALSE],
                 st, {}, <<0, 1>>, <<0, 1>>)

\* generate_for_patterns: whether to execute the query, and the patterns.
generate_for_patterns(m, ps) ==
    IF m.is_empty THEN [success |-> FALSE, patterns |-> ps] ELSE [success |-> TRUE, patterns |-> m.min_path]

\* generate_for_group: every union overwrites the success of what is before.
RECURSIVE generate_for_group(_, _)
generate_for_group(g, st) ==
    LET main == IF g.patterns = <<>> THEN [success |-> TRUE, patterns |-> <<>>]
                ELSE generate_for_patterns(Search(g.patterns, st), g.patterns)
        unions == [i \in DOMAIN g.unions |-> generate_for_group(g.unions[i], st)]
    IN  [success |-> IF unions = <<>> THEN main.success ELSE Last(unions).success,
         group |-> [g EXCEPT !.patterns = main.patterns,
                             !.unions = [i \in DOMAIN unions |-> unions[i].group]]]

=============================================================================
