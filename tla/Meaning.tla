------------------------------ MODULE Meaning ------------------------------
(***************************************************************************)
(* What a query means: its solutions over the whole graph, as a bag of     *)
(* bindings, without servers, slices, plans or sub-queries.                *)
(***************************************************************************)
EXTENDS Query

\* What a pattern may match, from its subject to its object.  A pattern of
\* a plan may start from the index vertex of a predicate.
Facts(p) ==
    IF p.predicate = PREDICATE_ID
    THEN {<<p.subject, PREDICATE_ID, IF p.direction = "in" THEN t[1] ELSE t[3]>> :
             t \in {t \in Triples : t[2] = p.subject}}
    ELSE {IF p.direction = "out" THEN t ELSE <<t[3], t[2], t[1]>> : t \in Triples}

\* The bindings that extend b to a match of pattern p.
Extensions(p, b) ==
    LET terms == <<p.subject, p.predicate, p.object>>
        agrees(x, v) == (IsConst(x) => x = v) /\ (x \in DOMAIN b => b[x] = v)
        bound(x, v) == IF x < 0 THEN x :> v ELSE <<>>
    IN  {b @@ bound(terms[1], t[1]) @@ bound(terms[2], t[2]) @@ bound(terms[3], t[3]) :
            t \in {t \in Facts(p) : \A i \in 1 .. 3 : agrees(terms[i], t[i])}}

\* The variables of a group are bound to blank in bindings without them.
RECURSIVE Variables(_)
Variables(g) ==
    {x \in UNION {{p.subject, p.object} : p \in ToSet(g.patterns)} : x < 0}
        \cup UNION {Variables(h) : h \in ToSet(g.unions) \cup ToSet(g.optional)}

Pad(bs, vs) == MapRows(bs, LAMBDA b : {b @@ [x \in vs |-> BLANK_ID]})

RECURSIVE Solutions(_, _)
Solutions(g, bs) ==
    LET joined == FoldLeft(LAMBDA acc, p : MapRows(acc, LAMBDA b : Extensions(p, b)), bs, g.patterns)
        united == IF g.unions = <<>> THEN joined
                  ELSE FoldLeft(LAMBDA acc, h : acc (+) Pad(Solutions(h, joined),
                                    UNION {Variables(k) : k \in ToSet(g.unions)}),
                                EmptyBag, g.unions)
        left(acc, h) ==
            MapRows(acc, LAMBDA b : LET m == DOMAIN Solutions(h, SetToBag({b}))
                                    IN  IF m = {} THEN {b @@ [x \in Variables(h) |-> BLANK_ID]} ELSE m)
        opted == FoldLeft(left, united, g.optional)
    IN  MapRows(opted, LAMBDA b : IF \A f \in ToSet(g.filters) : general_filter(f, b) THEN {b} ELSE {})

\* ORDER BY: row a has to come before row b.  The first variable in which
\* their strings differ decides; from the last string to the first if it is
\* "descending".
Precedes(orders, a, b) ==
    LET key(r, i) == IF orders[i].descending THEN - Str(r[orders[i].id]) ELSE Str(r[orders[i].id])
        differ == {i \in DOMAIN orders : key(a, i) # key(b, i)}
    IN  differ # {} /\ key(a, Min(differ)) < key(b, Min(differ))

Answer(r) ==
    MapRows(Solutions(r.group, SetToBag({<<>>})), LAMBDA b : {Restrict(b, r.required)})

=============================================================================
