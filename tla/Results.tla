------------------------------ MODULE Results ------------------------------
(***************************************************************************)
(* The last stage of a query with DISTINCT, ORDER BY, OFFSET and LIMIT     *)
(* (final_process of core/engine.hpp), on the table of its rows.  Here the *)
(* order of the rows and of the columns matters: a table is a sequence of  *)
(* rows, a row is the function from the variables to their values.         *)
(***************************************************************************)
EXTENDS Query

\* The columns of a table, in the order in which the patterns add them.
Columns(patterns) ==
    FoldLeft(LAMBDA cols, p : cols \o SelectSeq(<<p.predicate, p.object>>,
                                                LAMBDA x : x < 0 /\ x \notin ToSet(cols)),
             <<>>, patterns)

\* ReduceCmp: rows by their columns from left to right.
ReduceCmp(cols, a, b) ==
    \E i \in DOMAIN cols : a[cols[i]] < b[cols[i]] /\ \A j \in 1 .. i - 1 : a[cols[j]] = b[cols[j]]

\* Mutant of Compare: the last variable decides, as without the break.
Compare_NoBreak(orders, a, b) ==
    LET o == Last(orders)
    IN  IF o.descending THEN Str(a[o.id]) > Str(b[o.id]) ELSE Str(a[o.id]) < Str(b[o.id])

\* Compare: rows by the strings of the ORDER BY variables.  Whether the string
\* of b is known is looked up with the ID of a.
Compare(orders, a, b) ==
    LET str_a(i) == Str(a[orders[i].id])
        str_b(i) == IF a[orders[i].id] \in DOMAIN Strings THEN Str(b[orders[i].id]) ELSE 0
    IN  \E i \in DOMAIN orders :
            /\ \A j \in 1 .. i - 1 : str_a(j) = str_b(j)
            /\ IF orders[i].descending THEN str_a(i) > str_b(i) ELSE str_a(i) < str_b(i)

\* DISTINCT: the table is sorted by all its columns, then of neighbours with
\* the same selected variables the first one stays.
Distinct(table, cols, required) ==
    FoldLeft(LAMBDA acc, r : IF acc # <<>> /\ Restrict(Last(acc), required) = Restrict(r, required)
                             THEN acc ELSE Append(acc, r),
             <<>>, SortSeq(table, LAMBDA a, b : ReduceCmp(cols, a, b)))

\* The tables that sort(Compare) may leave: rows that compare equal may be in
\* any order.
Ordered(table, orders) ==
    IF orders = <<>> THEN {table}
    ELSE {t \in SetToSeqs(ToSet(table)) :
             \A i, j \in DOMAIN t : i < j => ~ Compare(orders, t[j], t[i])}

Offset(table, offset) == IF offset > 0 THEN SubSeq(table, offset + 1, Len(table)) ELSE table

Limit(table, limit) == IF limit >= 0 THEN SubSeq(table, 1, Min({limit, Len(table)})) ELSE table

\* The answers that final_process may leave of a table; m has the modifiers.
Finals(table, cols, required, m) ==
    {[i \in DOMAIN t |-> Restrict(t[i], required)] : t \in
        {Limit(Offset(t, m.offset), m.limit) : t \in
            Ordered(IF m.distinct THEN Distinct(table, cols, required) ELSE table, m.orders)}}

=============================================================================
