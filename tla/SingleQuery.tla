---------------------------- MODULE SingleQuery ----------------------------
(***************************************************************************)
(* One query from the text to the answer, as run_single_query of           *)
(* core/proxy.hpp has it done: when the servers have gathered their        *)
(* statistics (Statistics), a proxy plans a parsed query (Planner), the    *)
(* engines execute it (Query), each server its part of an index, and the   *)
(* engine that has the whole result finishes it (Results).                 *)
(*                                                                         *)
(* The messages between the engines are the subject of the module Engine;  *)
(* here RDMA is on and no fork is needed, so each part is one step.        *)
(***************************************************************************)
EXTENDS Statistics, Planner, Results, Meaning

CONSTANT Requests       \* the parsed queries, with their modifiers

VARIABLES
    pc,         \* "idle", "planned", "skipped", "failed", "executed" or "done"
    request,    \* the query as parsed, with its modifiers
    search,     \* the planner's state after its search
    query,      \* the query as planned, with its result so far
    todo,       \* the servers that still have a part of it
    failed,     \* the assertion that failed, if any
    reply       \* the rows of the answer

queryVars == <<pc, request, search, query, todo, failed, reply>>
vars == <<global, statVars, queryVars>>

\* Modifiers of a query without any.
Plain == [distinct |-> FALSE, orders |-> <<>>, offset |-> 0, limit |-> -1]

Init ==
    /\ global \in Settings /\ StatInit
    /\ pc = "idle" /\ request = <<>> /\ search = <<>> /\ query = NewQuery
    /\ todo = {} /\ failed = "" /\ reply = <<>>

Gather == StatNext /\ UNCHANGED <<global, queryVars>>

\* The servers that execute a query: the owner of the vertex it starts from,
\* or all of them for an index vertex.
Owners(q) == IF start_from_index(q) THEN Servers ELSE {hash_mod(get_start(q.group))}

\* generate_plan; a query that the planner finds empty is not executed.  One
\* that it has found no path for has no pattern left, and the assertion of
\* get_start fails in send_request.
Plan(r, st) ==
    LET plan == generate_for_group(r.group, st)
        q == [NewQuery EXCEPT !.group = plan.group, !.required = r.required]
    IN  /\ search' = IF r.group.patterns = <<>> THEN <<>> ELSE Search(r.group.patterns, st)
        /\ query' = q
        /\ CASE ~ plan.success -> pc' = "skipped" /\ todo' = {} /\ UNCHANGED failed
             [] plan.success /\ has_start(q.group) -> pc' = "planned" /\ todo' = Owners(q) /\ UNCHANGED failed
             [] OTHER -> pc' = "failed" /\ todo' = {} /\ failed' = "get_start"

\* run_single_query on server sid, up to the request.  Without the planner the
\* patterns are executed as they are written.  Variable predicates are only
\* asked for in the build that supports them.
run_single_query(sid, r) ==
    /\ pc = "idle"
    /\ stage[sid] = "ready"
    /\ (\E p \in ToSet(r.group.patterns) : p.predicate < 0) => Versatile
    /\ request' = r
    /\ IF r.planner THEN Plan(r, statistic[sid])
       ELSE LET q == [NewQuery EXCEPT !.group = r.group, !.required = r.required]
            IN  /\ query' = q /\ pc' = "planned" /\ todo' = Owners(q)
                /\ UNCHANGED <<search, failed>>
    /\ UNCHANGED <<global, statVars, reply>>

\* Server s executes the patterns of its part; the reply is appended.
Execute(s) ==
    /\ pc = "planned" /\ s \in todo
    /\ LET e == execute_patterns([query EXCEPT !.result = EmptyResult], s)
       IN  /\ failed' = IF e.next = "done" THEN failed ELSE e.next
           /\ query' = [query EXCEPT !.result = append_result(@, e.query.result)]
    /\ todo' = todo \ {s}
    /\ pc' = IF todo' = {} THEN "executed" ELSE pc
    /\ UNCHANGED <<global, statVars, request, search, reply>>

\* The table of a result, whatever the order of the rows in it.
Tables(rows) == SetToSeqs({r.b : r \in DOMAIN rows})

\* FILTER and final_process.
Finish ==
    /\ pc = "executed" /\ failed = ""
    /\ LET q == IF query.group.filters # <<>> THEN filter(query) ELSE query
       IN  \E table \in IF request.modifiers = Plain THEN {SetToSeq({r.b : r \in DOMAIN q.result.rows})}
                        ELSE Tables(q.result.rows) :
               reply' \in Finals(table, Columns(q.group.patterns), q.required, request.modifiers)
    /\ pc' = "done"
    /\ UNCHANGED <<global, statVars, request, search, query, todo, failed>>

Done == pc \in {"done", "skipped", "failed"} /\ UNCHANGED vars

Next ==
    \/ Gather
    \/ \E r \in Requests : run_single_query(global.sid, r)
    \/ \E s \in Servers : Execute(s)
    \/ Finish \/ Done

Spec == Init /\ [][Next]_vars

-----------------------------------------------------------------------------
(* Properties.                                                             *)

\* The solutions of the request, FILTER apart.
Joined == Solutions([request.group EXCEPT !.filters = <<>>], SetToBag({<<>>}))

\* A pattern whose predicate no triple has.
Uncounted(p) == p.predicate > 0 /\ \A x \in Triples : x[2] # p.predicate

\* Every plan can be executed, with no assertion of the executors failing,
\* and its result holds every solution of the patterns exactly once: whatever
\* the order, the directions and the index vertices that the planner chose,
\* and whatever the division of the index among the servers.  A query has no
\* plan only if it has a predicate that no triple has: all its costs are 0 / 0.
PlanAnswers ==
    /\ failed # "" => failed = "get_start" /\ \E p \in ToSet(request.group.patterns) : Uncounted(p)
    /\ pc = "executed" => MapRows(query.result.rows, LAMBDA r : {r.b}) = Joined

\* The planner's shortcut for contradictory queries skips no query that has
\* a solution ("A shortcut for contradictory queries (e.g., empty result)").
ShortcutSound == pc = "skipped" => Joined = EmptyBag

\* The search leaves nothing behind: it ends with every record taken back,
\* although ways are given up half-way, and with a complete path, or with none
\* because of a predicate that no triple has.
SearchRestored ==
    search # <<>> =>
        /\ search.min_select_record = <<>>
        /\ \A x \in DOMAIN search.min_select : search.min_select[x] = NoRecords
        /\ search.ctn => search.path = <<>>
        /\ search.is_empty \/ search.min_path # <<>> \/ \E p \in ToSet(request.group.patterns) : Uncounted(p)

\* The answer is the page that OFFSET and LIMIT select of all solutions that
\* pass the filters, in the order of ORDER BY: no row of the page could be
\* replaced by one before or behind it.  DISTINCT loses no row, and leaves
\* none twice if the selected variables are the first columns of the table.
Page ==
    pc = "done" =>
        LET m == request.modifiers
            sols == DOMAIN Solutions(request.group, SetToBag({<<>>}))
            rows == {Restrict(b, request.required) : b \in sols}
            cols == Columns(query.group.patterns)
            prefix == \E n \in 0 .. Len(cols) : request.required = ToSet(SubSeq(cols, 1, n))
            total == IF m.distinct THEN Cardinality(rows) ELSE Cardinality(sols)
            length == Min({IF m.limit < 0 THEN total ELSE m.limit, Max({0, total - m.offset})})
            from(r) == {b \in sols : Restrict(b, request.required) = r}
        IN  /\ ToSet(reply) \subseteq rows
            /\ ~ m.distinct \/ prefix => Len(reply) = length
            /\ ~ m.distinct => \A i \in DOMAIN reply :
                  /\ Cardinality({j \in DOMAIN reply : reply[j] = reply[i]}) <= Cardinality(from(reply[i]))
                  /\ \E b \in from(reply[i]) :
                        /\ Cardinality({x \in sols : Precedes(m.orders, x, b)}) < m.offset + i
                        /\ m.offset + i <= Cardinality({x \in sols : ~ Precedes(m.orders, b, x)})
            /\ m.distinct /\ m.offset = 0 /\ m.limit < 0 => ToSet(reply) = rows
            /\ m.distinct /\ prefix => \A i, j \in DOMAIN reply : i # j => reply[i] # reply[j]

=============================================================================
