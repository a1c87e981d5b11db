------------------------------- MODULE Query -------------------------------
(***************************************************************************)
(* SPARQL queries as the engines see them (core/query.hpp) and the steps   *)
(* an engine performs on one query without talking to anybody: the triple  *)
(* pattern executors of core/engine.hpp, the division of a query into      *)
(* sub-queries and the merging of their results.                           *)
(*                                                                         *)
(* IDs are integers as in the code: a variable is negative, 0 and 1 are    *)
(* PREDICATE_ID and TYPE_ID, those below FIRST_VID are predicates and      *)
(* types (is_tpid), everything else is a vertex.                           *)
(* A result table is a bag of rows; a row binds the variables of the       *)
(* table's columns and carries its flag in optional_matched_rows.  The     *)
(* order of rows is not kept: it depends on the order of the replies.      *)
(* Patterns with an unknown predicate need the build option VERSATILE,     *)
(* which is one of the settings.  DISTINCT, ORDER BY, OFFSET and LIMIT are in the  *)
(* module Results; attributes are left out.                                *)
(***************************************************************************)
EXTENDS Integers, Sequences, SequencesExt, FiniteSets, FiniteSetsExt, Functions, Bags, TLC

CONSTANTS
    Triples,        \* the edges <<subject, predicate, object>> of the graph
    Strings,        \* id2str: the rank of each ID's string, by the order of strings
    IRIs,           \* the ranks of the strings that are IRIs
    Literals,       \* the ranks of the strings that are literals
    Settings        \* the settings and workloads to look at: records

VARIABLE
    global          \* the ones of this behaviour, fixed when it starts

NumServers == global.num_servers
UseRdma == global.use_rdma
RdmaThreshold == global.rdma_threshold

\* hash_mod takes an unsigned 64-bit number: for a negative ID it agrees
\* with % when the number of servers is a power of two.
ASSUME QueryAssumption ==
    \A g \in Settings :
        /\ g.num_servers \in {1, 2, 4}
        /\ g.use_rdma \in BOOLEAN /\ g.versatile \in BOOLEAN
        /\ g.rdma_threshold \in Nat

Servers == 0 .. NumServers - 1

TYPE_ID == 1
PREDICATE_ID == 0
FIRST_VID == 10     \* 1 << NBITS_IDX
is_tpid(id) == id > 1 /\ id < FIRST_VID

\* BLANK_ID is 2^32 - 1: no vertex has it, and it is 3 modulo 4.
BLANK_ID == 99

hash_mod(n) == n % NumServers

-----------------------------------------------------------------------------
(* The graph, as get_edges_global and get_index_edges_local return it.     *)

\* The predicates of a vertex are listed with its key PREDICATE_ID; TYPE is
\* only one of them for subjects.
Edges(v, p, d) ==
    LET out == {t \in Triples : t[1] = v}
        in == {t \in Triples : t[3] = v /\ t[2] # TYPE_ID}
        ts == IF d = "out" THEN out ELSE in
    IN  IF p = PREDICATE_ID THEN {t[2] : t \in ts}
        ELSE {IF d = "out" THEN t[3] ELSE t[1] : t \in {t \in ts : t[2] = p}}

\* The vertices that a type or a predicate lists.
Index(t, d) ==
    {x[1] : x \in {x \in Triples : d = "in" /\ (x[2] = t \/ (x[2] = TYPE_ID /\ x[3] = t))}}
        \cup {x[3] : x \in {x \in Triples : d = "out" /\ x[2] = t}}

IndexEdges(s, t, d) == SetToSortSeq({v \in Index(t, d) : hash_mod(v) = s}, <)

-----------------------------------------------------------------------------
(* Results.                                                                *)

EmptyResult == [vars |-> {}, rows |-> EmptyBag, row_num |-> 0, blind |-> FALSE]

\* A bag in which every row r of B is replaced by the rows F(r).
MapRows(B, F(_)) ==
    [x \in UNION {F(r) : r \in DOMAIN B} |->
        MapThenSumSet(LAMBDA r : B[r], {r \in DOMAIN B : x \in F(r)})]

Bind(r, var, v) == [r EXCEPT !.b = (var :> v) @@ @]

\* The flags in optional_matched_rows do not survive a merge.
Unflagged(rows) == MapRows(rows, LAMBDA r : {[r EXCEPT !.ok = TRUE]})

\* append_result: a blind part brings no rows, only their number.
append_result(whole, part) ==
    [vars    |-> part.vars,
     rows    |-> IF part.blind THEN whole.rows ELSE whole.rows (+) Unflagged(part.rows),
     row_num |-> whole.row_num + part.row_num,
     blind   |-> part.blind]

\* The rows of a result with a blank column for each of vars it misses.
Widen(rows, vars) ==
    MapRows(rows, LAMBDA r : {[r EXCEPT !.b = @ @@ [x \in vars |-> BLANK_ID]]})

merge_union(whole, part) ==
    LET vars == whole.vars \cup part.vars
    IN  [vars    |-> vars,
         rows    |-> Widen(whole.rows, vars) (+) Widen(Unflagged(part.rows), vars),
         row_num |-> whole.row_num + part.row_num,
         blind   |-> part.blind]

-----------------------------------------------------------------------------
(* Queries.                                                                *)

EmptyGroup ==
    [patterns |-> <<>>, unions |-> <<>>, optional |-> <<>>, filters |-> <<>>,
     parallel |-> FALSE, new_vars |-> {}]

NewQuery ==
    [id |-> -1, pid |-> -1, tid |-> 0, pg_type |-> "BASIC", state |-> "PATTERN",
     mt_factor |-> 1, priority |-> 0, pattern_step |-> 0, corun |-> FALSE,
     corun_step |-> 0, fetch_step |-> 0, union_done |-> FALSE, optional_step |-> 0,
     group |-> EmptyGroup, required |-> {}, result |-> EmptyResult]

\* Without it get_start ends with a failed assertion.
RECURSIVE has_start(_)
has_start(g) ==
    \/ g.patterns # <<>>
    \/ g.unions # <<>> /\ has_start(g.unions[1])
    \/ g.unions = <<>> /\ g.optional # <<>> /\ has_start(g.optional[1])

RECURSIVE get_start(_)
get_start(g) ==
    IF g.patterns # <<>> THEN g.patterns[1].subject
    ELSE IF g.unions # <<>> THEN get_start(g.unions[1])
    ELSE get_start(g.optional[1])

start_from_index(q) ==
    q.group.patterns # <<>> /\ is_tpid(q.group.patterns[1].subject)

get_pattern(q) == q.group.patterns[q.pattern_step + 1]
done_pattern(q) == q.pattern_step >= Len(q.group.patterns)
done_optional(q) == q.optional_step >= Len(q.group.optional)

\* variable_type
IsConst(x) == x >= 0
IsKnown(q, x) == x < 0 /\ x \in q.result.vars

get_row_num(q) == BagCardinality(q.result.rows)

shrink_query(q) ==
    [q EXCEPT !.group = [@ EXCEPT !.patterns = IF @ = <<>> THEN @ ELSE SubSeq(@, 1, 1),
                                  !.filters = <<>>, !.optional = <<>>, !.unions = <<>>],
              !.required = IF q.result.blind THEN {} ELSE @,
              !.result = IF q.result.blind THEN [@ EXCEPT !.rows = EmptyBag] ELSE @]

inherit_mt(q, r) == IF start_from_index(q) THEN r.mt_factor ELSE 1

inherit_union(r, i) ==
    LET q == [NewQuery EXCEPT !.pid = r.id, !.pg_type = "UNION",
                              !.group = r.group.unions[i],
                              !.result = [r.result EXCEPT !.blind = FALSE]]
    IN  [q EXCEPT !.mt_factor = inherit_mt(q, r)]

\* reorder_optional_patterns: the patterns that only restrict rows go first.
reorder_optional_patterns(ps, vars) ==
    LET known(x) == x < 0 /\ x \in vars
        restricts(p) == IF is_tpid(p.subject) THEN known(p.object)
                        ELSE \/ known(p.subject) /\ (known(p.object) \/ IsConst(p.object))
                             \/ IsConst(p.subject) /\ known(p.object)
        extends(p) == ~ restricts(p) /\ ~ is_tpid(p.subject) /\ known(p.subject)
        starts(p) == ~ restricts(p) /\ IsConst(p.subject) /\ (is_tpid(p.subject) \/ p.object < 0)
        rest(p) == ~ (restricts(p) \/ extends(p) \/ starts(p))
    IN  SelectSeq(ps, restricts) \o SelectSeq(ps, extends)
            \o SelectSeq(ps, starts) \o SelectSeq(ps, rest)

inherit_optional(r) ==
    LET g == r.group.optional[r.optional_step + 1]
        vars == r.result.vars
        named == UNION {{p.subject, p.object} : p \in ToSet(g.patterns)}
        q == [NewQuery EXCEPT !.pid = r.id, !.pg_type = "OPTIONAL",
                 !.group = [g EXCEPT !.new_vars = {x \in named : x < 0} \ vars,
                                     !.patterns = reorder_optional_patterns(@, vars)],
                 !.result = [r.result EXCEPT !.blind = FALSE,
                                                !.rows = Unflagged(@)]]
    IN  [q EXCEPT !.mt_factor = inherit_mt([q EXCEPT !.group = g], r)]

-----------------------------------------------------------------------------
(* The executors of one triple pattern.                                    *)

\* correct_optional_result: the variables of the OPTIONAL block become blank.
correct_optional_result(q, r) ==
    [r EXCEPT !.b = [x \in DOMAIN @ |->
        IF x \in q.group.new_vars THEN BLANK_ID ELSE @[x]]]

\* What the executors that bind no new variable do with a row.
Match(q, r, matches) ==
    CASE q.pg_type # "OPTIONAL" -> IF matches THEN {r} ELSE {}
      [] q.pg_type = "OPTIONAL" /\ (matches \/ ~ r.ok) -> {r}
      [] OTHER -> {[correct_optional_result(q, r) EXCEPT !.ok = FALSE]}

Restricted(q, Test(_)) ==
    [q EXCEPT !.result.rows = MapRows(@, LAMBDA r : Match(q, r, Test(r)))]

\* The table of an executor that starts a query from the values vs.
Started(q, var, vs) ==
    [q EXCEPT !.result.vars = {var},
              !.result.rows = SetToBag({[b |-> var :> v, ok |-> TRUE] : v \in vs})]

\* Mutant of Slice: the last participant does not take the remainder.
Slice_NoFixup(q, s) ==
    LET edges == IndexEdges(s, get_pattern(q).subject, get_pattern(q).direction)
        start == q.tid % q.mt_factor
        length == Len(edges) \div q.mt_factor
    IN  ToSet(SubSeq(edges, start * length + 1, (start + 1) * length))

\* The part of the local index that this sub-query takes.
Slice(q, s) ==
    LET edges == IndexEdges(s, get_pattern(q).subject, get_pattern(q).direction)
        start == q.tid % q.mt_factor
        length == Len(edges) \div q.mt_factor
        last == IF start = q.mt_factor - 1 THEN Len(edges) ELSE (start + 1) * length
    IN  ToSet(SubSeq(edges, start * length + 1, last))

index_to_known(q, s) ==
    Restricted(q, LAMBDA r : r.b[get_pattern(q).object] \in Slice(q, s))

index_to_unknown(q, s) == Started(q, get_pattern(q).object, Slice(q, s))

PatternEdges(q, v) == Edges(v, get_pattern(q).predicate, get_pattern(q).direction)

const_to_known(q) ==
    Restricted(q, LAMBDA r : r.b[get_pattern(q).object] \in PatternEdges(q, get_pattern(q).subject))

const_to_unknown(q) ==
    Started(q, get_pattern(q).object, PatternEdges(q, get_pattern(q).subject))

\* The rows of an OPTIONAL query that known_to_unknown does not look up.
Skipped(q, r) ==
    q.pg_type = "OPTIONAL" /\ (~ r.ok \/ r.b[get_pattern(q).subject] = BLANK_ID)

known_to_unknown(q) ==
    LET p == get_pattern(q)
        next(r) ==
            LET edges == PatternEdges(q, r.b[p.subject])
            IN  IF Skipped(q, r) \/ (q.pg_type = "OPTIONAL" /\ edges = {})
                THEN {Bind(r, p.object, BLANK_ID)}
                ELSE {Bind(r, p.object, v) : v \in edges}
    IN  [q EXCEPT !.result.rows = MapRows(@, next),
                  !.result.vars = @ \cup {p.object}]

known_to_known(q) ==
    Restricted(q, LAMBDA r : r.b[get_pattern(q).object] \in PatternEdges(q, r.b[get_pattern(q).subject]))

known_to_const(q) ==
    Restricted(q, LAMBDA r : get_pattern(q).object \in PatternEdges(q, r.b[get_pattern(q).subject]))

\* The predicates that lead from v to an edge the pattern asks for.
ByPredicate(q, v) ==
    LET p == get_pattern(q)
        pids == Edges(v, PREDICATE_ID, p.direction)
        edges == {<<pid, e>> : pid \in pids, e \in UNION {Edges(v, pid, p.direction) : pid \in pids}}
    IN  {x \in edges : x[2] \in Edges(v, x[1], p.direction)}

const_unknown_unknown(q) ==
    LET p == get_pattern(q)
    IN  [q EXCEPT !.result.vars = {p.predicate, p.object},
                  !.result.rows = SetToBag({[b |-> p.predicate :> x[1] @@ p.object :> x[2], ok |-> TRUE] :
                                               x \in ByPredicate(q, p.subject)})]

const_unknown_const(q) ==
    Started(q, get_pattern(q).predicate,
            {x[1] : x \in {x \in ByPredicate(q, get_pattern(q).subject) : x[2] = get_pattern(q).object}})

known_unknown_unknown(q) ==
    LET p == get_pattern(q)
    IN  [q EXCEPT !.result.vars = @ \cup {p.predicate, p.object},
                  !.result.rows = MapRows(@, LAMBDA r :
                      {Bind(Bind(r, p.predicate, x[1]), p.object, x[2]) : x \in ByPredicate(q, r.b[p.subject])})]

known_unknown_const(q) ==
    LET p == get_pattern(q)
    IN  [q EXCEPT !.result.vars = @ \cup {p.predicate},
                  !.result.rows = MapRows(@, LAMBDA r :
                      {Bind(r, p.predicate, x[1]) :
                          x \in {x \in ByPredicate(q, r.b[p.subject]) : x[2] = p.object}})]

FromIndex(q) == q.pattern_step = 0 /\ start_from_index(q)

\* The cases of execute_one_pattern for an unknown predicate.
unknown_predicate(q) ==
    LET p == get_pattern(q)
    IN  CASE IsConst(p.subject) /\ IsConst(p.object) -> const_unknown_const(q)
          [] IsConst(p.subject) /\ ~ IsConst(p.object) -> const_unknown_unknown(q)
          [] ~ IsConst(p.subject) /\ IsConst(p.object) -> known_unknown_const(q)
          [] OTHER -> known_unknown_unknown(q)

\* execute_one_pattern on server s.
execute_one_pattern(q, s) ==
    LET p == get_pattern(q)
        q1 == CASE FromIndex(q) /\ IsKnown(q, p.object) -> index_to_known(q, s)
                [] FromIndex(q) /\ ~ IsKnown(q, p.object) -> index_to_unknown(q, s)
                [] ~ FromIndex(q) /\ p.predicate < 0 -> unknown_predicate(q)
                [] OTHER ->
              CASE IsConst(p.subject) /\ IsKnown(q, p.object) -> const_to_known(q)
                [] IsConst(p.subject) /\ ~ IsKnown(q, p.object) -> const_to_unknown(q)
                [] IsKnown(q, p.subject) /\ IsConst(p.object) -> known_to_const(q)
                [] IsKnown(q, p.subject) /\ IsKnown(q, p.object) -> known_to_known(q)
                [] OTHER -> known_to_unknown(q)
    IN  [q1 EXCEPT !.pattern_step = @ + 1]

\* The vertices whose edges the executor asks get_edges_global for.
VerticesRead(q) ==
    LET p == get_pattern(q)
    IN  CASE FromIndex(q) -> {}
          [] ~ FromIndex(q) /\ IsConst(p.subject) -> {p.subject}
          [] OTHER -> {r.b[p.subject] : r \in
                          {r \in DOMAIN q.result.rows : p.predicate < 0 \/ IsKnown(q, p.object)
                               \/ IsConst(p.object) \/ ~ Skipped(q, r)}}

-----------------------------------------------------------------------------
(* Assertions of the executors: "" when they hold, else the one that fails. *)

PatternAssertion(q, s) ==
    LET p == get_pattern(q)
        unknown == ~ IsConst(p.subject) /\ ~ IsKnown(q, p.subject)
        versatile == p.predicate < 0
        constant == IsConst(p.subject) /\ IsConst(p.object)
        starts == IsConst(p.subject) /\ ~ IsKnown(q, p.object) /\ (versatile => constant)
        known == IsKnown(q, p.object) \/ IsKnown(q, p.predicate)
    IN  CASE FromIndex(q) -> IF ~ IsKnown(q, p.object) /\ q.result.vars # {} THEN "col_num" ELSE ""
          [] ~ FromIndex(q) /\ (\/ unknown \/ (constant /\ ~ versatile)
                                 \/ (versatile /\ (known \/ ~ global.versatile))) ->
                "unsupported pattern"
          [] ~ FromIndex(q) /\ starts /\ q.result.vars # {} -> "col_num"
          [] OTHER -> IF ~ UseRdma /\ \E v \in VerticesRead(q) : hash_mod(v) # s
                      THEN "global_use_rdma" ELSE ""

-----------------------------------------------------------------------------
(* Division into sub-queries.                                              *)

\* The condition of execute_patterns for a fork into all parts of an index.
ForksIndex(q) ==
    /\ q.pattern_step = 0 /\ ~ q.group.parallel
    /\ start_from_index(q) /\ NumServers * q.mt_factor > 1

\* The sub-query of an index query that engine thread tid executes.
IndexSubQuery(q, tid) ==
    [q EXCEPT !.id = -1, !.pid = q.id, !.tid = tid, !.group.parallel = TRUE]

need_fork_join(q) ==
    /\ NumServers # 1
    /\ ~ UseRdma \/ get_row_num(q) >= RdmaThreshold

\* The rows that generate_sub_query gives to server s.
SubResult(q, s) ==
    [q.result EXCEPT !.row_num = 0, !.rows =
        MapRows(@, LAMBDA r : IF hash_mod(r.b[get_pattern(q).subject]) = s THEN {r} ELSE {})]

generate_sub_query(q) ==
    [s \in Servers |->
        [NewQuery EXCEPT !.pid = q.id, !.priority = q.priority + 1, !.group = q.group,
                         !.pg_type = IF q.pg_type = "UNION" THEN "BASIC" ELSE q.pg_type,
                         !.pattern_step = q.pattern_step, !.corun_step = q.corun_step,
                         !.fetch_step = q.fetch_step, !.result = SubResult(q, s)]]

RECURSIVE RunPatterns(_, _)
RunPatterns(q, s) ==
    IF done_pattern(q) THEN q ELSE RunPatterns(execute_one_pattern(q, s), s)

\* The rows of q that join with the result part.
JoinedWith(q, part) ==
    LET joins(r) == \E x \in DOMAIN part.rows : x.b = Restrict(r.b, part.vars)
    IN  MapRows(q.result.rows, LAMBDA r : IF joins(r) THEN {r} ELSE {})

\* The co-run optimization: the patterns corun_step .. fetch_step - 1 are
\* run once for each value of their first variable, then joined.
do_corun(q, s) ==
    LET patterns == SubSeq(q.group.patterns, q.corun_step + 1, q.fetch_step)
        var == patterns[1].subject
        values == {r.b[var] : r \in DOMAIN q.result.rows}
        sub == [NewQuery EXCEPT !.group.patterns = patterns]
    IN  [q EXCEPT !.pattern_step = q.fetch_step,
                  !.result.rows = JoinedWith(q, RunPatterns(Started(sub, var, values), s).result)]

Corunned(q, s) == IF q.corun /\ q.pattern_step = q.corun_step THEN do_corun(q, s) ELSE q

\* The loop of execute_patterns on server s.  "next" says why it ends: all
\* patterns are done, a fork, or the assertion that fails.
RECURSIVE execute_patterns(_, _)

\* What the loop does after it executed a pattern.
AfterPattern(q, s) ==
    CASE done_pattern(q) ->
             [query |-> [q EXCEPT !.result.row_num = get_row_num(q)], next |-> "done"]
      [] ~ done_pattern(q) /\ NumServers # 1 /\ ~ IsKnown(q, get_pattern(q).subject) ->
             [query |-> q, next |-> "known_var"]
      [] ~ done_pattern(q) /\ need_fork_join(q) -> [query |-> q, next |-> "fork"]
      [] OTHER -> execute_patterns(q, s)

execute_patterns(q, s) ==
    IF PatternAssertion(q, s) # "" THEN [query |-> q, next |-> PatternAssertion(q, s)]
    ELSE AfterPattern(Corunned(execute_one_pattern(q, s), s), s)

-----------------------------------------------------------------------------
(* Reply_Map.                                                              *)

put_parent_request(m, q, cnt) ==
    (q.id :> [cnt |-> cnt, parent |-> q, reply |-> EmptyResult, step |-> 0]) @@ m

put_reply(m, r) ==
    [m EXCEPT ![r.pid] =
        [@ EXCEPT !.cnt = @ - 1,
                  !.reply = IF m[r.pid].parent.group.unions # <<>>
                            THEN merge_union(@, r.result) ELSE append_result(@, r.result),
                  !.step = IF m[r.pid].parent.state = "PATTERN" THEN r.pattern_step ELSE @]]

is_ready(m, pid) == m[pid].cnt = 0

get_merged_reply(m, pid) ==
    [m[pid].parent EXCEPT !.result = m[pid].reply,
                          !.pattern_step = IF m[pid].parent.state = "PATTERN"
                                           THEN m[pid].step ELSE @]

-----------------------------------------------------------------------------
(* The last stages of a query.                                             *)

\* The string of an ID, "" if it has none: its rank in the order of strings.
Str(id) == IF id \in DOMAIN Strings THEN Strings[id] ELSE 0

\* get_str of relational_filter: a variable's string or a literal of the query.
ArgStr(a, b) == IF a.type = "Variable" THEN Str(b[a.valueArg]) ELSE a.value

\* Whether a row satisfies a filter (the flags of is_satisfy only go down).
\* A regular expression is the set of the strings it matches.
RECURSIVE general_filter(_, _)
general_filter(f, b) ==
    CASE f.type = "And" -> general_filter(f.arg1, b) /\ general_filter(f.arg2, b)
      [] f.type = "Or" -> general_filter(f.arg1, b) \/ general_filter(f.arg2, b)
      [] f.type = "Equal" -> ArgStr(f.arg1, b) = ArgStr(f.arg2, b)
      [] f.type = "NotEqual" -> ArgStr(f.arg1, b) # ArgStr(f.arg2, b)
      [] f.type = "Less" -> ArgStr(f.arg1, b) < ArgStr(f.arg2, b)
      [] f.type = "LessOrEqual" -> ArgStr(f.arg1, b) <= ArgStr(f.arg2, b)
      [] f.type = "Greater" -> ArgStr(f.arg1, b) > ArgStr(f.arg2, b)
      [] f.type = "GreaterOrEqual" -> ArgStr(f.arg1, b) >= ArgStr(f.arg2, b)
      [] f.type = "Builtin_bound" -> b[f.arg1.valueArg] # BLANK_ID
      [] f.type = "Builtin_isiri" -> ArgStr(f.arg1, b) \in IRIs
      [] f.type = "Builtin_isliteral" -> ArgStr(f.arg1, b) \in Literals
      [] f.type = "Builtin_regex" -> ArgStr(f.arg1, b) \in f.arg2.value

filter(q) ==
    LET q1 == [q EXCEPT !.result.rows =
                  MapRows(@, LAMBDA r : IF \A i \in DOMAIN q.group.filters :
                                               general_filter(q.group.filters[i], r.b)
                                        THEN {r} ELSE {})]
    IN  [q1 EXCEPT !.result.row_num = get_row_num(q1)]

\* final_process of a query without DISTINCT, ORDER BY, OFFSET and LIMIT:
\* only the selected variables are kept.
final_process(q) ==
    IF q.result.blind \/ q.result.rows = EmptyBag THEN q
    ELSE [q EXCEPT !.result.rows = MapRows(@, LAMBDA r : {[r EXCEPT !.b = Restrict(@, q.required)]}),
                   !.result.row_num = get_row_num(q)]

=============================================================================
