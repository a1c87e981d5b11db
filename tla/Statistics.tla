----------------------------- MODULE Statistics -----------------------------
(***************************************************************************)
(* The statistics of the query planner (core/data_statistic.hpp and        *)
(* generate_statistic of core/gstore.hpp): each server counts the keys of  *)
(* its store when Wukong starts, the master sums the counts up and sends   *)
(* the sums to all servers.                                                *)
(*                                                                         *)
(* Every slot of the header region whose predicate is not PREDICATE_ID is  *)
(* counted, the index vertices (vertex 0) included.                        *)
(***************************************************************************)
EXTENDS Query

VARIABLES
    stage,      \* stage[s]: how far server s is with gather_stat
    mailbox,    \* mailbox[s]: the messages for thread 0 of server s
    parts,      \* the parts that the master has received
    statistic   \* statistic[s]: the global counts on server s

statVars == <<stage, mailbox, parts, statistic>>

Versatile == global.versatile
Dirs == {"in", "out"}
Pids == {x[2] : x \in Triples} \cup {x[3] : x \in {y \in Triples : y[2] = TYPE_ID}}
Local(s) == {v \in {x[1] : x \in Triples} \cup {x[3] : x \in Triples} : v >= FIRST_VID /\ hash_mod(v) = s}

-----------------------------------------------------------------------------
(* What one server counts.                                                 *)

\* The values of a key; index (*3) and (*4) exist in the VERSATILE build.
Values(s, key) ==
    CASE key[1] # 0 -> Edges(key[1], key[2], key[3])
      [] key[1] = 0 /\ key[2] # TYPE_ID -> ToSet(IndexEdges(s, key[2], key[3]))
      [] key[1] = 0 /\ key[2] = TYPE_ID /\ Versatile ->
            IF key[3] = "in" THEN Local(s)
            ELSE UNION {Edges(v, TYPE_ID, "out") : v \in Local(s)}
      [] OTHER -> {}

Slots(s) == {key \in (Local(s) \cup {0}) \X Pids \X Dirs : Values(s, key) # {}}

\* Mutant of Predicates: the types of a vertex are not among its predicates.
Predicates_NoTypes(s, slots, v) == {<<key[2], key[3]>> : key \in {k \in slots : k[1] = v}}

\* id_to_predicate: the predicates of a vertex, and its types, by direction.
Predicates(s, slots, v) ==
    {<<key[2], key[3]>> : key \in {k \in slots : k[1] = v}}
        \cup (IF <<v, TYPE_ID, "out">> \in slots
              THEN {<<t, "out">> : t \in Values(s, <<v, TYPE_ID, "out">>)} ELSE {})

\* Pairs of predicates with their directions, the smaller predicate first.
Pairs == {x \in Pids \X Dirs \X Pids \X Dirs : x[1] < x[3]}

CountSlots(s, slots) ==
    LET with(p, d) == {key \in slots : key[2] = p /\ key[3] = d}
        typed(t) == {key \in with(TYPE_ID, "out") : t \in Values(s, key)}
        both(x) == {v \in Local(s) \cup {0} : {<<x[1], x[2]>>, <<x[3], x[4]>>} \subseteq Predicates(s, slots, v)}
    IN  [ptcount  |-> [p \in Pids |-> MapThenSumSet(LAMBDA key : Cardinality(Values(s, key)), with(p, "in"))],
         pocount  |-> [p \in Pids |-> Cardinality(with(p, "in"))],
         pscount  |-> [p \in Pids |-> Cardinality(with(p, "out")) + Cardinality(typed(p))],
         tyscount |-> [p \in Pids |-> Cardinality(typed(p))],
         ppcount  |-> [x \in Pairs |-> Cardinality(both(x))]]

generate_statistic(s) == CountSlots(s, Slots(s))

-----------------------------------------------------------------------------
(* gather_stat.                                                            *)

Plus(f, g) == [x \in DOMAIN f |-> f[x] + g[x]]

\* The sum of the parts that the master has received.
Merged(ps) ==
    FoldLeft(LAMBDA a, b : [n \in DOMAIN a |-> Plus(a[n], b[n])], Head(ps), Tail(ps))

\* For the type predicate, objects are the types and triples are counted by
\* them: its keys are not stored by object.
TypeCounts(st) ==
    [st EXCEPT !.pocount[TYPE_ID] = Cardinality({t \in Pids : st.tyscount[t] > 0}),
               !.ptcount[TYPE_ID] = MapThenSumSet(LAMBDA t : st.tyscount[t], Pids)]

StatInit ==
    /\ stage = [s \in Servers |-> "generate"]
    /\ mailbox = [s \in Servers |-> {}]
    /\ parts = <<>>
    /\ statistic = [s \in Servers |-> <<>>]

\* A server counts and sends its part to the master, itself included.
gather_stat(s) ==
    /\ stage[s] = "generate"
    /\ mailbox' = [mailbox EXCEPT ![0] = @ \cup {<<s, generate_statistic(s)>>}]
    /\ stage' = [stage EXCEPT ![s] = "gather"]
    /\ UNCHANGED <<parts, statistic>>

\* The master receives the parts in any order.  With the last one it sends
\* the sums to all machines.
ReceivePart ==
    \E m \in mailbox[0] :
        /\ stage[0] = "gather"
        /\ mailbox' = [mailbox EXCEPT ![0] = @ \ {m}]
        /\ parts' = Append(parts, m[2])
        /\ UNCHANGED <<stage, statistic>>

send_stat_to_all_machines ==
    /\ stage[0] = "gather" /\ Len(parts) = NumServers
    /\ LET st == TypeCounts(Merged(parts))
       IN  /\ statistic' = [statistic EXCEPT ![0] = st]
           /\ mailbox' = [s \in Servers |-> IF s = 0 THEN mailbox[0] ELSE mailbox[s] \cup {<<0, st>>}]
    /\ stage' = [stage EXCEPT ![0] = "ready"]
    /\ parts' = <<>>

ReceiveStat(s) ==
    \E m \in mailbox[s] :
        /\ s # 0 /\ stage[s] = "gather"
        /\ mailbox' = [mailbox EXCEPT ![s] = @ \ {m}]
        /\ statistic' = [statistic EXCEPT ![s] = m[2]]
        /\ stage' = [stage EXCEPT ![s] = "ready"]
        /\ UNCHANGED parts

StatNext ==
    \/ \E s \in Servers : gather_stat(s) \/ ReceiveStat(s)
    \/ ReceivePart \/ send_stat_to_all_machines

=============================================================================
