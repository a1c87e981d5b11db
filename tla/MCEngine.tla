------------------------------ MODULE MCEngine ------------------------------
(* Instances of Engine: a graph of five vertices, spread over the servers   *)
(* by their parity, and queries of each kind.  The type is 2, p is 3, q is 4. *)
EXTENDS Engine

MCTriples ==
    {<<v, TYPE_ID, 2>> : v \in 10 .. 14} \cup
    {<<10, 3, 11>>, <<10, 3, 12>>, <<11, 3, 13>>, <<12, 4, 10>>,
     <<12, 4, 14>>, <<13, 4, 10>>, <<11, 4, 14>>, <<14, 3, 10>>}

\* Each vertex has a string of its own; all are IRIs.
MCStrings == [v \in 10 .. 14 |-> v]
MCIRIs == 10 .. 14
MCLiterals == {}

Pattern(s, p, o) == [subject |-> s, predicate |-> p, direction |-> "out", object |-> o]
Group(ps) == [EmptyGroup EXCEPT !.patterns = ps]

\* ?X is listed by index 2.
FromType == [Pattern(2, TYPE_ID, -1) EXCEPT !.direction = "in"]

Request(g, vs, mt) ==
    [NewQuery EXCEPT !.group = g, !.required = vs, !.mt_factor = mt]

\* 10 p ?X . ?X q ?Y . ?Y p 12
Light == Request(Group(<<Pattern(10, 3, -1), Pattern(-1, 4, -2), Pattern(-2, 3, 12)>>), {-2}, 1)

\* ?X type T . ?X p ?Y with the given multi-threading factor
Heavy(mt) == Request(Group(<<FromType, Pattern(-1, 3, -2)>>), {-1, -2}, mt)

\* ?X type T . { ?X p ?Y } UNION { ?X q ?Z } . OPTIONAL { ?X q ?W } .
Rich ==
    Request([Group(<<FromType>>) EXCEPT
                !.unions = <<Group(<<Pattern(-1, 3, -2)>>), Group(<<Pattern(-1, 4, -3)>>)>>,
                !.optional = <<Group(<<Pattern(-1, 4, -4)>>)>>],
            {-1, -2, -3, -4}, 1)

EqualTo(x, v) ==
    [type |-> "Equal", arg1 |-> [type |-> "Variable", valueArg |-> x],
                       arg2 |-> [type |-> "Literal", value |-> v]]

\* ?X type T . ?X p ?Y . FILTER(?Y = 11)
Filtered ==
    Request([Group(<<FromType, Pattern(-1, 3, -2)>>) EXCEPT !.filters = <<EqualTo(-2, 11)>>],
            {-1, -2}, 1)

\* ?X type T . ?X p ?Y . ?Y q ?X with co-running of the last pattern
Corun ==
    [Request(Group(<<FromType, Pattern(-1, 3, -2), Pattern(-2, 4, -1)>>), {-1, -2}, 1)
        EXCEPT !.corun = TRUE, !.corun_step = 2, !.fetch_step = 3]

\* The replies to all but the last of several runs of a query are blind.
Silent == [Heavy(1) EXCEPT !.result.blind = TRUE]

MCParsed ==
    [light |-> Light, heavy |-> Heavy(1), heavy2 |-> Heavy(2), rich |-> Rich,
     filtered |-> Filtered, corun |-> Corun, silent |-> Silent]

-----------------------------------------------------------------------------
(* Settings.  One proxy per server.                                        *)

\* run_single_query on two servers with one engine each.
Single ==
    [num_servers |-> 2, num_proxies |-> 1, num_engines |-> 1, use_rdma |-> TRUE, versatile |-> FALSE,
     rdma_threshold |-> 2, enable_workstealing |-> FALSE, capacity |-> 2,
     emulator |-> FALSE, parallel_factor |-> 1, requests |-> {}, max_requests |-> 1,
     qid_range |-> 20]

\* Nested forks without RDMA, over queues of one message, and query IDs that
\* are used again.
Forks ==
    [Single EXCEPT !.use_rdma = FALSE, !.capacity = 1, !.requests = {"light", "heavy"},
                   !.max_requests = 2, !.qid_range = 4]

\* UNION, OPTIONAL, FILTER, co-running and blind replies.
Groups == [Single EXCEPT !.requests = {"rich", "filtered", "corun", "silent"}]

\* An index in slices for two of the given number of engines.
Slices(engines) ==
    [Single EXCEPT !.num_servers = 1, !.num_engines = engines, !.capacity = 1,
                   !.requests = {"heavy2"}]

\* Rounds of the emulator on one server whose engines steal.
Rounds ==
    [Single EXCEPT !.num_servers = 1, !.num_engines = 2, !.rdma_threshold = 9,
                   !.enable_workstealing = TRUE, !.capacity = 1, !.emulator = TRUE,
                   !.parallel_factor = 2, !.requests = {"light", "heavy"}, !.max_requests = 3]

AllSettings == {Forks, Groups, Slices(4), Rounds}
ThreeEngines == {Slices(3)}
=============================================================================
