------------------------------- MODULE Loader -------------------------------
(***************************************************************************)
(* The bulk load of the constructor of DGraph (core/dgraph.hpp).  With     *)
(* RDMA, each server reads its share of the files with several threads;    *)
(* a thread collects the triples for each server in a buffer and writes a  *)
(* full buffer into the piece of that server's memory that belongs to the  *)
(* writing server (load_data).  Without RDMA, each server reads all files  *)
(* (load_data_from_allfiles).  Then every server aggregates its pieces     *)
(* into the lists of out-edges and in-edges of each of its engines.        *)
(*                                                                         *)
(* A flush is two steps: the reservation with fetch-and-add, and the RDMA  *)
(* write.  A thread's own buffers are private to it.                       *)
(***************************************************************************)
EXTENDS Integers, Sequences, FiniteSets, Functions, TLC

CONSTANTS
    NumServers, NumEngines,
    Files,          \* the files, in the order of their names: lists of triples
    BufSize,        \* triples that a buffer holds
    PieceSize       \* triples that a piece of the kvstore holds

ASSUME LoaderAssumption ==
    /\ {NumServers, NumEngines, BufSize, PieceSize} \subseteq Nat \ {0}
    /\ Files \in Seq(Seq(Nat \X Nat \X Nat))

Servers == 0 .. NumServers - 1
Engines == 0 .. NumEngines - 1
FileIds == 0 .. Len(Files) - 1

\* hash_mod(id, global_num_servers)
Owner(id) == id % NumServers

VARIABLES
    global_use_rdma,    \* which way the data is loaded
    unread,     \* unread[s]: the files that server s has still to read
    rest,       \* rest[s][t]: the triples left of the file that thread t reads
    sends,      \* sends[s][t]: the servers that the first of them is sent to
    buf,        \* buf[s][t][d]: the triples that thread t holds for server d
    resv,       \* resv[s][t]: the place that a flush has reserved, or -1
    num_triples,    \* num_triples[s][d]: triples written from s to d
    kvs,        \* kvs[d][i]: piece i of the kvstore of server d
    pc,         \* pc[s]: the stage of server s
    triple_spo, triple_ops      \* the lists of each engine

vars == <<global_use_rdma, unread, rest, sends, buf, resv, num_triples, kvs, pc, triple_spo, triple_ops>>

Pieces == IF global_use_rdma THEN Servers ELSE Engines

Init ==
    /\ global_use_rdma \in BOOLEAN
    /\ unread = [s \in Servers |-> {i \in FileIds : global_use_rdma => i % NumServers = s}]
    /\ rest = [s \in Servers |-> [t \in Engines |-> <<>>]]
    /\ sends = [s \in Servers |-> [t \in Engines |-> <<>>]]
    /\ buf = [s \in Servers |-> [t \in Engines |-> [d \in Servers |-> <<>>]]]
    /\ resv = [s \in Servers |-> [t \in Engines |-> -1]]
    /\ num_triples = [s \in Servers |-> [d \in Servers |-> 0]]
    /\ kvs = [d \in Servers |-> [i \in Pieces |-> [n |-> 0, cells |-> [c \in 0 .. PieceSize - 1 |-> <<>>]]]]
    /\ pc = [s \in Servers |-> "load"]
    /\ triple_spo = [s \in Servers |-> [t \in Engines |-> <<>>]]
    /\ triple_ops = [s \in Servers |-> [t \in Engines |-> <<>>]]

\* The triples ts from cell c on.
Place(cells, c, ts) ==
    [k \in DOMAIN cells |-> IF k - c + 1 \in DOMAIN ts THEN ts[k - c + 1] ELSE cells[k]]

-----------------------------------------------------------------------------
(* load_data                                                               *)

Free(s, t) == rest[s][t] = <<>>

\* The servers that get a triple.
Targets(x) ==
    IF Owner(x[1]) = Owner(x[3]) THEN <<Owner(x[1])>> ELSE <<Owner(x[1]), Owner(x[3])>>

SendsOf(ts) == IF ts = <<>> THEN <<>> ELSE Targets(ts[1])

OpenFile(s, t, i) ==
    /\ global_use_rdma /\ pc[s] = "load" /\ i \in unread[s] /\ Free(s, t)
    /\ unread' = [unread EXCEPT ![s] = @ \ {i}]
    /\ rest' = [rest EXCEPT ![s][t] = Files[i + 1]]
    /\ sends' = [sends EXCEPT ![s][t] = SendsOf(Files[i + 1])]
    /\ UNCHANGED <<buf, resv, num_triples, kvs, pc, triple_spo, triple_ops>>

\* send_triple when the buffer has room.
BufferTriple(s, t) ==
    LET d == sends[s][t][1]
        last == Len(sends[s][t]) = 1
    IN  /\ ~ Free(s, t) /\ Len(buf[s][t][d]) < BufSize
        /\ buf' = [buf EXCEPT ![s][t][d] = Append(@, rest[s][t][1])]
        /\ rest' = IF last THEN [rest EXCEPT ![s][t] = Tail(@)] ELSE rest
        /\ sends' = [sends EXCEPT ![s][t] = IF last THEN SendsOf(Tail(rest[s][t])) ELSE Tail(@)]
        /\ UNCHANGED <<unread, resv, num_triples, kvs, pc, triple_spo, triple_ops>>

\* Mutant of Reserve: the counter is read, and not advanced.
Reserve_NoAdd(s, t) ==
    LET d == sends[s][t][1]
    IN  /\ ~ Free(s, t) /\ Len(buf[s][t][d]) = BufSize /\ resv[s][t] = -1
        /\ num_triples[s][d] + BufSize <= PieceSize
        /\ resv' = [resv EXCEPT ![s][t] = num_triples[s][d]]
        /\ UNCHANGED <<unread, rest, sends, buf, num_triples, kvs, pc, triple_spo, triple_ops>>

\* send_triple when the buffer is full: flush_triples reserves the place,
\* which must be within the piece, ...
Reserve(s, t) ==
    LET d == sends[s][t][1]
    IN  /\ ~ Free(s, t) /\ Len(buf[s][t][d]) = BufSize /\ resv[s][t] = -1
        /\ num_triples[s][d] + BufSize <= PieceSize
        /\ resv' = [resv EXCEPT ![s][t] = num_triples[s][d]]
        /\ num_triples' = [num_triples EXCEPT ![s][d] = @ + BufSize]
        /\ UNCHANGED <<unread, rest, sends, buf, kvs, pc, triple_spo, triple_ops>>

\* ... and writes the triples, into the memory of server d.
WriteTriples(s, t) ==
    LET d == sends[s][t][1]
    IN  /\ resv[s][t] # -1
        /\ kvs' = [kvs EXCEPT ![d][s].cells = Place(@, resv[s][t], buf[s][t][d])]
        /\ buf' = [buf EXCEPT ![s][t][d] = <<>>]
        /\ resv' = [resv EXCEPT ![s][t] = -1]
        /\ UNCHANGED <<unread, rest, sends, num_triples, pc, triple_spo, triple_ops>>

\* The sequences of ss, one behind the other.
Concat(ss) ==
    LET upto[n \in 0 .. Len(ss)] == IF n = 0 THEN <<>> ELSE upto[n - 1] \o ss[n]
    IN  upto[Len(ss)]

\* After the parallel loop: what is left in the buffers is flushed, and the
\* numbers of triples are written in front of the pieces.
Left(s, d) == Concat([t \in 1 .. NumEngines |-> buf[s][t - 1][d]])

FlushRest(s) ==
    /\ global_use_rdma /\ pc[s] = "load" /\ unread[s] = {} /\ \A t \in Engines : Free(s, t)
    /\ \A d \in Servers : num_triples[s][d] + Len(Left(s, d)) <= PieceSize
    /\ kvs' = [d \in Servers |-> [kvs[d] EXCEPT ![s].cells = Place(@, num_triples[s][d], Left(s, d)),
                                                ![s].n = num_triples[s][d] + Len(Left(s, d))]]
    /\ num_triples' = [num_triples EXCEPT ![s] = [d \in Servers |-> @[d] + Len(Left(s, d))]]
    /\ buf' = [buf EXCEPT ![s] = [t \in Engines |-> [d \in Servers |-> <<>>]]]
    /\ pc' = [pc EXCEPT ![s] = "barrier"]
    /\ UNCHANGED <<unread, rest, sends, resv, triple_spo, triple_ops>>

-----------------------------------------------------------------------------
(* load_data_from_allfiles: each thread has a piece of its own.            *)

\* Mutant of LoadFile: a thread's second file overwrites its first.
LoadFile_Restart(s, t, i) ==
    LET mine == SelectSeq(Files[i + 1], LAMBDA x : Owner(x[1]) = s \/ Owner(x[3]) = s)
    IN  /\ ~ global_use_rdma /\ pc[s] = "load" /\ i \in unread[s]
        /\ unread' = [unread EXCEPT ![s] = @ \ {i}]
        /\ kvs' = [kvs EXCEPT ![s][t] = [n |-> Len(mine), cells |-> Place(@.cells, 0, mine)]]
        /\ UNCHANGED <<rest, sends, buf, resv, num_triples, pc, triple_spo, triple_ops>>

LoadFile(s, t, i) ==
    LET mine == SelectSeq(Files[i + 1], LAMBDA x : Owner(x[1]) = s \/ Owner(x[3]) = s)
        n == kvs[s][t].n
    IN  /\ ~ global_use_rdma /\ pc[s] = "load" /\ i \in unread[s]
        /\ n + Len(mine) <= PieceSize
        /\ unread' = [unread EXCEPT ![s] = @ \ {i}]
        /\ kvs' = [kvs EXCEPT ![s][t] = [n |-> n + Len(mine), cells |-> Place(@.cells, n, mine)]]
        /\ UNCHANGED <<rest, sends, buf, resv, num_triples, pc, triple_spo, triple_ops>>

-----------------------------------------------------------------------------
(* aggregate_data                                                          *)

\* dedup_triples drops a triple that equals the one before it.
dedup_triples(ts) ==
    LET kept == {i \in DOMAIN ts : i = 1 \/ ts[i] # ts[i - 1]}
        nth(k) == CHOOSE i \in kept : Cardinality({j \in kept : j <= i}) = k
    IN  [k \in 1 .. Cardinality(kept) |-> ts[nth(k)]]

Before(a, b) == a[1] < b[1] \/ (a[1] = b[1] /\ (a[2] < b[2] \/ (a[2] = b[2] /\ a[3] < b[3])))
triple_sort_by_spo(x, y) == Before(x, y)
triple_sort_by_ops(x, y) == Before(<<x[3], x[2], x[1]>>, <<y[3], y[2], y[1]>>)

\* All triples in the pieces of server s, piece by piece.
Scan(s) == Concat([i \in 1 .. Cardinality(Pieces) |->
                      [c \in 1 .. kvs[s][i - 1].n |-> kvs[s][i - 1].cells[c - 1]]])

OutEdges(s, t, ts) == SelectSeq(ts, LAMBDA x : Owner(x[1]) = s /\ x[1] % NumEngines = t)
InEdges(s, t, ts) == SelectSeq(ts, LAMBDA x : Owner(x[3]) = s /\ x[3] % NumEngines = t)

\* Mutant of Arrived: a server does not wait for the others.
Arrived_Alone(s) == pc[s] = "barrier" \/ (~ global_use_rdma /\ unread[s] = {})

\* The barrier of load_data; load_data_from_allfiles has none.
Arrived(s) ==
    IF global_use_rdma THEN \A d \in Servers : pc[d] # "load" ELSE unread[s] = {}

\* The two lists are sorted and each call of dedup_triples gets the other
\* list: the in-edges before they are sorted, the out-edges afterwards.
aggregate_data(s) ==
    /\ pc[s] # "done" /\ Arrived(s)
    /\ triple_spo' = [triple_spo EXCEPT ![s] = [t \in Engines |->
                         dedup_triples(SortSeq(OutEdges(s, t, Scan(s)), triple_sort_by_spo))]]
    /\ triple_ops' = [triple_ops EXCEPT ![s] = [t \in Engines |->
                         SortSeq(dedup_triples(InEdges(s, t, Scan(s))), triple_sort_by_ops)]]
    /\ pc' = [pc EXCEPT ![s] = "done"]
    /\ UNCHANGED <<unread, rest, sends, buf, resv, num_triples, kvs>>

Done == \A s \in Servers : pc[s] = "done"
Finished == Done /\ UNCHANGED vars

ServerStep(s) ==
    \/ \E t \in Engines :
          \/ BufferTriple(s, t) \/ Reserve(s, t) \/ WriteTriples(s, t)
          \/ \E i \in unread[s] : OpenFile(s, t, i) \/ LoadFile(s, t, i)
    \/ FlushRest(s) \/ aggregate_data(s)

Next ==
    \/ (\E s \in Servers : ServerStep(s)) /\ UNCHANGED global_use_rdma
    \/ Finished

Spec == Init /\ [][Next]_vars

-----------------------------------------------------------------------------
(* Properties.                                                             *)

AllTriples == UNION {Range(Files[i]) : i \in DOMAIN Files}

\* Two flushes of a server never write the same place: the threads of one
\* server reserve disjoint ranges of a piece.
FlushesDisjoint ==
    \A s \in Servers : \A t, u \in Engines :
        t # u /\ resv[s][t] # -1 /\ resv[s][u] # -1 /\ sends[s][t][1] = sends[s][u][1] =>
            resv[s][t] + BufSize <= resv[s][u] \/ resv[s][u] + BufSize <= resv[s][t]

\* Every engine gets exactly the triples whose subject is its own, sorted
\* and each once, however the files were read and sent.
OutEdgesExact ==
    \A s \in Servers, t \in Engines : pc[s] = "done" =>
        LET ts == triple_spo[s][t]
        IN  /\ Range(ts) = {x \in AllTriples : Owner(x[1]) = s /\ x[1] % NumEngines = t}
            /\ \A i, j \in DOMAIN ts : i < j => triple_sort_by_spo(ts[i], ts[j])

Copies(ts, x) == Cardinality({i \in DOMAIN ts : ts[i] = x})

\* What the constructor says of all triples ("aggregates, sorts and dedups"):
\* every engine gets exactly the triples whose object is its own, sorted and
\* each once.  It does not hold: aggregate_data deduplicates the in-edges
\* before it sorts them.
InEdgesExact ==
    \A s \in Servers, t \in Engines : pc[s] = "done" =>
        LET ts == triple_ops[s][t]
        IN  /\ Range(ts) = {x \in AllTriples : Owner(x[3]) = s /\ x[3] % NumEngines = t}
            /\ \A i, j \in DOMAIN ts : i < j => triple_sort_by_ops(ts[i], ts[j])

\* What holds of the in-edges in spite of that: every engine gets exactly the
\* triples whose object is its own, sorted, and a triple no more often than
\* the files have it, so that reading and sending add no copies of their own.
InEdgesComplete ==
    \A s \in Servers, t \in Engines : pc[s] = "done" =>
        LET ts == triple_ops[s][t]
        IN  /\ Range(ts) = {x \in AllTriples : Owner(x[3]) = s /\ x[3] % NumEngines = t}
            /\ \A i, j \in DOMAIN ts : i < j => ~ triple_sort_by_ops(ts[j], ts[i])
            /\ \A x \in Range(ts) : Copies(ts, x) <= Copies(Concat(Files), x)

=============================================================================
