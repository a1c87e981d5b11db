------------------------------- MODULE Engine -------------------------------
(***************************************************************************)
(* The threads of all servers: engines (core/engine.hpp) that execute      *)
(* queries by fork and join, and proxies (core/proxy.hpp) that submit them *)
(* and collect the replies.  They exchange messages through the adaptor:   *)
(* for every receiving thread and every sending server one FIFO queue of   *)
(* limited capacity, which RingBuffer refines.  A send to a full queue     *)
(* fails and the sender stashes the message in its pending_msgs.           *)
(*                                                                         *)
(* A thread is a pair <<sid, tid>>; the proxies of a server have the       *)
(* lowest tids.  A handler (execute_sparql_query) first updates the state  *)
(* of its engine and then sends its messages one by one; "out" holds the   *)
(* ones it still has to send.  A failed ASSERT ends the process: its name  *)
(* goes to "failed" and the thread stops.                                  *)
(***************************************************************************)
EXTENDS Meaning

CONSTANT Parsed     \* Parsed[n]: the query named n, as the parser returns it

\* More settings, with the workload and the bounds.
NumProxies == global.num_proxies        \* per server
NumEngines == global.num_engines
Stealing == global.enable_workstealing
Capacity == global.capacity     \* messages a queue of the adaptor holds
Emulator == global.emulator     \* whether the proxies run run_query_emu, or
                                \* else run_single_query
ParallelFactor == global.parallel_factor    \* requests kept in flight
Requests == global.requests     \* the names of the queries that users submit
MaxRequests == global.max_requests  \* bound: requests submitted per proxy
QidRange == global.qid_range    \* after this many IDs a thread's qid overflows

ASSUME EngineAssumption ==
    \A g \in Settings :
        /\ g.num_proxies \in Nat \ {0} /\ g.num_engines \in Nat
        /\ g.num_engines >= g.num_proxies   \* ASSERT(range > 0) of the proxies
        /\ {g.capacity, g.parallel_factor, g.qid_range} \subseteq Nat \ {0}
        /\ g.enable_workstealing \in BOOLEAN /\ g.emulator \in BOOLEAN
        /\ g.max_requests \in Nat /\ g.requests \subseteq DOMAIN Parsed

NumThreads == NumProxies + NumEngines
Proxies == Servers \X (0 .. NumProxies - 1)
Engines == Servers \X (NumProxies .. NumThreads - 1)
Threads == Proxies \cup Engines

VARIABLES
    queue,      \* queue[s][t]: from server s to thread t
    pending,    \* pending_msgs
    out,        \* the messages the running handler still has to send
    qid,        \* coder: the IDs it gave out since the last overflow
    fast,       \* msg_fast_path
    runqueue,
    rmap,       \* rmap[e]: query ID -> [cnt, parent, reply, step]
    epc,        \* where run() is: at its "loop" head, in the "poll" of its
                \* queue, or about to look at its neighbor, after it found
                \* a task ("worked") or none ("idle")
    asked,      \* asked[p]: pid -> name, the requests in flight
    sent,       \* requests each proxy submitted
    ppc,        \* where each proxy is
    round,      \* requests left to send in this round of run_query_emu
    answers,    \* history: the replies taken by the proxies
    failed      \* the assertions that failed

vars == <<global, queue, pending, out, qid, fast, runqueue, rmap, epc, asked, sent, ppc,
          round, answers, failed>>
net == <<queue, pending, out>>
engineVars == <<fast, runqueue, rmap, epc>>
proxyVars == <<asked, sent, ppc, round, answers>>

-----------------------------------------------------------------------------
(* Coder: an ID tells which thread of which server made it.                *)

\* get_and_inc_qid: the ID, and the counter that is reset on overflow.
NextId(t) == NumThreads * t[1] + t[2] + qid[t] * NumServers * NumThreads
\* Mutant of IncQid: the counter is not increased.
IncQid_Stuck(t) == qid

IncQid(t) == [qid EXCEPT ![t] = (@ + 1) % QidRange]

sid_of(id) == (id % (NumServers * NumThreads)) \div NumThreads
tid_of(id) == id % NumThreads
Owner(id) == <<sid_of(id), tid_of(id)>>

Init ==
    /\ global \in Settings
    /\ queue = [s \in Servers |-> [t \in Threads |-> <<>>]]
    /\ pending = [t \in Threads |-> <<>>]
    /\ out = [t \in Threads |-> <<>>]
    /\ qid = [t \in Threads |-> 0]
    /\ fast = [e \in Engines |-> <<>>]
    /\ runqueue = [e \in Engines |-> <<>>]
    /\ rmap = [e \in Engines |-> <<>>]
    /\ epc = [e \in Engines |-> "loop"]
    /\ asked = [p \in Proxies |-> <<>>]
    /\ sent = [p \in Proxies |-> 0]
    /\ ppc = [p \in Proxies |-> "idle"]
    /\ round = [p \in Proxies |-> 0]
    /\ answers = {}
    /\ failed = {}

-----------------------------------------------------------------------------
(* Sending.                                                                *)

Letter(dst, m) == [dst |-> dst, msg |-> m]

\* adaptor->send of a message from server s succeeds.
Fits(q, s, dst) == Len(q[s][dst]) < Capacity

\* Mutant of send_request: a message that does not fit is dropped.
send_request_Drop(t) ==
    LET l == Head(out[t])
    IN  /\ out' = [out EXCEPT ![t] = Tail(@)]
        /\ IF Fits(queue, t[1], l.dst)
           THEN queue' = [queue EXCEPT ![t[1]][l.dst] = Append(@, l.msg)] /\ UNCHANGED pending
           ELSE UNCHANGED <<queue, pending>>

\* send_request: send the next message of the handler, or stash it.
send_request(t) ==
    LET l == Head(out[t])
    IN  /\ out' = [out EXCEPT ![t] = Tail(@)]
        /\ IF Fits(queue, t[1], l.dst)
           THEN queue' = [queue EXCEPT ![t[1]][l.dst] = Append(@, l.msg)] /\ UNCHANGED pending
           ELSE pending' = [pending EXCEPT ![t] = Append(@, l)] /\ UNCHANGED queue

\* Mutant of Swept: messages that still do not fit are forgotten.
Swept_Lossy(t) ==
    FoldLeft(LAMBDA acc, l :
                 IF Fits(acc.queue, t[1], l.dst)
                 THEN [acc EXCEPT !.queue[t[1]][l.dst] = Append(@, l.msg)]
                 ELSE acc,
             [queue |-> queue, left |-> <<>>], pending[t])

\* sweep_msgs: try all pending messages once, in order.
Swept(t) ==
    FoldLeft(LAMBDA acc, l :
                 IF Fits(acc.queue, t[1], l.dst)
                 THEN [acc EXCEPT !.queue[t[1]][l.dst] = Append(@, l.msg)]
                 ELSE [acc EXCEPT !.left = Append(@, l)],
             [queue |-> queue, left |-> <<>>], pending[t])

sweep_msgs(t) ==
    /\ queue' = Swept(t).queue
    /\ pending' = [pending EXCEPT ![t] = Swept(t).left]

-----------------------------------------------------------------------------
(* execute_sparql_query.  The operators below compute what the handler of  *)
(* thread e does with a query: which parent it puts into which reply map,  *)
(* what it sends and what it leaves on its own fast path.                  *)

Nothing == [put |-> "", parent |-> NewQuery, cnt |-> 0, sends |-> <<>>, fast |-> <<>>,
            failed |-> ""]

Fails(assertion) == [Nothing EXCEPT !.failed = assertion]

\* Sub-queries, given as pairs <<server, query>>, go to the same thread of
\* their server, and on the own server to the fast path.
Dispatch(e, put, parent, subs) ==
    LET own(x) == x[1] = e[1]
        other(x) == x[1] # e[1]
        letters == SelectSeq(subs, other)
        queries == SelectSeq(subs, own)
    IN  [put |-> put, parent |-> parent, cnt |-> Len(subs), failed |-> "",
         sends |-> [i \in DOMAIN letters |-> Letter(<<letters[i][1], e[2]>>, letters[i][2])],
         fast |-> [i \in DOMAIN queries |-> queries[i][2]]]

\* One sub-query for each server.
Fork(e, put, parent, q) ==
    LET subs == generate_sub_query(q)
    IN  Dispatch(e, put, parent, [i \in 1 .. NumServers |-> <<i - 1, subs[i - 1]>>])

\* The engine thread that takes part j of an index.
IndexThread(e, j) == NumProxies + ((e[2] + j + 1 - NumProxies) % NumEngines)

ForkIndex(e, q) ==
    LET part(i) == LET tid == IndexThread(e, (i - 1) % q.mt_factor)
                   IN  Letter(<<(i - 1) \div q.mt_factor, tid>>, IndexSubQuery(q, tid))
        n == NumServers * q.mt_factor
    IN  [put |-> "own", parent |-> q, cnt |-> n, sends |-> [i \in 1 .. n |-> part(i)],
         fast |-> <<>>, failed |-> ""]

Union(e, r) ==
    LET q == [r EXCEPT !.state = "UNION", !.union_done = TRUE]
        sub(i) == inherit_union(q, i)
    IN  Dispatch(e, "engine", q,
            [i \in DOMAIN q.group.unions |-> <<hash_mod(get_start(sub(i).group)), sub(i)>>])

\* The sub-query opt of an OPTIONAL block is divided like its parent would be.
ForkOptional(e, parent, opt) ==
    CASE NumServers # 1 /\ ~ IsKnown(opt, get_pattern(opt).subject) -> Fails("known_var")
      [] need_fork_join(opt) -> Fork(e, "own", parent, [opt EXCEPT !.id = parent.id])
      [] OTHER -> Dispatch(e, "engine", parent, << <<hash_mod(get_start(opt.group)), opt>> >>)

Optional(e, r) ==
    LET q == [r EXCEPT !.state = "OPTIONAL"]
    IN  ForkOptional(e, [q EXCEPT !.optional_step = @ + 1], inherit_optional(q))

QUERY_FROM_PROXY(tid) == tid < NumProxies

Reply(r) ==
    LET q1 == IF r.group.filters # <<>> THEN filter(r) ELSE r
        q2 == IF QUERY_FROM_PROXY(tid_of(r.pid)) THEN final_process(q1) ELSE q1
    IN  [Nothing EXCEPT !.sends =
            <<Letter(Owner(r.pid), [shrink_query(q2) EXCEPT !.state = "REPLY"])>>]

AfterPatterns(e, r) ==
    CASE r.group.unions # <<>> /\ ~ r.union_done -> Union(e, r)
      [] (r.group.unions = <<>> \/ r.union_done) /\ r.group.optional # <<>> /\ ~ done_optional(r) ->
             Optional(e, r)
      [] OTHER -> Reply(r)

\* What follows the stage of patterns, which ended with x.
Proceed(e, x) ==
    CASE x.next = "done" -> AfterPatterns(e, x.query)
      [] x.next = "fork" -> Fork(e, "own", x.query, x.query)
      [] OTHER -> Fails(x.next)

Stages(e, r) ==
    LET q == [r EXCEPT !.state = "PATTERN"]
    IN  IF ForksIndex(r) THEN ForkIndex(e, q)
        ELSE Proceed(e, IF done_pattern(r) THEN [query |-> r, next |-> "done"]
                        ELSE execute_patterns(q, e[1]))

\* The effects fx of a handler that thread e runs for engine eng; m is the
\* reply map after a reply was taken out, f the fast path.
Apply(e, eng, m, f, fx) ==
    LET owner == IF fx.put = "own" THEN e ELSE eng
        exists == fx.put # "" /\ fx.parent.id \in DOMAIN m[owner]
    IN  /\ failed' = failed \cup ({fx.failed} \ {""}) \cup IF exists THEN {"put_parent"} ELSE {}
        /\ rmap' = IF fx.put = "" THEN m
                   ELSE [m EXCEPT ![owner] = put_parent_request(@, fx.parent, fx.cnt)]
        /\ out' = [out EXCEPT ![e] = fx.sends]
        /\ fast' = [f EXCEPT ![e] = @ \o fx.fast]

\* Mutant of Erased: the parent is not erased when it is resumed.
Erased_Kept(m, pid) == m

Erased(m, pid) == Restrict(m, DOMAIN m \ {pid})

\* The reply r is collected in m; the last one resumes the parent.
Collect(e, eng, f, r, m) ==
    IF is_ready(m, r.pid)
    THEN Apply(e, eng, [rmap EXCEPT ![eng] = Erased(m, r.pid)], f,
               Stages(e, get_merged_reply(m, r.pid)))
    ELSE rmap' = [rmap EXCEPT ![eng] = m] /\ fast' = f /\ UNCHANGED <<failed, out>>

Join(e, eng, f, r) ==
    IF r.pid \in DOMAIN rmap[eng] THEN Collect(e, eng, f, r, put_reply(rmap[eng], r))
    ELSE failed' = failed \cup {"put_reply"} /\ fast' = f /\ UNCHANGED <<rmap, out>>

execute_sparql_query(e, eng, f, r) ==
    LET q == IF r.id = -1 THEN [r EXCEPT !.id = NextId(e)] ELSE r
    IN  /\ qid' = IF r.id = -1 THEN IncQid(e) ELSE qid
        /\ IF r.state = "REPLY" THEN Join(e, eng, f, q) ELSE Apply(e, eng, rmap, f, Stages(e, q))

-----------------------------------------------------------------------------
(* The loop of Engine::run.                                                *)

Running(t) == failed = {} /\ out[t] = <<>>

\* The end of an iteration: work stealing comes next where it is enabled.
EndOfTask(e, pc) == epc' = [epc EXCEPT ![e] = IF Stealing THEN pc ELSE "loop"]

\* The handler sends its next message.
HandlerSend(e) ==
    /\ failed = {} /\ out[e] # <<>>
    /\ send_request(e)
    /\ UNCHANGED <<qid, engineVars, proxyVars, failed>>

\* Head of the loop: sweep the pending messages, then the fast path.
LoopHead(e) ==
    /\ Running(e) /\ epc[e] = "loop"
    /\ sweep_msgs(e)
    /\ IF fast[e] # <<>>
       THEN /\ execute_sparql_query(e, e, [fast EXCEPT ![e] = Tail(@)], Head(fast[e]))
            /\ UNCHANGED epc
       ELSE /\ epc' = [epc EXCEPT ![e] = "poll"]
            /\ UNCHANGED <<out, qid, fast, rmap, failed>>
    /\ UNCHANGED <<runqueue, proxyVars>>

\* A message from server s: sub-queries run at once, new queries queue up.
Receive(e, s) ==
    LET r == Head(queue[s][e])
    IN  /\ Running(e) /\ epc[e] = "poll" /\ queue[s][e] # <<>>
        /\ queue' = [queue EXCEPT ![s][e] = Tail(@)]
        /\ IF r.priority # 0
           THEN /\ execute_sparql_query(e, e, fast, r)
                /\ EndOfTask(e, "worked")
                /\ UNCHANGED runqueue
           ELSE /\ runqueue' = [runqueue EXCEPT ![e] = Append(@, r)]
                /\ UNCHANGED <<out, qid, fast, rmap, failed, epc>>
        /\ UNCHANGED <<pending, proxyVars>>

\* Nothing to receive: the oldest query of the runqueue, if there is one.
NewTask(e) ==
    /\ Running(e) /\ epc[e] = "poll"
    /\ \A s \in Servers : queue[s][e] = <<>>
    /\ IF runqueue[e] # <<>>
       THEN /\ execute_sparql_query(e, e, fast, Head(runqueue[e]))
            /\ runqueue' = [runqueue EXCEPT ![e] = Tail(@)]
            /\ EndOfTask(e, "worked")
       ELSE /\ EndOfTask(e, "idle")
            /\ UNCHANGED <<out, qid, fast, rmap, failed, runqueue>>
    /\ UNCHANGED <<queue, pending, proxyVars>>

Neighbor(e) == <<e[1], NumProxies + (NumEngines - 1) - (e[2] - NumProxies)>>

\* at_work of engine e, as its neighbor sees it.
at_work(e) == out[e] # <<>> \/ epc[e] = "worked"

\* Work stealing: a message of a neighbor that has been at work for long.
Steal(e, s) ==
    LET nbr == Neighbor(e)
    IN  /\ Running(e) /\ epc[e] \in {"worked", "idle"}
        /\ at_work(nbr) /\ queue[s][nbr] # <<>>
        /\ queue' = [queue EXCEPT ![s][nbr] = Tail(@)]
        /\ execute_sparql_query(e, nbr, fast, Head(queue[s][nbr]))
        /\ epc' = [epc EXCEPT ![e] = "loop"]
        /\ UNCHANGED <<pending, runqueue, proxyVars>>

\* Nothing to steal, or the neighbor has not been at work for long enough.
NoSteal(e) ==
    /\ Running(e) /\ epc[e] \in {"worked", "idle"}
    /\ epc' = [epc EXCEPT ![e] = "loop"]
    /\ UNCHANGED <<net, qid, fast, runqueue, rmap, proxyVars, failed>>

EngineStep(e) ==
    /\ e \in Engines
    /\ \/ HandlerSend(e) \/ LoopHead(e) \/ NewTask(e) \/ NoSteal(e)
       \/ \E s \in Servers : Receive(e, s) \/ Steal(e, s)
    /\ UNCHANGED global

-----------------------------------------------------------------------------
(* Proxies.                                                                *)

\* Proxy::send of a request r given the queues q: the first engine of the
\* proxy's range, from a random one on, that has room; else it is pending.
Submit(p, r, q, left) ==
    LET range == NumEngines \div NumProxies
        engine(i) == <<hash_mod(get_start(r.group)), NumProxies + range * p[2] + (i % range)>>
    IN  \E first \in 0 .. range - 1 :
            LET free == {i \in 0 .. range - 1 : Fits(q, p[1], engine(first + i))}
            IN  IF free # {}
                THEN /\ queue' = [q EXCEPT ![p[1]][engine(first + Min(free))] = Append(@, r)]
                     /\ pending' = [pending EXCEPT ![p] = left]
                ELSE /\ queue' = q
                     /\ pending' = [pending EXCEPT ![p] = Append(left, Letter(engine(first), r))]

\* setpid and send_request.  The emulator does not take back results.
Ask(p, q, left) ==
    /\ sent[p] < MaxRequests
    /\ \E n \in Requests :
          /\ asked' = [asked EXCEPT ![p] = (NextId(p) :> n) @@ @]
          /\ Submit(p, [Parsed[n] EXCEPT !.pid = NextId(p), !.result.blind = @ \/ Emulator], q, left)
    /\ qid' = IncQid(p)
    /\ sent' = [sent EXCEPT ![p] = @ + 1]
    /\ UNCHANGED <<out, engineVars, answers, failed>>

\* The reply to a request is taken from the queue of server s.
TakeReply(p, s) ==
    LET r == Head(queue[s][p])
        known == r.pid \in DOMAIN asked[p]
    IN  /\ queue[s][p] # <<>>
        /\ queue' = [queue EXCEPT ![s][p] = Tail(@)]
        /\ answers' = answers \cup {[pid |-> r.pid, result |-> r.result,
                                     request |-> IF known THEN asked[p][r.pid] ELSE "none"]}
        /\ asked' = [asked EXCEPT ![p] = Restrict(@, DOMAIN @ \ {r.pid})]
        /\ UNCHANGED <<pending, out, qid, engineVars, sent, round, failed>>

\* run_single_query, on the master proxy: one request, then recv_reply blocks.
RunSingle(p) ==
    /\ ~ Emulator /\ p = <<0, 0>> /\ ppc[p] = "idle"
    /\ Ask(p, queue, pending[p])
    /\ ppc' = [ppc EXCEPT ![p] = "wait"]
    /\ UNCHANGED round

RecvReply(p, s) ==
    /\ ppc[p] = "wait"
    /\ TakeReply(p, s)
    /\ ppc' = [ppc EXCEPT ![p] = "idle"]

\* Mutant of NewRound: requests of earlier rounds are not counted.
NewRound_Full(p) ==
    /\ Emulator /\ ppc[p] = "idle"
    /\ \/ /\ sent[p] < MaxRequests
          /\ round' = [round EXCEPT ![p] = ParallelFactor]
          /\ ppc' = [ppc EXCEPT ![p] = "send"]
       \/ /\ ppc' = [ppc EXCEPT ![p] = "drain"]
          /\ UNCHANGED round
    /\ UNCHANGED <<net, qid, engineVars, asked, sent, answers, failed>>

\* run_query_emu: a round sends what the parallel factor allows ...
NewRound(p) ==
    /\ Emulator /\ ppc[p] = "idle"
    /\ \/ /\ sent[p] < MaxRequests
          /\ round' = [round EXCEPT ![p] = ParallelFactor - Cardinality(DOMAIN asked[p])]
          /\ ppc' = [ppc EXCEPT ![p] = "send"]
       \/ /\ ppc' = [ppc EXCEPT ![p] = "drain"]     \* the duration is over
          /\ UNCHANGED round
    /\ UNCHANGED <<net, qid, engineVars, asked, sent, answers, failed>>

EmuSend(p) ==
    /\ ppc[p] = "send" /\ round[p] > 0
    /\ Ask(p, Swept(p).queue, Swept(p).left)
    /\ round' = [round EXCEPT ![p] = @ - 1]
    /\ UNCHANGED ppc

EndOfSends(p) ==
    /\ ppc[p] = "send" /\ (round[p] = 0 \/ sent[p] = MaxRequests)
    /\ ppc' = [ppc EXCEPT ![p] = "recv"]
    /\ UNCHANGED <<net, qid, engineVars, asked, sent, round, answers, failed>>

\* ... and takes the replies that are there; in the end it waits for all.
EmuRecv(p, s) ==
    /\ ppc[p] \in {"recv", "drain"}
    /\ TakeReply(p, s)
    /\ UNCHANGED ppc

EndOfRound(p) ==
    /\ ppc[p] = "recv" /\ \A s \in Servers : queue[s][p] = <<>>
    /\ ppc' = [ppc EXCEPT ![p] = "idle"]
    /\ UNCHANGED <<net, qid, engineVars, asked, sent, round, answers, failed>>

DrainSweep(p) ==
    /\ ppc[p] = "drain" /\ DOMAIN asked[p] # {} /\ pending[p] # <<>>
    /\ sweep_msgs(p)
    /\ UNCHANGED <<out, qid, engineVars, proxyVars, failed>>

Finish(p) ==
    /\ ppc[p] = "drain" /\ DOMAIN asked[p] = {}
    /\ ppc' = [ppc EXCEPT ![p] = "done"]
    /\ UNCHANGED <<net, qid, engineVars, asked, sent, round, answers, failed>>

ProxyStep(p) ==
    /\ p \in Proxies /\ failed = {}
    /\ \/ RunSingle(p) \/ NewRound(p) \/ EmuSend(p) \/ EndOfSends(p) \/ EndOfRound(p)
       \/ DrainSweep(p) \/ Finish(p)
       \/ \E s \in Servers : RecvReply(p, s) \/ EmuRecv(p, s)
    /\ UNCHANGED global

Next == (\E e \in Engines : EngineStep(e)) \/ (\E p \in Proxies : ProxyStep(p))

Spec == Init /\ [][Next]_vars

\* The threads of the largest of the settings.
SomeThreads ==
    UNION {(0 .. g.num_servers - 1) \X (0 .. g.num_proxies + g.num_engines - 1) : g \in Settings}

\* Every thread keeps running: they are pinned to cores and never block.  An
\* engine always has a step to take, so weak fairness of its steps says that
\* it takes one again and again.
FairSpec ==
    /\ Spec
    /\ \A t \in SomeThreads : []<><<t \in Engines => EngineStep(t)>>_vars
    /\ \A t \in SomeThreads : WF_vars(ProxyStep(t))

-----------------------------------------------------------------------------
(* Properties.                                                             *)

\* The queries that exist outside the reply maps.
InTransit ==
    UNION {{<<"queue", s, t, i, queue[s][t][i].pid>> : i \in DOMAIN queue[s][t]} : s \in Servers, t \in Threads}
    \cup UNION {{<<"pending", 0, t, i, pending[t][i].msg.pid>> : i \in DOMAIN pending[t]} : t \in Threads}
    \cup UNION {{<<"out", 0, t, i, out[t][i].msg.pid>> : i \in DOMAIN out[t]} : t \in Threads}
    \cup UNION {{<<"fast", 0, e, i, fast[e][i].pid>> : i \in DOMAIN fast[e]} : e \in Engines}
    \cup UNION {{<<"runqueue", 0, e, i, runqueue[e][i].pid>> : i \in DOMAIN runqueue[e]} : e \in Engines}

\* The queries that wait in a reply map for their sub-queries.
Waiting ==
    UNION {{<<"rmap", 0, e, id, rmap[e][id].parent.pid>> : id \in DOMAIN rmap[e]} : e \in Engines}

Children(id) == Cardinality({x \in InTransit \cup Waiting : x[5] = id})

\* The count that Reply_Map keeps for a parent is the number of sub-queries
\* and replies on their way to it plus that of its sub-queries that wait for
\* sub-queries of their own: no reply is lost, duplicated or misdelivered.
JoinCount ==
    \A e \in Engines : \A id \in DOMAIN rmap[e] : rmap[e][id].cnt = Children(id)

\* A request in flight exists exactly once among the threads, as a query or
\* a reply, and everything else descends from a waiting parent; so when the
\* last request is answered, no message and no parent is left behind.
NothingLeft ==
    /\ \A p \in Proxies : \A id \in DOMAIN asked[p] : Children(id) = 1
    /\ \A x \in InTransit \cup Waiting :
          \/ \E p \in Proxies : x[5] \in DOMAIN asked[p]
          \/ \E e \in Engines : x[5] \in DOMAIN rmap[e]

\* The solutions of each request.
Expected == [r \in DOMAIN Parsed |-> Answer(Parsed[r])]

\* A proxy takes only replies to its own requests in flight, and a reply that
\* carries rows carries exactly the solutions of the request, whatever the
\* division into sub-queries and the order of the replies; every reply, blind
\* ones included, reports their number.
Answered ==
    \A a \in answers :
        /\ a.request \in Requests
        /\ ~ a.result.blind =>
              MapRows(a.result.rows, LAMBDA r : {r.b}) = Expected[a.request]
        /\ a.result.row_num = BagCardinality(Expected[a.request])

\* No assertion of the handlers fails: a parent is put into a reply map once
\* and is there when a reply comes, no pattern is executed that its executor
\* does not support, and no remote vertex is read without RDMA.
AssertionsHold == failed = {}

\* A proxy of run_query_emu never has more requests in flight than its
\* parallel factor, so the unsigned "parallel_factor - flying_cnt", computed
\* from counters that are only brought up to date once a round, never wraps.
InFlightBounded ==
    \A p \in Proxies :
        Cardinality(DOMAIN asked[p]) + (IF ppc[p] = "send" THEN round[p] ELSE 0) <= ParallelFactor

\* Every request is answered, although queues fill up: messages that do not
\* fit are stashed and no engine waits for room.  (The number of requests is
\* bounded, so in the end none is in flight.)
AllAnswered == <>[](\A p \in Proxies : DOMAIN asked[p] = {})

=============================================================================
