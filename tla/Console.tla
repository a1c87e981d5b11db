------------------------------ MODULE Console ------------------------------
(***************************************************************************)
(* The console (core/console.hpp): every proxy thread of every server runs *)
(* the loop of run_console().  The master proxy reads a command and sends  *)
(* it to all other proxies; commands are carried out by the master alone,  *)
(* by the leader proxy of each server ("config") or by all proxies         *)
(* ("sparql-emu"), and each round starts with console_barrier().           *)
(*                                                                         *)
(* Commands are told apart by who works and who waits for whom:            *)
(*   "single"  help, sparql, load, gsck, store-stat and invalid commands:  *)
(*             nobody waits for another proxy;                             *)
(*   "config"  the leaders wait for the master's settings;                 *)
(*   "stat"    load-stat: the leaders wait for the master's statistics,    *)
(*             which go over another connection than the commands;         *)
(*   "nostat"  load-stat of a file that the master does not find: "HANG    *)
(*             bug if master return here", says its code;                  *)
(*   "emu"     all proxies run the emulator, pass a barrier, and the       *)
(*             master waits for the statistics of all others;              *)
(*   "noemu"   the same with an input file that some servers do not have:  *)
(*             "maybe hang in here if the input file misses in some        *)
(*             machines";                                                  *)
(*   "quit"    each leader ends its server.                                *)
(* An emulator file that no server has is a "single" command.              *)
(***************************************************************************)
EXTENDS Integers, Sequences

CONSTANTS
    NumServers,     \* global_num_servers
    NumProxies,     \* global_num_proxies
    NoFile,         \* the servers without the input file of a "noemu"
    MaxCmds         \* bound: commands before "quit"

ASSUME ConsoleAssumption ==
    /\ NumServers \in Nat \ {0}
    /\ NumProxies \in Nat \ {0}
    /\ NoFile \subseteq 0 .. NumServers - 1
    /\ MaxCmds \in Nat

Servers == 0 .. NumServers - 1
Proxies == Servers \X (0 .. NumProxies - 1)
LEADER(p) == p[2] = 0
MASTER(p) == p = <<0, 0>>
Commands == {"single", "config", "stat", "nostat", "emu", "noemu"}

VARIABLES
    mpi,        \* per server: how often the leader has entered MPI_Barrier
    curr,       \* per server: _curr of console_barrier()
    nxt,        \* per proxy: the thread-local _next
    pc,         \* per proxy: where it is
    ret,        \* per proxy: where console_barrier() returns to
    inbox,      \* per proxy: the queue that con_adaptor->recv(tid) reads
    stats,      \* per server: the statistics that tcp_adaptor->recv(0) will get
    cmd,        \* per proxy: the command of this round
    merged,     \* the statistics the master has merged for the current "emu", in turn
    arrived,    \* history, per proxy: barriers it has arrived at
    done        \* history, per proxy: the commands it has begun

vars == <<mpi, curr, nxt, pc, ret, inbox, stats, cmd, merged, arrived, done>>

Init ==
    /\ mpi = [s \in Servers |-> 0]
    /\ curr = [s \in Servers |-> 0]
    /\ nxt = [p \in Proxies |-> 1]
    /\ pc = [p \in Proxies |-> "start"]
    /\ ret = [p \in Proxies |-> "top"]
    /\ inbox = [p \in Proxies |-> <<>>]
    /\ stats = [s \in Servers |-> 0]
    /\ cmd = [p \in Proxies |-> "none"]
    /\ merged = <<>>
    /\ arrived = [p \in Proxies |-> 0]
    /\ done = [p \in Proxies |-> <<>>]

Goto(p, l) == pc' = [pc EXCEPT ![p] = l]

\* console_send() to each proxy in to.
Tell(to, m) == inbox' = [p \in Proxies |-> IF p \in to THEN Append(inbox[p], m) ELSE inbox[p]]

\* console_recv().
Take(p) == inbox[p] # <<>> /\ inbox' = [inbox EXCEPT ![p] = Tail(@)]

-----------------------------------------------------------------------------
(* console_barrier()                                                       *)

\* Call the barrier and return to l.
CallBarrier(p, l) ==
    /\ Goto(p, "barrier")
    /\ ret' = [ret EXCEPT ![p] = l]

\* The leader enters the barrier among the servers.
EnterMPI(p) ==
    /\ pc[p] = "barrier" /\ LEADER(p)
    /\ mpi' = [mpi EXCEPT ![p[1]] = @ + 1]
    /\ Goto(p, "mpi")
    /\ UNCHANGED <<stats, curr, nxt, ret, inbox, cmd, merged, arrived, done>>

LeaveMPI(p) ==
    /\ pc[p] = "mpi"
    /\ \A s \in Servers : mpi[s] >= mpi[p[1]]
    /\ Goto(p, "add")
    /\ UNCHANGED <<stats, mpi, curr, nxt, ret, inbox, cmd, merged, arrived, done>>

\* __sync_fetch_and_add(&_curr, 1)
Arrive(p) ==
    /\ pc[p] = IF LEADER(p) THEN "add" ELSE "barrier"
    /\ curr' = [curr EXCEPT ![p[1]] = @ + 1]
    /\ arrived' = [arrived EXCEPT ![p] = @ + 1]
    /\ Goto(p, "spin")
    /\ UNCHANGED <<stats, mpi, nxt, ret, inbox, cmd, merged, done>>

\* Mutant of NextRound: _next is not moved on by the number of proxies.
NextRound_Two(n) == n + NumProxies + 1

NextRound(n) == n + NumProxies

\* Mutant of Pass: the proxy does not wait for _curr.
Pass_NoSpin(p) ==
    /\ pc[p] = "spin"
    /\ nxt' = [nxt EXCEPT ![p] = NextRound(@)]
    /\ Goto(p, ret[p])
    /\ UNCHANGED <<stats, mpi, curr, ret, inbox, cmd, merged, arrived, done>>

\* The spin on _curr ends.
Pass(p) ==
    /\ pc[p] = "spin"
    /\ curr[p[1]] >= nxt[p]
    /\ nxt' = [nxt EXCEPT ![p] = NextRound(@)]
    /\ Goto(p, ret[p])
    /\ UNCHANGED <<stats, mpi, curr, ret, inbox, cmd, merged, arrived, done>>

-----------------------------------------------------------------------------
(* run_console()                                                           *)

\* After init_options_desc() on the leaders.
Start(p) ==
    /\ pc[p] = "start"
    /\ CallBarrier(p, "top")
    /\ UNCHANGED <<stats, mpi, curr, nxt, inbox, cmd, merged, arrived, done>>

Top(p) ==
    /\ pc[p] = "top"
    /\ CallBarrier(p, "prompt")
    /\ UNCHANGED <<stats, mpi, curr, nxt, inbox, cmd, merged, arrived, done>>

\* The master reads command c and sends it to all other proxies.
Prompt(p, c) ==
    /\ pc[p] = "prompt" /\ MASTER(p)
    /\ c \in IF Len(done[p]) < MaxCmds THEN Commands ELSE {"quit"}
    /\ Tell(Proxies \ {p}, c)
    /\ cmd' = [cmd EXCEPT ![p] = c]
    /\ Goto(p, "run")
    /\ UNCHANGED <<stats, mpi, curr, nxt, ret, merged, arrived, done>>

\* The others receive it.
RecvCmd(p) ==
    /\ pc[p] = "prompt" /\ ~ MASTER(p)
    /\ Take(p)
    /\ cmd' = [cmd EXCEPT ![p] = Head(inbox[p])]
    /\ Goto(p, "run")
    /\ UNCHANGED <<stats, mpi, curr, nxt, ret, merged, arrived, done>>

\* Carry a command out alone, or leave it to the master or the leaders.
RunSingle(p) ==
    /\ pc[p] = "run"
    /\ cmd[p] \notin {"emu", "noemu"}
    /\ cmd[p] \in {"config", "stat", "nostat", "quit"} => ~ LEADER(p)
    /\ done' = [done EXCEPT ![p] = Append(@, cmd[p])]
    /\ Goto(p, "top")
    /\ UNCHANGED <<stats, mpi, curr, nxt, ret, inbox, cmd, merged, arrived>>

\* Mutant of RunConfig: a leader does not wait for the settings.
RunConfig_NoRecv(p) ==
    /\ pc[p] = "run" /\ cmd[p] = "config" /\ LEADER(p)
    /\ done' = [done EXCEPT ![p] = Append(@, cmd[p])]
    /\ Goto(p, "reload")
    /\ IF MASTER(p) THEN Tell({q \in Proxies : LEADER(q)} \ {p}, "str") ELSE UNCHANGED inbox
    /\ UNCHANGED <<stats, mpi, curr, nxt, ret, cmd, merged, arrived>>

\* run_config() on the leaders: the master sends the settings.
RunConfig(p) ==
    /\ pc[p] = "run" /\ cmd[p] = "config" /\ LEADER(p)
    /\ done' = [done EXCEPT ![p] = Append(@, cmd[p])]
    /\ IF MASTER(p)
       THEN Tell({q \in Proxies : LEADER(q)} \ {p}, "str") /\ Goto(p, "reload")
       ELSE Goto(p, "recvStr") /\ UNCHANGED inbox
    /\ UNCHANGED <<stats, mpi, curr, nxt, ret, cmd, merged, arrived>>

RecvStr(p) ==
    /\ pc[p] = "recvStr"
    /\ Take(p)
    /\ Goto(p, "reload")
    /\ UNCHANGED <<stats, mpi, curr, nxt, ret, cmd, merged, arrived, done>>

\* reload_config() changes the settings of the whole server.
Reload(p) ==
    /\ pc[p] = "reload"
    /\ Goto(p, "top")
    /\ UNCHANGED <<stats, mpi, curr, nxt, ret, inbox, cmd, merged, arrived, done>>

\* run_load_stat() on the leaders: the master loads the statistics and sends
\* them; without the file it returns and sends nothing, and the others wait.
RunLoadStat(p) ==
    /\ pc[p] = "run" /\ cmd[p] \in {"stat", "nostat"} /\ LEADER(p)
    /\ done' = [done EXCEPT ![p] = Append(@, cmd[p])]
    /\ IF MASTER(p)
       THEN /\ stats' = [s \in Servers |-> IF s = 0 \/ cmd[p] = "nostat" THEN stats[s] ELSE stats[s] + 1]
            /\ Goto(p, "top")
       ELSE Goto(p, "recvStat") /\ UNCHANGED stats
    /\ UNCHANGED <<mpi, curr, nxt, ret, inbox, cmd, merged, arrived>>

\* The others replace theirs, which every proxy of the server plans with.
RecvStat(p) ==
    /\ pc[p] = "recvStat"
    /\ stats[p[1]] > 0 /\ stats' = [stats EXCEPT ![p[1]] = @ - 1]
    /\ Goto(p, "top")
    /\ UNCHANGED <<mpi, curr, nxt, ret, inbox, cmd, merged, arrived, done>>

\* Mutant of NewMonitor: the statistics of the last emulation are kept.
NewMonitor_Kept(p) == merged

\* Each emulation starts with fresh statistics.
NewMonitor(p) == IF MASTER(p) THEN <<>> ELSE merged

\* run_sparql_emu(): the emulator begins, ends, and the barrier is called.
RunEmu(p) ==
    /\ pc[p] = "run" /\ cmd[p] = "emu"
    /\ done' = [done EXCEPT ![p] = Append(@, cmd[p])]
    /\ merged' = NewMonitor(p)
    /\ Goto(p, "emulate")
    /\ UNCHANGED <<stats, mpi, curr, nxt, ret, inbox, cmd, arrived>>

\* The same if servers miss the input file: their proxies return at once, and
\* the others go on to the barrier.
RunMissing(p) ==
    /\ pc[p] = "run" /\ cmd[p] = "noemu"
    /\ done' = [done EXCEPT ![p] = Append(@, cmd[p])]
    /\ IF p[1] \in NoFile
       THEN Goto(p, "top") /\ UNCHANGED merged
       ELSE Goto(p, "emulate") /\ merged' = NewMonitor(p)
    /\ UNCHANGED <<stats, mpi, curr, nxt, ret, inbox, cmd, arrived>>

EndEmu(p) ==
    /\ pc[p] = "emulate"
    /\ CallBarrier(p, "gather")
    /\ UNCHANGED <<stats, mpi, curr, nxt, inbox, cmd, merged, arrived, done>>

\* A proxy sends its statistics, here its name and round, to the master.
SendMonitor(p) ==
    /\ pc[p] = "gather" /\ ~ MASTER(p)
    /\ Tell({<<0, 0>>}, <<p, Len(done[p])>>)
    /\ Goto(p, "top")
    /\ UNCHANGED <<stats, mpi, curr, nxt, ret, cmd, merged, arrived, done>>

\* Mutant of Others: the master counts the proxies of its own server only.
Others_Server == NumProxies - 1

\* How many statistics the master waits for.
Others == NumServers * NumProxies - 1

Merge(p) ==
    /\ pc[p] = "gather" /\ MASTER(p)
    /\ Len(merged) < Others
    /\ Take(p)
    /\ merged' = Append(merged, Head(inbox[p]))
    /\ UNCHANGED <<stats, mpi, curr, nxt, pc, ret, cmd, arrived, done>>

Aggregate(p) ==
    /\ pc[p] = "gather" /\ MASTER(p)
    /\ Len(merged) = Others
    /\ Goto(p, "top")
    /\ UNCHANGED <<stats, mpi, curr, nxt, ret, inbox, cmd, merged, arrived, done>>

\* "quit": exit(0) by the leader ends all threads of its server.
Quit(p) ==
    /\ pc[p] = "run" /\ cmd[p] = "quit" /\ LEADER(p)
    /\ pc' = [q \in Proxies |-> IF q[1] = p[1] THEN "exited" ELSE pc[q]]
    /\ done' = [done EXCEPT ![p] = Append(@, cmd[p])]
    /\ UNCHANGED <<stats, mpi, curr, nxt, ret, inbox, cmd, merged, arrived>>

Step(p) ==
    \/ Start(p) \/ Top(p) \/ EnterMPI(p) \/ LeaveMPI(p) \/ Arrive(p) \/ Pass(p)
    \/ (\E c \in Commands \cup {"quit"} : Prompt(p, c)) \/ RecvCmd(p)
    \/ RunSingle(p) \/ RunConfig(p) \/ RecvStr(p) \/ Reload(p)
    \/ RunLoadStat(p) \/ RecvStat(p)
    \/ RunEmu(p) \/ EndEmu(p) \/ SendMonitor(p) \/ Merge(p) \/ Aggregate(p) \/ Quit(p)

Next == \E p \in Proxies : Step(p) \/ RunMissing(p)

Spec == Init /\ [][Next]_vars

(* Every proxy thread keeps running and the user keeps typing.             *)
FairSpec == Spec /\ \A p \in Proxies : WF_vars(Step(p) \/ RunMissing(p))

-----------------------------------------------------------------------------
(* Properties.                                                             *)

\* No proxy has begun one of the commands: a load-stat or an emulation whose
\* file is missing, of which the code says that they may hang.
None(commands) == \A p \in Proxies : \A i \in 1 .. Len(done[p]) : done[p][i] \notin commands
Whole == None({"noemu"})

\* How many barriers p has passed.
Passed(p) == (nxt[p] - 1) \div NumProxies

\* What the barrier guarantees: a proxy that passed its k-th barrier may be
\* ahead of another one of its server, but by less than NumProxies barriers.
LeadBounded ==
    \A p, q \in Proxies : p[1] = q[1] => Passed(p) - arrived[q] < NumProxies

\* p changes the settings, or the statistics, of its server.
Changing(p) == pc[p] \in {"reload", "recvStat"} \/ (pc[p] = "run" /\ cmd[p] = "stat" /\ MASTER(p))

\* Although the barrier lets proxies run ahead, no settings are changed and
\* no statistics replaced while an emulator runs on any server, neither one
\* of an earlier command nor one of a later command.  Servers that disagree
\* about the input file of an emulation get out of step with the others,
\* because some call one barrier more: from then on nothing is promised.
ConfigAlone ==
    Whole => \A p, q \in Proxies : ~ (Changing(p) /\ pc[q] = "emulate")

\* All proxies carry out the same commands in the same order, none missing:
\* the ones of a proxy are those the master began, or these and the next one
\* (unless servers disagree about the input file of an emulation).
SameCommands ==
    Whole => \A p \in Proxies :
        /\ Len(done[p]) <= Len(done[<<0, 0>>]) + 1
        /\ \A i \in 1 .. Len(done[p]) : i <= Len(done[<<0, 0>>]) => done[p][i] = done[<<0, 0>>][i]

\* The master, which only counts, aggregates exactly one statistic of each
\* other proxy, all of the round it is in (unless servers disagree about the
\* input file of an emulation).
MergedRound ==
    Whole /\ pc[<<0, 0>>] = "gather" /\ Len(merged) = NumServers * NumProxies - 1 =>
        {merged[i] : i \in DOMAIN merged} = {<<p, Len(done[<<0, 0>>])>> : p \in Proxies \ {<<0, 0>>}}

\* The console hangs nowhere but where its comments say so: every server is
\* ended by "quit", unless a command was begun whose file is missing.
Quits == <>((\A p \in Proxies : pc[p] = "exited") \/ ~ None({"nostat", "noemu"}))
=============================================================================
