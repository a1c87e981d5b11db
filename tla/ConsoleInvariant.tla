-------------------------- MODULE ConsoleInvariant --------------------------
(***************************************************************************)
(* The inductive invariant of Console.  The commands the master has given  *)
(* out are a common log; a proxy is somewhere in it, the messages in its   *)
(* queue are what it still has to read of it, and the number of barriers   *)
(* it has entered follows from its place in the log.  This holds until a   *)
(* proxy begins an emulation whose input file is missing on some servers.  *)
(***************************************************************************)
EXTENDS Console, FiniteSets

\* Finite sets, and how many elements they have.
Finite(S) == IsFiniteSet(S)
Size(S) == Cardinality(S)

Master == <<0, 0>>

Labels == {"start", "top", "barrier", "mpi", "add", "spin", "prompt", "run", "reload",
           "recvStr", "recvStat", "emulate", "gather", "exited"}

\* What a queue, and the command of a round, can hold.
Messages == Commands \cup {"quit", "none", "str"} \cup (Proxies \X Nat)

\* The state has the expected types.
TypeOK ==
    /\ mpi \in [Servers -> Nat] /\ curr \in [Servers -> Nat]
    /\ nxt \in [Proxies -> Nat] /\ arrived \in [Proxies -> Nat]
    /\ pc \in [Proxies -> Labels] /\ ret \in [Proxies -> {"top", "prompt", "gather"}]
    /\ inbox \in [Proxies -> Seq(Messages)]
    /\ stats \in [Servers -> Nat]
    /\ cmd \in [Proxies -> Messages]
    /\ merged \in Seq(Messages)
    /\ done \in [Proxies -> Seq(Messages)]

-----------------------------------------------------------------------------
(* Barriers.                                                               *)

Arrivals(s) == {a \in Proxies \X Nat : a[1][1] = s /\ a[2] \in 1 .. arrived[a[1]]}

\* The counter of a server is the number of arrivals, and a proxy has passed
\* all the barriers it arrived at, but the one it waits in.
BarrierInv ==
    /\ \A s \in Servers : Finite(Arrivals(s)) /\ Size(Arrivals(s)) = curr[s]
    /\ \A p \in Proxies :
          /\ Passed(p) \in Nat /\ nxt[p] = NumProxies * Passed(p) + 1
          /\ Passed(p) \in {arrived[p], arrived[p] - 1}
          /\ pc[p] = "spin" => Passed(p) = arrived[p] - 1
          /\ pc[p] \notin {"spin", "exited"} => Passed(p) = arrived[p]

-----------------------------------------------------------------------------
(* The log.                                                                *)

\* The commands the master has given out, and the i-th of them.
Issued == Len(done[Master]) + (IF pc[Master] = "run" THEN 1 ELSE 0)
Cmd(i) == IF i <= Len(done[Master]) THEN done[Master][i] ELSE cmd[Master]

\* How many of them p has received.
Got(p) == Len(done[p]) + (IF pc[p] = "run" THEN 1 ELSE 0)

\* The commands p has begun, and the one it is about to begin, are the log's.
LogAt(p) ==
    /\ Got(p) <= Issued
    /\ \A i \in 1 .. Len(done[p]) : done[p][i] = Cmd(i)
    /\ pc[p] = "run" => cmd[p] = Cmd(Got(p))

LogInv == \A p \in Proxies : LogAt(p)

InBarrier(p) == pc[p] \in {"barrier", "mpi", "add", "spin"}

\* p works on an "emu", up to the moment it has sent or merged statistics.
Gathering(p) == pc[p] \in {"emulate", "gather"} \/ (InBarrier(p) /\ ret[p] = "gather")

\* Where p can be, given its last command.
PhaseAt(p) ==
    /\ Gathering(p) => done[p] # <<>> /\ Cmd(Len(done[p])) = "emu"
    /\ pc[p] \in {"reload", "recvStr"} => LEADER(p) /\ done[p] # <<>> /\ Cmd(Len(done[p])) = "config"
    /\ pc[p] = "recvStat" => LEADER(p) /\ done[p] # <<>> /\ Cmd(Len(done[p])) \in {"stat", "nostat"}
    /\ pc[p] \in {"recvStr", "recvStat"} => ~ MASTER(p)
    /\ pc[p] \in {"mpi", "add"} => LEADER(p)
    /\ pc[p] = "start" \/ (InBarrier(p) /\ ret[p] = "top") => done[p] = <<>>

PhaseInv == \A p \in Proxies : PhaseAt(p)

\* A server ends with its leader, whose last command is "quit", and the
\* master gives out nothing after it.
QuitInv ==
    /\ \A i \in 1 .. Len(done[Master]) : done[Master][i] = "quit" => pc[Master] = "exited"
    /\ \A p \in Proxies : pc[p] = "exited" => \E i \in 1 .. Issued : Cmd(i) = "quit"

-----------------------------------------------------------------------------
(* Queues.                                                                 *)

\* A proxy that is no leader may be several commands behind.
InboxAt(p) ==
    ~ LEADER(p) /\ pc[p] # "exited" =>
        /\ Len(inbox[p]) = Issued - Got(p)
        /\ \A i \in 1 .. Len(inbox[p]) : inbox[p][i] = Cmd(Got(p) + i)

InboxInv == \A p \in Proxies : InboxAt(p)

\* p waits for the next command, or is in the barrier in front of it.
AtRest(p) == pc[p] = "prompt" \/ (pc[p] \in {"mpi", "add", "spin"} /\ ret[p] = "prompt")

\* p still needs the settings of the last command, and they are under way.
Owed(p) ==
    /\ Issued >= 1 /\ Cmd(Issued) = "config"
    /\ Got(p) = Issued => pc[p] \in {"run", "recvStr"}
Settings(p) == Owed(p) /\ pc[Master] # "run"

\* A leader is at most one command behind; settings follow their command.
LeaderAt(p) ==
    LEADER(p) /\ ~ MASTER(p) /\ pc[p] # "exited" =>
        /\ Got(p) >= Issued - 1
        /\ Got(p) = Issued - 1 =>
              AtRest(p) /\ inbox[p] = IF Settings(p) THEN <<Cmd(Issued), "str">> ELSE <<Cmd(Issued)>>
        /\ Got(p) = Issued => inbox[p] = IF Settings(p) THEN <<"str">> ELSE <<>>
        /\ Issued >= 1 /\ Cmd(Issued) = "config" /\ pc[Master] = "run" => Owed(p)

LeaderInv == \A p \in Proxies : LeaderAt(p)

\* The barriers among the servers that a leader enters up to its n-th command.
EmuRounds(n) == {i \in 1 .. n : Cmd(i) = "emu"}
Barriers(n) == n + Size(EmuRounds(n))

\* How often the leader p has entered MPI_Barrier, given its place.
Entered(p) ==
    CASE pc[p] = "start" -> 0
      [] pc[p] = "barrier" -> Barriers(Len(done[p])) + (IF ret[p] = "prompt" THEN 1 ELSE 0)
      [] pc[p] = "emulate" -> Barriers(Len(done[p]))
      [] pc[p] \in {"mpi", "add", "spin"} -> Barriers(Len(done[p])) + (IF ret[p] = "prompt" THEN 2 ELSE 1)
      [] pc[p] \in {"prompt", "run"} -> Barriers(Len(done[p])) + 2
      [] OTHER -> Barriers(Len(done[p])) + 1

MpiInv ==
    /\ \A p \in Proxies : LEADER(p) /\ pc[p] # "exited" => mpi[p[1]] = Entered(p)
    /\ pc[Master] # "mpi" => \A s \in Servers : mpi[s] >= mpi[0]

-----------------------------------------------------------------------------
(* Statistics.                                                             *)

\* p has done its part of the i-th command, and the master has.
Sent(p, i) == Len(done[p]) > i \/ (Len(done[p]) = i /\ ~ Gathering(p))
Closed(i) == i < Issued \/ (i = Issued /\ pc[Master] # "run" /\ ~ Gathering(Master))

\* A message of this round.
Current(m) == \E p \in Proxies \ {Master} : m = <<p, Issued>> /\ Sent(p, Issued)

\* No "emu" is closed before everybody has sent statistics.
EmuInv ==
    \A i \in 1 .. Issued : Closed(i) /\ Cmd(i) = "emu" => \A p \in Proxies : Sent(p, i)

\* The master has a message of each proxy at most once, in its queue or
\* merged, and only of the round it is in.
MonitorInv ==
    /\ inbox[Master] # <<>> => Issued >= 1 /\ ~ Closed(Issued) /\ Cmd(Issued) = "emu"
    /\ \A i \in 1 .. Len(inbox[Master]) : Current(inbox[Master][i])
    /\ \A i, j \in 1 .. Len(inbox[Master]) : inbox[Master][i] = inbox[Master][j] => i = j
    /\ Gathering(Master) =>
          /\ \A i \in 1 .. Len(merged) : Current(merged[i])
          /\ \A i, j \in 1 .. Len(merged) : merged[i] = merged[j] => i = j
          /\ \A i \in 1 .. Len(merged), j \in 1 .. Len(inbox[Master]) : merged[i] # inbox[Master][j]

-----------------------------------------------------------------------------
(* What counting contributes.                                              *)

\* When the master is about to give out a command, every leader has carried
\* out the last one and is in front of the next.
LeadersReady ==
    pc[Master] = "prompt" => \A p \in Proxies : LEADER(p) =>
        pc[p] # "exited" /\ Len(done[p]) = Issued /\ Got(p) = Issued /\ AtRest(p)

\* As many messages as there are other proxies are those of all of them.
AllMerged ==
    Gathering(Master) /\ Len(merged) = Others =>
        {merged[i] : i \in DOMAIN merged} = {<<p, Issued>> : p \in Proxies \ {Master}}

-----------------------------------------------------------------------------

IInv ==
    /\ TypeOK /\ BarrierInv /\ LeadBounded
    /\ LogInv /\ PhaseInv /\ QuitInv /\ InboxInv /\ LeaderInv /\ MpiInv
    /\ EmuInv /\ MonitorInv

\* Servers that disagree about the input file of an emulation leave the log,
\* but the barrier of each server still counts its proxies.
ConsoleInv == TypeOK /\ BarrierInv /\ LeadBounded /\ (Whole => IInv)

=============================================================================
