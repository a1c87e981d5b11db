--------------------------- MODULE ConsoleProofs ----------------------------
(***************************************************************************)
(* Proofs about Console, for any number of servers, proxies and commands.  *)
(* First the parts of the invariant for which nothing is counted: types,   *)
(* the log of commands, the queues of the proxies, and the statistics of   *)
(* an emulation.  They assume LeadersReady and AllMerged, which follow by  *)
(* counting.  Then what counts: the barrier of a server, the barrier among *)
(* the leaders of the servers, and the messages of an emulation.  Last the *)
(* inductive invariant, of which the types and the barriers survive an     *)
(* emulation without its input file, and the theorems.                     *)
(***************************************************************************)
EXTENDS ConsoleInvariant, TLAPS

\* The master is a proxy, a proxy is its server and its number there, and a
\* server has one leader.
LEMMA ProxyFacts ==
    /\ 0 \in Servers /\ Master \in Proxies /\ LEADER(Master) /\ MASTER(Master)
    /\ \A p \in Proxies : p[1] \in Servers /\ p[2] \in 0 .. NumProxies - 1 /\ p = <<p[1], p[2]>>
    /\ \A p \in Proxies : MASTER(p) <=> p = Master
    /\ \A p, q \in Proxies : LEADER(p) /\ LEADER(q) /\ p[1] = q[1] => p = q
    /\ Master[1] = 0
BY ConsoleAssumption DEF Servers, Proxies, Master, LEADER, MASTER

-----------------------------------------------------------------------------
(* Types.                                                                  *)

\* The initial state has the expected types,
LEMMA TypeInit == Init => TypeOK
BY ConsoleAssumption DEF Init, TypeOK, Labels, Messages

\* and so has every later one.
LEMMA TypeStep ==
    ASSUME TypeOK, NEW p \in Proxies, Step(p)
    PROVE  TypeOK'
<1>0. p[1] \in Servers
  BY ProxyFacts
<1>c. \A c \in Commands \cup {"quit"} : c \in Messages
  BY DEF Messages
<1> USE DEF TypeOK, Goto
<1>l. {"barrier", "mpi", "add", "spin", "run", "reload", "recvStr", "recvStat", "top", "prompt",
       "gather", "emulate", "exited"} \subseteq Labels
  BY DEF Labels
<1>g. ASSUME NEW l \in Labels, Goto(p, l) PROVE pc' \in [Proxies -> Labels]
  BY <1>g
<1>1. CASE Start(p) \/ Top(p) \/ EndEmu(p)
  <2>1. pc' \in [Proxies -> Labels]
    BY <1>1, <1>l, <1>g DEF Start, Top, EndEmu, CallBarrier
  <2>2. ret' \in [Proxies -> {"top", "prompt", "gather"}]
    BY <1>1, Zenon DEF Start, Top, EndEmu, CallBarrier
  <2>3. UNCHANGED <<mpi, curr, nxt, arrived, inbox, stats, cmd, merged, done>>
    BY <1>1 DEF Start, Top, EndEmu
  <2> QED
    BY <2>1, <2>2, <2>3
<1>2. CASE EnterMPI(p)
  <2>1. pc' \in [Proxies -> Labels]
    BY <1>2, <1>l, <1>g DEF EnterMPI
  <2>2. mpi' \in [Servers -> Nat]
    <3>1. mpi' = [mpi EXCEPT ![p[1]] = mpi[p[1]] + 1] /\ mpi \in [Servers -> Nat]
      BY <1>2, Zenon DEF EnterMPI
    <3> QED
      BY ONLY <1>0, <3>1
  <2>3. UNCHANGED <<ret, curr, nxt, arrived, inbox, stats, cmd, merged, done>>
    BY <1>2 DEF EnterMPI
  <2> QED
    BY <2>1, <2>2, <2>3, Zenon
<1>3. CASE LeaveMPI(p) \/ Reload(p) \/ Aggregate(p)
  <2>1. pc' \in [Proxies -> Labels]
    BY <1>3, <1>l, <1>g, Zenon DEF LeaveMPI, Reload, Aggregate
  <2>2. UNCHANGED <<mpi, ret, curr, nxt, arrived, inbox, stats, cmd, merged, done>>
    BY <1>3 DEF LeaveMPI, Reload, Aggregate
  <2> QED
    BY <2>1, <2>2
<1>4. CASE Arrive(p)
  <2>1. curr' \in [Servers -> Nat] /\ arrived' \in [Proxies -> Nat]
    BY <1>4, <1>0, SMTT(30) DEF Arrive
  <2>2. pc' \in [Proxies -> Labels]
    BY <1>4, <1>l, <1>g DEF Arrive
  <2>3. UNCHANGED <<mpi, ret, nxt, inbox, stats, cmd, merged, done>>
    BY <1>4 DEF Arrive
  <2> QED
    BY <2>1, <2>2, <2>3, Zenon
<1>5. CASE Pass(p)
  <2>1. pc' \in [Proxies -> Labels]
    BY <1>5, <1>l, <1>g, Zenon DEF Pass
  <2>2. nxt' \in [Proxies -> Nat]
    BY <1>5, ConsoleAssumption DEF Pass, NextRound
  <2>3. UNCHANGED <<mpi, ret, curr, arrived, inbox, stats, cmd, merged, done>>
    BY <1>5 DEF Pass
  <2> QED
    BY <2>1, <2>2, <2>3
<1>6. ASSUME NEW c \in Commands \cup {"quit"}, Prompt(p, c) PROVE TypeOK'
  BY <1>6, <1>c, <1>l DEF Prompt, Tell
<1>7. CASE RecvCmd(p)
  <2>1. Head(inbox[p]) \in Messages /\ Tail(inbox[p]) \in Seq(Messages)
    BY <1>7 DEF RecvCmd, Take
  <2> QED
    BY <1>7, <2>1, <1>l DEF RecvCmd, Take
<1>8. CASE RunSingle(p)
  BY <1>8, <1>l DEF RunSingle
<1>9. CASE RunConfig(p)
  <2>1. "str" \in Messages
    BY DEF Messages
  <2>2. done' \in [Proxies -> Seq(Messages)]
    BY <1>9 DEF RunConfig
  <2>3. inbox' \in [Proxies -> Seq(Messages)]
    <3>1. CASE MASTER(p)
      <4>1. Tell({q \in Proxies : LEADER(q)} \ {p}, "str")
        BY <1>9, <3>1 DEF RunConfig
      <4> QED
        BY <4>1, <2>1 DEF Tell
    <3> QED
      BY <1>9, <3>1 DEF RunConfig
  <2>4. pc' \in [Proxies -> Labels]
    BY <1>9, <1>l, Zenon DEF RunConfig
  <2> QED
    BY <1>9, <2>2, <2>3, <2>4 DEF RunConfig
<1>10. CASE RecvStr(p)
  BY <1>10, <1>l DEF RecvStr, Take
<1>11. CASE RunLoadStat(p)
  <2>1. stats' \in [Servers -> Nat]
    <3>1. CASE MASTER(p)
      <4>1. stats' = [s \in Servers |-> IF s = 0 \/ cmd[p] = "nostat" THEN stats[s] ELSE stats[s] + 1]
        BY <1>11, <3>1 DEF RunLoadStat
      <4>2. \A s \in Servers : stats[s] \in Nat
        OBVIOUS
      <4> QED
        BY ONLY <4>1, <4>2
    <3> QED
      BY <1>11, <3>1 DEF RunLoadStat
  <2>2. done' \in [Proxies -> Seq(Messages)]
    BY <1>11 DEF RunLoadStat
  <2>3. pc' \in [Proxies -> Labels]
    BY <1>11, <1>l, Zenon DEF RunLoadStat
  <2> QED
    BY <1>11, <2>1, <2>2, <2>3, Zenon DEF RunLoadStat
<1>12. CASE RecvStat(p)
  <2>1. stats' \in [Servers -> Nat]
    <3>1. stats[p[1]] - 1 \in Nat
      BY <1>12, <1>0 DEF RecvStat
    <3> QED
      BY <1>12, <3>1, Zenon DEF RecvStat
  <2> QED
    BY <1>12, <2>1, <1>l DEF RecvStat
<1>13. CASE RunEmu(p)
  BY <1>13, <1>l DEF RunEmu, NewMonitor
<1>14. CASE SendMonitor(p)
  <2>1. <<p, Len(done[p])>> \in Messages
    BY DEF Messages
  <2> QED
    BY <1>14, <2>1, <1>l DEF SendMonitor, Tell
<1>15. CASE Merge(p)
  BY <1>15 DEF Merge, Take
<1>16. CASE Quit(p)
  BY <1>16, <1>l DEF Quit
<1> QED
  BY <1>1, <1>2, <1>3, <1>4, <1>5, <1>6, <1>7, <1>8, <1>9, <1>10, <1>11, <1>12, <1>13, <1>14, Zenon,
     <1>15, <1>16 DEF Step

-----------------------------------------------------------------------------
(* The log.                                                                *)

\* Steps that neither receive nor begin a command, and steps that begin one.
Quiet(p) ==
    /\ UNCHANGED <<done, cmd>> /\ pc[p] \notin {"run", "exited"} /\ pc'[p] \notin {"run", "exited"}
    /\ \A q \in Proxies : q # p => pc'[q] = pc[q] /\ ret'[q] = ret[q]
Begin(p) ==
    /\ pc[p] = "run" /\ pc'[p] # "run" /\ UNCHANGED <<cmd, ret>>
    /\ done' = [done EXCEPT ![p] = Append(@, cmd[p])]
    /\ \A q \in Proxies : q # p => pc'[q] = pc[q] \/ (Quit(p) /\ q[1] = p[1] /\ pc'[q] = "exited")

\* Every step of a proxy is a prompt, a receipt, the start of a command, or quiet.
LEMMA Kinds ==
    ASSUME TypeOK, NEW p \in Proxies, Step(p)
    PROVE  Quiet(p) \/ Begin(p) \/ RecvCmd(p) \/ (\E c \in Commands \cup {"quit"} : Prompt(p, c))
<1>0. /\ pc \in [Proxies -> Labels] /\ ret \in [Proxies -> {"top", "prompt", "gather"}]
      /\ \A q \in Proxies : ret[q] \in {"top", "prompt", "gather"}
  BY DEF TypeOK
<1> USE DEF Goto
<1>1. ASSUME Start(p) \/ Top(p) \/ EndEmu(p) PROVE Quiet(p)
  BY <1>0, <1>1 DEF Start, Top, EndEmu, CallBarrier, Quiet
<1>2. ASSUME EnterMPI(p) \/ LeaveMPI(p) \/ Arrive(p) \/ Pass(p) PROVE Quiet(p)
  BY <1>0, <1>2 DEF EnterMPI, LeaveMPI, Arrive, Pass, Quiet
<1>3. ASSUME Reload(p) \/ Aggregate(p) \/ RecvStr(p) \/ RecvStat(p) \/ SendMonitor(p) \/ Merge(p)
      PROVE  Quiet(p)
  BY <1>0, <1>3 DEF Reload, Aggregate, RecvStr, RecvStat, SendMonitor, Merge, Quiet
<1>4. ASSUME RunSingle(p) \/ RunConfig(p) PROVE Begin(p)
  BY <1>0, <1>4 DEF RunSingle, RunConfig, Begin
<1>5. ASSUME RunLoadStat(p) \/ RunEmu(p) PROVE Begin(p)
  BY <1>0, <1>5 DEF RunLoadStat, RunEmu, Begin
<1>6. ASSUME Quit(p) PROVE Begin(p)
  BY <1>0, <1>6 DEF Quit, Begin
<1> QED
  BY <1>1, <1>2, <1>3, <1>4, <1>5, <1>6 DEF Step

\* The actions that carry out a command, and those of the quiet kind.
LEMMA RunKinds ==
    ASSUME NEW p \in Proxies, Step(p), pc[p] = "run"
    PROVE  RunSingle(p) \/ RunConfig(p) \/ RunLoadStat(p) \/ RunEmu(p) \/ Quit(p)
BY Zenon DEF Step, Start, Top, EnterMPI, LeaveMPI, Arrive, Pass, Prompt, RecvCmd, RecvStr, Reload, RecvStat, EndEmu,
   SendMonitor, Merge, Aggregate

\* What the master has given out stays; only Prompt adds to it.
LEMMA LogStable ==
    ASSUME TypeOK, NEW p \in Proxies, Step(p)
    PROVE  /\ Issued \in Nat /\ Issued' \in Nat
           /\ Issued' = Issued \/ (Issued' = Issued + 1 /\ \E c \in Commands \cup {"quit"} : Prompt(p, c))
           /\ \A i \in 1 .. Issued : Cmd(i)' = Cmd(i)
<1>0. /\ Master \in Proxies /\ done \in [Proxies -> Seq(Messages)] /\ cmd \in [Proxies -> Messages]
      /\ pc \in [Proxies -> Labels] /\ done' \in [Proxies -> Seq(Messages)]
  BY ProxyFacts, TypeStep, Zenon DEF TypeOK
<1>1. CASE Quiet(p)
  <2>1. done'[Master] = done[Master] /\ cmd'[Master] = cmd[Master] /\ (pc'[Master] = "run" <=> pc[Master] = "run")
    BY <1>0, <1>1 DEF Quiet
  <2> QED
    BY <1>0, <2>1 DEF Issued, Cmd
<1>2. CASE Begin(p)
  <2>1. CASE p = Master
    <3>1. done'[Master] = Append(done[Master], cmd[Master]) /\ pc'[Master] # "run" /\ pc[Master] = "run"
      BY <1>0, <1>2, <2>1 DEF Begin
    <3>2. /\ Len(done'[Master]) = Len(done[Master]) + 1 /\ done'[Master][Len(done[Master]) + 1] = cmd[Master]
          /\ \A i \in 1 .. Len(done[Master]) : done'[Master][i] = done[Master][i]
          /\ Len(done[Master]) \in Nat
      BY <1>0, <3>1
    <3> QED
      BY <3>1, <3>2 DEF Issued, Cmd
  <2>2. CASE p # Master
    <3>1. pc'[Master] = pc[Master]
      <4>1. Quit(p) => p[1] # 0
        BY <2>2, ProxyFacts DEF Quit
      <4> QED
        BY <1>0, <1>2, <2>2, <4>1, ProxyFacts DEF Begin
    <3>2. done'[Master] = done[Master] /\ cmd' = cmd
      BY <1>0, <1>2, <2>2 DEF Begin
    <3> QED
      BY <1>0, <3>1, <3>2 DEF Issued, Cmd
  <2> QED
    BY <2>1, <2>2
<1>3. CASE RecvCmd(p)
  <2>1. done' = done /\ cmd'[Master] = cmd[Master] /\ pc'[Master] = pc[Master]
    BY <1>0, <1>3, ProxyFacts DEF RecvCmd, Goto
  <2> QED
    BY <1>0, <2>1 DEF Issued, Cmd
<1>4. ASSUME NEW c \in Commands \cup {"quit"}, Prompt(p, c)
      PROVE  Issued \in Nat /\ Issued' = Issued + 1 /\ \A i \in 1 .. Issued : Cmd(i)' = Cmd(i)
  <2>1. p = Master /\ pc[Master] = "prompt" /\ pc'[Master] = "run" /\ done' = done
    BY <1>0, <1>4, ProxyFacts DEF Prompt, Goto
  <2> QED
    BY <1>0, <2>1 DEF Issued, Cmd
<1> QED
  BY <1>1, <1>2, <1>3, <1>4, Kinds

\* Numbers of commands are natural numbers.
LEMMA GotNat ==
    ASSUME TypeOK
    PROVE  /\ Issued \in Nat
           /\ \A p \in Proxies : Got(p) \in Nat /\ Len(done[p]) \in Nat /\ Got(p) >= Len(done[p])
                                 /\ (pc[p] # "run" => Got(p) = Len(done[p]))
                                 /\ (pc[p] = "run" => Got(p) = Len(done[p]) + 1)
                                 /\ (done[p] = <<>> <=> Len(done[p]) = 0)
<1>1. ASSUME NEW p \in Proxies
      PROVE  /\ Got(p) \in Nat /\ Len(done[p]) \in Nat /\ Got(p) >= Len(done[p])
             /\ (pc[p] # "run" => Got(p) = Len(done[p]))
             /\ (pc[p] = "run" => Got(p) = Len(done[p]) + 1)
             /\ (done[p] = <<>> <=> Len(done[p]) = 0)
  <2>1. done[p] \in Seq(Messages)
    BY DEF TypeOK
  <2>2. Len(done[p]) \in Nat /\ (done[p] = <<>> <=> Len(done[p]) = 0)
    BY ONLY <2>1
  <2>3. CASE pc[p] = "run"
    BY <2>2, <2>3 DEF Got
  <2>4. CASE pc[p] # "run"
    BY <2>2, <2>4 DEF Got
  <2> QED
    BY ONLY <2>2, <2>3, <2>4
<1>2. Issued = Got(Master) /\ Master \in Proxies
  BY ProxyFacts DEF Issued, Got
<1> QED
  BY ONLY <1>1, <1>2

\* At first no command is given out, and nothing is in the queues.
LEMMA RestInit ==
    ASSUME TypeOK, Init
    PROVE  LogInv /\ PhaseInv /\ QuitInv /\ InboxInv /\ LeaderInv /\ MpiInv /\ EmuInv /\ MonitorInv
<1>1. \A p \in Proxies : /\ pc[p] = "start" /\ ret[p] = "top" /\ inbox[p] = <<>> /\ done[p] = <<>>
                         /\ ~ Gathering(p) /\ Len(done[p]) = 0
  BY DEF Init, Gathering, InBarrier
<1>2. Issued = 0 /\ Master \in Proxies /\ 0 \in Servers /\ Master[1] = 0 /\ \A p \in Proxies : Got(p) = 0 /\ p[1] \in Servers
  <2>1. ASSUME NEW p \in Proxies PROVE Got(p) = 0
    BY <1>1, GotNat
  <2>2. Issued = Got(Master)
    BY DEF Issued, Got
  <2> QED
    BY <2>1, <2>2, ProxyFacts
<1>3. LogInv
  BY <1>1, <1>2 DEF LogInv, LogAt
<1>4. PhaseInv
  BY <1>1 DEF PhaseInv, PhaseAt, InBarrier
<1>5. QuitInv
  BY <1>1, <1>2 DEF QuitInv
<1>6. InboxInv
  BY <1>1, <1>2 DEF InboxInv, InboxAt
<1>7. LeaderInv
  BY <1>1, <1>2 DEF LeaderInv, LeaderAt, Settings, Owed
<1>8. MpiInv
  BY <1>1, <1>2 DEF MpiInv, Entered, Init
<1>9. EmuInv
  BY <1>2 DEF EmuInv
<1>10. MonitorInv
  BY <1>1, <1>2 DEF MonitorInv
<1> QED
  BY <1>3, <1>4, <1>5, <1>6, <1>7, <1>8, <1>9, <1>10

\* A proxy receives the next command of the log, never settings.
LEMMA RecvNext ==
    ASSUME TypeOK, InboxInv, LeaderInv, LogInv, NEW p \in Proxies, RecvCmd(p)
    PROVE  Got(p) + 1 <= Issued /\ Head(inbox[p]) = Cmd(Got(p) + 1)
<1>0. pc[p] = "prompt" /\ ~ MASTER(p) /\ inbox[p] # <<>> /\ inbox[p] \in Seq(Messages)
  BY DEF RecvCmd, Take, TypeOK
<1>1. CASE ~ LEADER(p)
  <2>1. Len(inbox[p]) = Issued - Got(p) /\ \A i \in 1 .. Len(inbox[p]) : inbox[p][i] = Cmd(Got(p) + i)
    BY <1>0, <1>1 DEF InboxInv, InboxAt
  <2>2. Len(inbox[p]) \in Nat /\ Len(inbox[p]) >= 1 /\ Head(inbox[p]) = inbox[p][1]
    BY <1>0
  <2> QED
    BY <2>1, <2>2, GotNat
<1>2. CASE LEADER(p)
  <2>1. LeaderAt(p) /\ LogAt(p)
    BY DEF LeaderInv, LogInv
  <2>2. Got(p) # Issued
    <3>1. Got(p) = Issued => ~ Settings(p)
      BY <1>0 DEF Settings, Owed
    <3> QED
      BY <1>0, <1>2, <2>1, <3>1 DEF LeaderAt
  <2>3. Got(p) = Issued - 1
    BY <1>0, <1>2, <2>1, <2>2, GotNat DEF LeaderAt, LogAt
  <2>4. inbox[p] = <<Cmd(Issued), "str">> \/ inbox[p] = <<Cmd(Issued)>>
    BY <1>0, <1>2, <2>1, <2>3 DEF LeaderAt
  <2>5. Head(inbox[p]) = Cmd(Issued)
    BY <2>4
  <2> QED
    BY <2>3, <2>5, GotNat
<1> QED
  BY <1>1, <1>2

\* How far a proxy is, after a step.
LEMMA GotStep ==
    ASSUME TypeOK, NEW p \in Proxies, Step(p)
    PROVE  /\ RecvCmd(p) => Got(p)' = Got(p) + 1 /\ \A q \in Proxies : q # p => Got(q)' = Got(q)
           /\ Quiet(p) => \A q \in Proxies : Got(q)' = Got(q)
           /\ Begin(p) => /\ Got(p)' = Got(p)
                          /\ \A q \in Proxies : Got(q)' <= Got(q) /\ (pc'[q] # "exited" => Got(q)' = Got(q))
           /\ (\E c \in Commands \cup {"quit"} : Prompt(p, c)) =>
                 \A q \in Proxies : ~ MASTER(q) => Got(q)' = Got(q)
<1>0. /\ done \in [Proxies -> Seq(Messages)] /\ cmd \in [Proxies -> Messages] /\ pc \in [Proxies -> Labels]
      /\ \A q \in Proxies : done[q] \in Seq(Messages) /\ Len(done[q]) \in Nat
  BY DEF TypeOK
<1>1. ASSUME RecvCmd(p) PROVE Got(p)' = Got(p) + 1 /\ \A q \in Proxies : q # p => Got(q)' = Got(q)
  <2>1. done' = done /\ pc' = [pc EXCEPT ![p] = "run"] /\ pc[p] = "prompt"
    BY <1>1 DEF RecvCmd, Goto
  <2> QED
    BY <1>0, <2>1 DEF Got
<1>2. ASSUME Quiet(p), NEW q \in Proxies PROVE Got(q)' = Got(q)
  BY <1>0, <1>2 DEF Quiet, Got
<1>3. ASSUME Begin(p) PROVE Got(p)' = Got(p)
  <2>1. done'[p] = Append(done[p], cmd[p]) /\ cmd[p] \in Messages /\ pc[p] = "run" /\ pc'[p] # "run"
    BY <1>0, <1>3 DEF Begin
  <2>2. Len(done'[p]) = Len(done[p]) + 1
    BY <1>0, <2>1
  <2> QED
    BY <2>1, <2>2 DEF Got
<1>4. ASSUME Begin(p), NEW q \in Proxies PROVE Got(q)' <= Got(q) /\ (pc'[q] # "exited" => Got(q)' = Got(q))
  <2>1. CASE q = p
    BY <1>3, <1>4, <2>1, GotNat
  <2>2. CASE q # p
    <3>1. done'[q] = done[q] /\ (pc'[q] = pc[q] \/ pc'[q] = "exited")
      BY <1>0, <1>4, <2>2 DEF Begin
    <3> QED
      BY <1>0, <3>1 DEF Got
  <2> QED
    BY <2>1, <2>2
<1>5. ASSUME NEW c \in Commands \cup {"quit"}, Prompt(p, c), NEW q \in Proxies, ~ MASTER(q)
      PROVE  Got(q)' = Got(q)
  <2>1. q # p /\ done' = done /\ pc' = [pc EXCEPT ![p] = "run"]
    BY <1>5 DEF Prompt, Goto
  <2> QED
    BY <1>0, <2>1 DEF Got
<1> QED
  BY <1>1, <1>2, <1>3, <1>4, <1>5

\* Every proxy's commands remain a prefix of the prompter's.
LEMMA LogStep ==
    ASSUME TypeOK, InboxInv, LeaderInv, LogInv, NEW p \in Proxies, Step(p)
    PROVE  LogInv'
<1> SUFFICES ASSUME NEW q \in Proxies PROVE LogAt(q)'
  BY DEF LogInv
<1>0. /\ done \in [Proxies -> Seq(Messages)] /\ cmd \in [Proxies -> Messages] /\ pc \in [Proxies -> Labels]
      /\ done[q] \in Seq(Messages) /\ Len(done[q]) \in Nat /\ Got(q) \in Nat /\ Got(q) >= Len(done[q]) /\ LogAt(q)
  BY GotNat DEF TypeOK, LogInv
<1>l. /\ Issued \in Nat /\ Issued' \in Nat /\ Issued' >= Issued
      /\ \A i \in 1 .. Issued : Cmd(i)' = Cmd(i)
  BY LogStable
<1>1. ASSUME done'[q] = done[q], Got(q)' <= Got(q), cmd'[q] = cmd[q], pc'[q] = "run" => pc[q] = "run" /\ Got(q)' = Got(q)
      PROVE  LogAt(q)'
  <2>1. Got(q) <= Issued
    BY <1>0 DEF LogAt
  <2>2. Got(q)' <= Issued'
    BY <1>0, <1>1, <1>l, <2>1 DEF Got
  <2>3. ASSUME NEW i \in 1 .. Len(done'[q]) PROVE done'[q][i] = Cmd(i)'
    BY <1>0, <1>1, <1>l, <2>1 DEF LogAt
  <2>4. ASSUME pc'[q] = "run" PROVE cmd'[q] = Cmd(Got(q))'
    <3>1. Got(q) >= 1 /\ cmd[q] = Cmd(Got(q)) /\ Got(q)' = Got(q)
      BY <1>0, <1>1, <2>4 DEF LogAt, Got
    <3>2. Cmd(Got(q))' = Cmd(Got(q))
      BY <1>0, <1>l, <2>1, <3>1, SMTT(30) DEF Cmd
    <3> QED
      BY <1>1, <3>1, <3>2
  <2> QED
    BY <2>2, <2>3, <2>4 DEF LogAt
<1>2. CASE Quiet(p)
  BY <1>0, <1>1, <1>2, GotStep, SMTT(30) DEF Quiet
<1>3. CASE Begin(p) /\ q = p
  <2>1. done'[p] = Append(done[p], cmd[p]) /\ cmd[p] \in Messages /\ pc[p] = "run" /\ pc'[p] # "run"
    BY <1>0, <1>3 DEF Begin
  <2>2. /\ Len(done'[p]) = Len(done[p]) + 1 /\ done'[p][Len(done[p]) + 1] = cmd[p]
        /\ \A i \in 1 .. Len(done[p]) : done'[p][i] = done[p][i]
    BY <1>0, <1>3, <2>1
  <2>3. Got(p)' = Got(p) /\ Got(p) = Len(done[p]) + 1 /\ Got(p) <= Issued /\ cmd[p] = Cmd(Got(p))
    <3>1. Got(p)' = Got(p)
      BY <1>3, GotStep
    <3>2. Got(p) = Len(done[p]) + 1
      BY <1>3, <2>1 DEF Got
    <3> QED
      BY <1>0, <1>3, <2>1, <3>1, <3>2 DEF LogAt
  <2>4. ASSUME NEW i \in 1 .. Len(done'[p]) PROVE done'[p][i] = Cmd(i)'
    <3>1. i \in 1 .. Len(done[p]) \/ i = Len(done[p]) + 1
      BY <1>0, <1>3, <2>2
    <3>2. Cmd(i)' = Cmd(i)
      BY <1>0, <1>3, <1>l, <2>3, <3>1
    <3>3. CASE i \in 1 .. Len(done[p])
      BY <1>0, <1>3, <2>2, <3>2, <3>3 DEF LogAt
    <3>4. CASE i = Len(done[p]) + 1
      BY <2>2, <2>3, <3>2, <3>4
    <3> QED
      BY <3>1, <3>3, <3>4
  <2> QED
    BY <1>0, <1>3, <1>l, <2>1, <2>3, <2>4, SMTT(30) DEF LogAt
<1>4. CASE Begin(p) /\ q # p
  <2>1. done'[q] = done[q] /\ cmd'[q] = cmd[q] /\ (pc'[q] = "run" => pc[q] = "run")
    BY <1>0, <1>4 DEF Begin
  <2>2. Got(q)' <= Got(q) /\ (pc'[q] = "run" => Got(q)' = Got(q))
    BY <1>0, <1>4, GotStep, Zenon DEF Begin
  <2> QED
    BY <1>1, <2>1, <2>2
<1>5. CASE RecvCmd(p) /\ q = p
  <2>1. done' = done /\ cmd'[p] = Head(inbox[p])
    BY <1>0, <1>5 DEF RecvCmd
  <2>2. Got(p)' = Got(p) + 1 /\ Got(p) + 1 <= Issued /\ Head(inbox[p]) = Cmd(Got(p) + 1)
    BY <1>5, GotStep, RecvNext
  <2>3. Cmd(Got(p))' = Cmd(Got(p) + 1)
    <3>1. Got(p) + 1 \in 1 .. Issued
      BY <1>0, <1>5, <1>l, <2>2
    <3>2. PICK i \in 1 .. Issued : i = Got(p) + 1
      BY <3>1
    <3>3. Cmd(i)' = Cmd(i)
      BY <1>l
    <3>4. Cmd(Got(p))' = Cmd(i)'
      BY <2>2, <3>2 DEF Cmd
    <3> QED
      BY <3>2, <3>3, <3>4
  <2>4. \A i \in 1 .. Len(done'[p]) : done'[p][i] = Cmd(i)'
    BY <1>0, <1>5, <1>l, <2>1, <2>2 DEF LogAt
  <2> QED
    BY <1>0, <1>5, <1>l, <2>1, <2>2, <2>3, <2>4 DEF LogAt
<1>6. CASE RecvCmd(p) /\ q # p
  <2>1. Got(q)' = Got(q) /\ done' = done
    BY <1>6, GotStep, Zenon DEF RecvCmd
  <2>2. cmd'[q] = cmd[q] /\ pc'[q] = pc[q]
    BY <1>0, <1>6 DEF RecvCmd, Goto
  <2>3. Got(q)' <= Got(q)
    BY <1>0, <2>1
  <2> QED
    BY <1>1, <2>1, <2>2, <2>3
<1>7. ASSUME NEW c \in Commands \cup {"quit"}, Prompt(p, c) PROVE LogAt(q)'
  <2>1. p = Master /\ done' = done /\ cmd' = [cmd EXCEPT ![p] = c] /\ pc' = [pc EXCEPT ![p] = "run"]
        /\ pc[Master] = "prompt"
    BY <1>7, ProxyFacts DEF Prompt, Goto
  <2>2. CASE q = Master
    <3>1. Got(q)' = Issued' /\ Issued' = Len(done[q]) + 1
      BY <1>0, <2>1, <2>2 DEF Got, Issued
    <3>3. cmd'[q] = Cmd(Got(q))'
      BY <1>0, <2>1, <2>2, <3>1 DEF Cmd
    <3>2. \A i \in 1 .. Len(done'[q]) : done'[q][i] = Cmd(i)'
      BY <2>1, <2>2 DEF Cmd
    <3> QED
      BY <1>l, <3>1, <3>2, <3>3 DEF LogAt
  <2>3. CASE q # Master
    <3>1. Got(q)' = Got(q)
      BY <1>7, <2>3, GotStep, ProxyFacts
    <3>2. cmd'[q] = cmd[q] /\ pc'[q] = pc[q]
      BY <1>0, <2>1, <2>3
    <3> QED
      BY <1>0, <1>1, <2>1, <3>1, <3>2
  <2> QED
    BY <2>2, <2>3
<1> QED
  BY <1>2, <1>3, <1>4, <1>5, <1>6, <1>7, Kinds

\* The command p has begun last, after a step.
LEMMA LastCmd ==
    ASSUME TypeOK, LogInv, NEW p \in Proxies, Step(p)
    PROVE  /\ \A q \in Proxies : done'[q] = done[q] /\ done[q] # <<>> =>
                 Cmd(Len(done[q]))' = Cmd(Len(done[q]))
           /\ Begin(p) => done'[p] # <<>> /\ Cmd(Len(done[p]))' = cmd[p]
<1>l. Issued \in Nat /\ \A i \in 1 .. Issued : Cmd(i)' = Cmd(i)
  BY LogStable
<1>1. ASSUME NEW q \in Proxies, done'[q] = done[q], done[q] # <<>>
      PROVE  Cmd(Len(done[q]))' = Cmd(Len(done[q]))
  <2>1. Len(done[q]) \in 1 .. Issued
    BY <1>1, <1>l, GotNat DEF LogInv, LogAt
  <2> QED
    BY <1>1, <1>l, <2>1 DEF Cmd
<1>2. ASSUME Begin(p) PROVE done'[p] # <<>> /\ Cmd(Len(done[p]))' = cmd[p]
  <2>1. done[p] \in Seq(Messages) /\ cmd[p] \in Messages /\ done'[p] = Append(done[p], cmd[p])
    BY <1>2 DEF TypeOK, Begin
  <2>2. Len(done'[p]) = Len(done[p]) + 1 /\ done'[p] # <<>>
    BY <2>1
  <2>3. Got(p) \in 1 .. Issued /\ cmd[p] = Cmd(Got(p)) /\ Got(p) = Len(done[p]) + 1
    BY <1>2, <1>l, GotNat DEF LogInv, LogAt, Begin
  <2> QED
    BY <1>l, <2>2, <2>3 DEF Cmd
<1> QED
  BY <1>1, <1>2

\* Another proxy's step.
LEMMA OtherStep ==
    ASSUME TypeOK, NEW p \in Proxies, Step(p), NEW q \in Proxies, q # p
    PROVE  /\ done'[q] = done[q] /\ ret'[q] = ret[q] /\ cmd'[q] = cmd[q]
           /\ pc'[q] = pc[q] \/ (pc'[q] = "exited" /\ Quit(p) /\ q[1] = p[1])
<1>0. /\ done \in [Proxies -> Seq(Messages)] /\ pc \in [Proxies -> Labels] /\ cmd \in [Proxies -> Messages]
  BY DEF TypeOK
<1>1. CASE Quiet(p)
  BY <1>1, Zenon DEF Quiet
<1>2. CASE Begin(p)
  BY <1>0, <1>2 DEF Begin
<1>3. CASE RecvCmd(p)
  BY <1>0, <1>3 DEF RecvCmd, Goto
<1>4. ASSUME NEW c \in Commands \cup {"quit"}, Prompt(p, c)
      PROVE  done'[q] = done[q] /\ ret'[q] = ret[q] /\ cmd'[q] = cmd[q] /\ pc'[q] = pc[q]
  BY <1>0, <1>4 DEF Prompt, Goto
<1> QED
  BY <1>1, <1>2, <1>3, <1>4, Kinds

\* Where a proxy can be, given its last command.
LEMMA PhaseStep ==
    ASSUME TypeOK, LogInv, PhaseInv, NEW p \in Proxies, Step(p)
    PROVE  PhaseInv'
<1> SUFFICES ASSUME NEW q \in Proxies PROVE PhaseAt(q)'
  BY DEF PhaseInv
<1>0. /\ done \in [Proxies -> Seq(Messages)] /\ pc \in [Proxies -> Labels]
      /\ ret \in [Proxies -> {"top", "prompt", "gather"}]
  BY DEF TypeOK
<1>p. PhaseAt(q)
  BY DEF PhaseInv
<1>d. done'[q] = done[q] /\ done[q] # <<>> => Cmd(Len(done[q]))' = Cmd(Len(done[q]))
  BY LastCmd
<1>1. CASE q # p
  <2>1. done'[q] = done[q] /\ ret'[q] = ret[q] /\ (pc'[q] = pc[q] \/ pc'[q] = "exited")
    BY <1>1, OtherStep
  <2> QED
    BY <1>p, <1>d, <2>1 DEF PhaseAt, Gathering, InBarrier
<1>2. CASE q = p
  <2> USE DEF PhaseAt, Gathering, InBarrier, Goto
  <2>1. CASE Start(p) \/ Top(p) \/ EndEmu(p)
    BY <1>0, <1>2, <1>p, <1>d, <2>1 DEF Start, Top, EndEmu, CallBarrier
  <2>2. CASE EnterMPI(p) \/ LeaveMPI(p)
    BY <1>0, <1>2, <1>p, <1>d, <2>2 DEF EnterMPI, LeaveMPI
  <2>3. CASE Arrive(p)
    BY <1>0, <1>2, <1>p, <1>d, <2>3 DEF Arrive
  <2>4. CASE Pass(p)
    <3>1. pc'[p] = ret[p] /\ ret' = ret /\ pc[p] = "spin" /\ done' = done /\ ret[p] \in {"top", "prompt", "gather"}
      BY <1>0, <2>4 DEF Pass
    <3> QED
      BY <1>2, <1>p, <1>d, <3>1, ZenonT(30)
  <2>5. CASE Reload(p) \/ Aggregate(p) \/ RecvStat(p) \/ SendMonitor(p)
    BY <1>0, <1>2, <2>5 DEF Reload, Aggregate, RecvStat, SendMonitor
  <2>6. CASE RecvStr(p)
    BY <1>0, <1>2, <1>p, <1>d, <2>6 DEF RecvStr
  <2>7. CASE Merge(p)
    BY <1>0, <1>2, <1>p, <1>d, <2>7, Zenon DEF Merge
  <2>8. CASE RunSingle(p) \/ Quit(p)
    BY <1>0, <1>2, <2>8 DEF RunSingle, Quit
  <2>9. CASE RunConfig(p) \/ RunLoadStat(p) \/ RunEmu(p)
    <3>1. Begin(p)
      BY <2>9, Kinds, Zenon DEF RunConfig, RunLoadStat, RunEmu, Quiet, RecvCmd, Prompt
    <3>2. done'[p] # <<>> /\ Cmd(Len(done[p]))' = cmd[p]
      BY <3>1, LastCmd
    <3>3. CASE RunConfig(p)
      BY <1>0, <1>2, <3>2, <3>3 DEF RunConfig
    <3>4. CASE RunLoadStat(p)
      BY <1>0, <1>2, <3>2, <3>4 DEF RunLoadStat
    <3>5. CASE RunEmu(p)
      BY <1>0, <1>2, <3>2, <3>5 DEF RunEmu
    <3> QED
      BY <2>9, <3>3, <3>4, <3>5, Zenon
  <2>10. CASE RecvCmd(p) \/ \E c \in Commands \cup {"quit"} : Prompt(p, c)
    <3>1. pc'[p] = "run"
      BY <1>0, <2>10 DEF RecvCmd, Prompt
    <3> QED
      BY <1>2, <3>1
  <2> QED
    BY <2>1, <2>2, <2>3, <2>4, <2>5, <2>6, <2>7, <2>8, <2>9, <2>10, Zenon DEF Step
<1> QED
  BY <1>1, <1>2

\* A server has ended only after a "quit", which is the last command.
LEMMA QuitStep ==
    ASSUME TypeOK, LogInv, QuitInv, NEW p \in Proxies, Step(p)
    PROVE  QuitInv'
<1>0. /\ done \in [Proxies -> Seq(Messages)] /\ cmd \in [Proxies -> Messages] /\ pc \in [Proxies -> Labels]
      /\ Master \in Proxies /\ done[Master] \in Seq(Messages)
  BY ProxyFacts DEF TypeOK
<1>l. Issued \in Nat /\ Issued' \in Nat /\ Issued' >= Issued /\ \A i \in 1 .. Issued : Cmd(i)' = Cmd(i)
  BY LogStable
<1>1. ASSUME NEW i \in 1 .. Len(done'[Master]), done'[Master][i] = "quit" PROVE pc'[Master] = "exited"
  <2>1. CASE done'[Master] = done[Master]
    <3>1. pc[Master] = "exited"
      BY <1>1, <2>1 DEF QuitInv
    <3>2. \A q \in Proxies : pc'[q] = pc[q] \/ pc'[q] = "exited" \/ pc[q] # "exited"
      <4>1. CASE Quiet(p)
        BY <4>1 DEF Quiet
      <4>2. CASE Begin(p)
        BY <4>2 DEF Begin
      <4>3. CASE RecvCmd(p) \/ \E c \in Commands \cup {"quit"} : Prompt(p, c)
        BY <1>0, <4>3 DEF RecvCmd, Prompt, Goto
      <4> QED
        BY <4>1, <4>2, <4>3, Kinds
    <3> QED
      BY <1>0, <3>1, <3>2
  <2>2. CASE done'[Master] # done[Master]
    <3>1. Begin(p) /\ p = Master
      BY <1>0, <2>2, Kinds, Zenon DEF Quiet, Begin, RecvCmd, Prompt
    <3>2. done'[Master] = Append(done[Master], cmd[Master]) /\ cmd[Master] \in Messages
      BY <1>0, <3>1 DEF Begin
    <3>3. /\ Len(done'[Master]) = Len(done[Master]) + 1 /\ done'[Master][Len(done[Master]) + 1] = cmd[Master]
          /\ \A j \in 1 .. Len(done[Master]) : done'[Master][j] = done[Master][j]
      BY <1>0, <3>2
    <3>4. pc[Master] = "run"
      BY <3>1 DEF Begin
    <3>5. cmd[Master] = "quit"
      BY <1>0, <1>1, <3>3, <3>4 DEF QuitInv
    <3>6. Quit(p)
      <4>1. LEADER(p) /\ done' # done
        BY <2>2, <3>1, ProxyFacts
      <4> QED
        BY <3>1, <3>4, <3>5, <4>1, RunKinds, Zenon DEF RunSingle, RunConfig, RunLoadStat, RunEmu
    <3> QED
      BY <1>0, <3>1, <3>6 DEF Quit
  <2> QED
    BY <2>1, <2>2
<1>2. ASSUME NEW q \in Proxies, pc'[q] = "exited" PROVE \E i \in 1 .. Issued' : Cmd(i)' = "quit"
  <2>1. CASE pc[q] = "exited"
    BY <1>l, <2>1 DEF QuitInv
  <2>2. CASE pc[q] # "exited"
    <3>1. Quit(p)
      <4>1. CASE Quiet(p)
        BY <1>2, <2>2, <4>1 DEF Quiet
      <4>2. CASE RecvCmd(p) \/ \E c \in Commands \cup {"quit"} : Prompt(p, c)
        BY <1>0, <1>2, <2>2, <4>2 DEF RecvCmd, Prompt, Goto
      <4>3. CASE Begin(p) /\ q # p
        BY <1>2, <2>2, <4>3 DEF Begin
      <4>4. CASE Begin(p) /\ q = p
        <5>1. ~ Quit(p) => pc'[p] # "exited"
          <6>1. pc[p] = "run"
            BY <4>4 DEF Begin
          <6>2. ~ Quit(p) => RunSingle(p) \/ RunConfig(p) \/ RunLoadStat(p) \/ RunEmu(p)
            BY <6>1, RunKinds
          <6>3. RunSingle(p) \/ RunConfig(p) \/ RunLoadStat(p) \/ RunEmu(p) => pc'[p] # "exited"
            BY <1>0, Zenon DEF RunSingle, RunConfig, RunLoadStat, RunEmu, Goto
          <6> QED
            BY <6>2, <6>3
        <5> QED
          BY <1>2, <4>4, <5>1
      <4> QED
        BY <4>1, <4>2, <4>3, <4>4, Kinds
    <3>2. Got(p) \in 1 .. Issued /\ Cmd(Got(p)) = "quit"
      BY <1>l, <3>1, GotNat, SMTT(30) DEF Quit, LogInv, LogAt
    <3> QED
      BY <1>l, <3>2
  <2> QED
    BY <2>1, <2>2
<1> QED
  BY <1>1, <1>2 DEF QuitInv

-----------------------------------------------------------------------------
(* Queues.                                                                 *)

\* Who has ended does nothing more.
LEMMA ExitedStays ==
    ASSUME TypeOK, NEW p \in Proxies, Step(p), NEW q \in Proxies, pc[q] = "exited"
    PROVE  pc'[q] = "exited"
<1>0. pc \in [Proxies -> Labels]
  BY DEF TypeOK
<1>1. CASE Quiet(p)
  BY <1>1 DEF Quiet
<1>2. CASE Begin(p)
  BY <1>2 DEF Begin
<1>3. CASE RecvCmd(p) \/ \E c \in Commands \cup {"quit"} : Prompt(p, c)
  BY <1>0, <1>3 DEF RecvCmd, Prompt, Goto
<1> QED
  BY <1>1, <1>2, <1>3, Kinds

\* A step keeps what is in the queues in order.
LEMMA QueueStep ==
    \A p \in Proxies :
        /\ TypeOK /\ LogInv /\ PhaseInv /\ QuitInv /\ InboxInv /\ LeaderInv /\ LeadersReady
        /\ Step(p)
        => InboxInv' /\ LeaderInv'

\* The actions of a quiet step.
<1>QuietKinds.
    ASSUME TypeOK, NEW p \in Proxies, Step(p), Quiet(p)
    PROVE  \/ Start(p) \/ Top(p) \/ EnterMPI(p) \/ LeaveMPI(p) \/ Arrive(p) \/ Pass(p)
           \/ RecvStr(p) \/ Reload(p) \/ RecvStat(p) \/ EndEmu(p) \/ SendMonitor(p) \/ Merge(p) \/ Aggregate(p)
  <2> USE <1>QuietKinds
  <2>1. pc[p] # "run" /\ pc'[p] # "run" /\ pc \in [Proxies -> Labels]
    BY DEF Quiet, TypeOK
  <2>2. ~ RunSingle(p) /\ ~ RunConfig(p) /\ ~ RunLoadStat(p) /\ ~ RunEmu(p) /\ ~ Quit(p)
    BY <2>1 DEF RunSingle, RunConfig, RunLoadStat, RunEmu, Quit
  <2>3. ~ RecvCmd(p) /\ \A c \in Commands \cup {"quit"} : ~ Prompt(p, c)
    BY <2>1 DEF RecvCmd, Prompt, Goto
  <2> QED
    BY <2>2, <2>3 DEF Step

\* Settings and statistics go to leaders only.
<1>LeaderMail.
    ASSUME TypeOK, PhaseInv, NEW p \in Proxies, Quiet(p) \/ Begin(p), Step(p),
           NEW q \in Proxies, ~ LEADER(q)
    PROVE  inbox'[q] = inbox[q]
  <2> USE <1>LeaderMail
  <2>0. inbox \in [Proxies -> Seq(Messages)] /\ PhaseAt(p) /\ q # Master /\ pc \in [Proxies -> Labels]
    BY ProxyFacts, Zenon DEF TypeOK, PhaseInv
  <2>1. CASE RunConfig(p)
    <3>1. inbox' = inbox \/ Tell({r \in Proxies : LEADER(r)} \ {p}, "str")
      BY <2>1, Zenon DEF RunConfig
    <3> QED
      BY <2>0, <3>1 DEF Tell
  <2>2. CASE RecvStr(p)
    <3>1. LEADER(p)
      BY <2>0, <2>2 DEF RecvStr, PhaseAt
    <3>2. p # q /\ inbox' = [inbox EXCEPT ![p] = Tail(@)]
      BY <2>2, <3>1 DEF RecvStr, Take
    <3> QED
      BY <2>0, <3>2, Zenon
  <2>3. CASE SendMonitor(p)
    <3>1. Tell({Master}, <<p, Len(done[p])>>)
      BY <2>3 DEF SendMonitor, Master
    <3> QED
      BY <2>0, <3>1 DEF Tell
  <2>4. CASE Merge(p)
    <3>1. p = Master /\ inbox' = [inbox EXCEPT ![p] = Tail(@)]
      BY <2>4, ProxyFacts DEF Merge, Take
    <3> QED
      BY <2>0, <3>1
  <2>5. CASE ~ RunConfig(p) /\ ~ RecvStr(p) /\ ~ SendMonitor(p) /\ ~ Merge(p)
    <3>1. ~ RecvCmd(p) /\ \A c \in Commands \cup {"quit"} : ~ Prompt(p, c)
      BY <2>0, Zenon DEF Quiet, Begin, RecvCmd, Prompt, Goto
    <3> QED
      BY <2>5, <3>1, ZenonT(30) DEF Step, Start, Top, EnterMPI, LeaveMPI, Arrive, Pass, RunSingle, Reload, RunLoadStat,
         RecvStat, RunEmu, EndEmu, Aggregate, Quit
  <2> QED
    BY <2>1, <2>2, <2>3, <2>4, <2>5

\* The queue of a proxy holds the commands it has not taken, in order.
<1>InboxStep.
    ASSUME TypeOK, LogInv, PhaseInv, InboxInv, LeaderInv, NEW p \in Proxies, Step(p)
    PROVE  InboxInv'
  <2> USE <1>InboxStep
  <2> SUFFICES ASSUME NEW q \in Proxies, ~ LEADER(q), pc'[q] # "exited" PROVE InboxAt(q)'
    BY DEF InboxInv, InboxAt
  <2>0. /\ inbox \in [Proxies -> Seq(Messages)] /\ inbox[q] \in Seq(Messages) /\ cmd \in [Proxies -> Messages]
        /\ done \in [Proxies -> Seq(Messages)] /\ pc \in [Proxies -> Labels]
        /\ Got(q) \in Nat /\ Issued \in Nat /\ Got(q) <= Issued /\ ~ MASTER(q)
    BY GotNat, ProxyFacts, ZenonT(30) DEF TypeOK, LogInv, LogAt
  <2>l. /\ Issued' = Issued \/ (Issued' = Issued + 1 /\ \E c \in Commands \cup {"quit"} : Prompt(p, c))
        /\ \A i \in 1 .. Issued : Cmd(i)' = Cmd(i)
    BY LogStable
  <2>i. /\ Len(inbox[q]) \in Nat /\ Len(inbox[q]) = Issued - Got(q)
        /\ \A i \in 1 .. Len(inbox[q]) : inbox[q][i] = Cmd(Got(q) + i)
    BY <2>0, ExitedStays DEF InboxInv, InboxAt
  <2>1. ASSUME inbox'[q] = inbox[q], Got(q)' = Got(q), Issued' = Issued PROVE InboxAt(q)'
    <3>1. ASSUME NEW i \in 1 .. Len(inbox'[q]) PROVE inbox'[q][i] = Cmd(Got(q) + i)'
      <4>1. Got(q) + i \in 1 .. Issued
        BY <2>0, <2>1, <2>i
      <4> QED
        BY <2>0, <2>1, <2>l, <2>i, <4>1, Zenon DEF Cmd
    <3> QED
      BY <2>1, <2>i, <3>1 DEF InboxAt
  <2>2. CASE Quiet(p) \/ Begin(p)
    <3>1. inbox'[q] = inbox[q]
      BY <2>2, <1>LeaderMail
    <3>2. Got(q)' = Got(q)
      BY <2>2, GotStep, Zenon
    <3>3. Issued' = Issued
      BY <2>0, <2>2, <2>l DEF Quiet, Begin, Prompt, Goto
    <3> QED
      BY <2>1, <3>1, <3>2, <3>3
  <2>3. CASE RecvCmd(p)
    <3>0. Issued' = Issued
      BY <2>0, <2>3, <2>l, Zenon DEF RecvCmd, Prompt
    <3>1. CASE q # p
      <4>1. inbox'[q] = inbox[q] /\ Got(q)' = Got(q)
        BY <2>0, <2>3, <3>1, GotStep, Zenon DEF RecvCmd, Take
      <4> QED
        BY <2>1, <3>0, <4>1, Zenon
    <3>2. CASE q = p
      <4>1. inbox'[q] = Tail(inbox[q]) /\ inbox[q] # <<>> /\ Got(q)' = Got(q) + 1
        BY <2>0, <2>3, <3>2, GotStep, Zenon DEF RecvCmd, Take
      <4>2. /\ Len(inbox'[q]) = Len(inbox[q]) - 1
            /\ \A i \in 1 .. Len(inbox[q]) - 1 : inbox'[q][i] = inbox[q][i + 1]
        BY <2>0, <4>1
      <4>3. ASSUME NEW i \in 1 .. Len(inbox'[q]) PROVE inbox'[q][i] = Cmd(Got(q) + i)'
        <5>1. inbox'[q][i] = Cmd(Got(q) + (i + 1)) /\ Got(q) + (i + 1) \in 1 .. Issued
          <6>1. i + 1 \in 1 .. Len(inbox[q]) /\ i \in 1 .. Len(inbox[q]) - 1
            BY <2>i, <4>2
          <6>2. inbox[q][i + 1] = Cmd(Got(q) + (i + 1))
            BY ONLY <2>i, <6>1
          <6>3. Got(q) + (i + 1) \in 1 .. Issued
            <7>1. \A g, n \in Nat : \A k \in 1 .. n - g : g + k \in 1 .. n
              OBVIOUS
            <7> QED
              BY <2>0, <2>i, <6>1, <7>1, Zenon
          <6> QED
            BY ONLY <4>2, <6>1, <6>2, <6>3
        <5>2. Got(q)' + i = Got(q) + (i + 1)
          BY <2>0, <2>i, <4>1, <4>2
        <5> QED
          BY <2>l, <5>1, <5>2, Zenon DEF Cmd
      <4> QED
        BY <2>0, <2>i, <3>0, <4>1, <4>2, <4>3 DEF InboxAt
    <3> QED
      BY <3>1, <3>2
  <2>4. ASSUME NEW c \in Commands \cup {"quit"}, Prompt(p, c) PROVE InboxAt(q)'
    <3>1. /\ p = Master /\ inbox'[q] = Append(inbox[q], c) /\ pc'[Master] = "run" /\ cmd'[Master] = c
          /\ done' = done /\ pc[Master] = "prompt"
      BY <2>0, <2>4, ProxyFacts DEF Prompt, Goto, Tell
    <3>2. Got(q)' = Got(q)
      BY <2>0, <2>4, GotStep, Zenon
    <3>3. Issued = Len(done[Master]) /\ Issued' = Issued + 1
      BY <3>1, <2>0, ProxyFacts DEF Issued
    <3>4. /\ Len(inbox'[q]) = Len(inbox[q]) + 1 /\ inbox'[q][Len(inbox[q]) + 1] = c
          /\ \A i \in 1 .. Len(inbox[q]) : inbox'[q][i] = inbox[q][i]
      <4>1. c \in Messages
        BY DEF Messages
      <4> QED
        BY <2>0, <3>1, <4>1
    <3>5. ASSUME NEW i \in 1 .. Len(inbox'[q]) PROVE inbox'[q][i] = Cmd(Got(q) + i)'
      <4>1. CASE i <= Len(inbox[q])
        <5>1. inbox'[q][i] = Cmd(Got(q) + i) /\ Got(q) + i \in 1 .. Issued
          <6>1. i \in 1 .. Len(inbox[q])
            BY <2>i, <3>4, <4>1
          <6>2. inbox[q][i] = Cmd(Got(q) + i)
            BY ONLY <2>i, <6>1
          <6>3. Got(q) + i \in 1 .. Issued
            BY <2>0, <2>i, <6>1
          <6> QED
            BY ONLY <3>4, <6>1, <6>2, <6>3
        <5> QED
          BY <2>l, <3>2, <5>1 DEF Cmd
      <4>2. CASE i = Len(inbox[q]) + 1
        <5>0. Len(inbox[q]) \in Nat
          BY <2>0
        <5>1. Got(q)' + i = Len(done'[Master]) + 1 /\ Len(done'[Master]) \in Nat
          BY <2>0, <2>i, <3>1, <3>2, <3>3, <4>2, <5>0, SMTT(30)
        <5> QED
          BY <3>1, <3>4, <4>2, <5>1 DEF Cmd
      <4> QED
        BY <2>i, <3>4, <4>1, <4>2
    <3> QED
      BY <2>0, <2>i, <3>2, <3>3, <3>4, <3>5, SMTT(30) DEF InboxAt
  <2> QED
    BY <2>2, <2>3, <2>4, Kinds

\* What q has waiting changes by q's own steps and the master's only.
<1>OtherMail.
    ASSUME TypeOK, NEW p \in Proxies, Step(p), NEW q \in Proxies, q # Master, q # p,
           ~ (p = Master /\ RunConfig(p)), \A c \in Commands \cup {"quit"} : ~ Prompt(p, c)
    PROVE  inbox'[q] = inbox[q]
  <2> USE <1>OtherMail
  <2>0. inbox \in [Proxies -> Seq(Messages)]
    BY DEF TypeOK
  <2>1. CASE RunConfig(p)
    BY <2>1, ProxyFacts DEF RunConfig
  <2>2. CASE RecvCmd(p) \/ RecvStr(p) \/ Merge(p)
    BY <2>0, <2>2 DEF RecvCmd, RecvStr, Merge, Take
  <2>3. CASE SendMonitor(p)
    BY <2>0, <2>3, ZenonT(30) DEF SendMonitor, Tell, Master
  <2>4. CASE Start(p) \/ Top(p) \/ EnterMPI(p) \/ LeaveMPI(p) \/ Arrive(p) \/ Pass(p) \/ RunSingle(p)
    BY <2>4, ZenonT(30) DEF Start, Top, EnterMPI, LeaveMPI, Arrive, Pass, RunSingle
  <2>5. CASE Reload(p) \/ RunLoadStat(p) \/ RecvStat(p) \/ RunEmu(p) \/ EndEmu(p) \/ Aggregate(p) \/ Quit(p)
    BY <2>5, Zenon DEF Reload, RunLoadStat, RecvStat, RunEmu, EndEmu, Aggregate, Quit
  <2> QED
    BY <2>1, <2>2, <2>3, <2>4, <2>5, Zenon DEF Step

\* Short queues.
<1>ShortQueues.
    ASSUME NEW a \in Messages, NEW b \in Messages
    PROVE  /\ Append(<<>>, a) = <<a>> /\ Append(<<a>>, b) = <<a, b>>
           /\ Tail(<<a, b>>) = <<b>> /\ Tail(<<a>>) = <<>>
  <2>1. Append(<<a>>, b) = <<a, b>>
    <3> DEFINE s == Append(<<a>>, b)
    <3>1. <<a>> \in Seq(Messages) /\ Len(<<a>>) = 1
      OBVIOUS
    <3>2. s \in Seq(Messages) /\ Len(s) = 2 /\ s[1] = a /\ s[2] = b
      BY <3>1
    <3> HIDE DEF s
    <3>3. s = [i \in 1 .. 2 |-> s[i]]
      BY <3>2
    <3>4. s = <<a, b>>
      BY <3>2, <3>3
    <3> QED
      BY <3>4 DEF s
  <2>2. Tail(<<a, b>>) = <<b>>
    OBVIOUS
  <2>3. Append(<<>>, a) = <<a>> /\ Tail(<<a>>) = <<>>
    OBVIOUS
  <2> QED
    BY <2>1, <2>2, <2>3

\* The two places a leader can be in after a step.
<1>LeaderForms.
    ASSUME NEW q \in Proxies, Issued' \in Nat,
           Issued' >= 1 /\ Cmd(Issued)' = "config" /\ pc'[Master] = "run" => Owed(q)'
    PROVE  /\ Got(q)' = Issued' /\ inbox'[q] = (IF Settings(q)' THEN <<"str">> ELSE <<>>) => LeaderAt(q)'
           /\ (/\ Got(q)' = Issued' - 1 /\ AtRest(q)'
               /\ inbox'[q] = (IF Settings(q)' THEN <<Cmd(Issued)', "str">> ELSE <<Cmd(Issued)'>>)) => LeaderAt(q)'
  <2> USE <1>LeaderForms
  <2>0. PICK i \in Nat : i = Issued'
    OBVIOUS
  <2>a. i # i - 1 /\ i >= i - 1 /\ i - 1 >= i - 1
    OBVIOUS
  <2>1. ASSUME Got(q)' = Issued', inbox'[q] = (IF Settings(q)' THEN <<"str">> ELSE <<>>) PROVE LeaderAt(q)'
    <3>0. Got(q)' = i
      BY <2>0, <2>1, Zenon
    <3>1. Got(q)' # Issued' - 1 /\ Got(q)' >= Issued' - 1
      BY ONLY <2>0, <2>a, <3>0, Zenon
    <3> QED
      BY <2>1, <3>1, Zenon DEF LeaderAt
  <2>2. ASSUME Got(q)' = Issued' - 1, AtRest(q)',
               inbox'[q] = (IF Settings(q)' THEN <<Cmd(Issued)', "str">> ELSE <<Cmd(Issued)'>>)
        PROVE  LeaderAt(q)'
    <3>0. Got(q)' = i - 1
      BY <2>0, <2>2, Zenon
    <3>1. Got(q)' # Issued' /\ Got(q)' >= Issued' - 1
      BY ONLY <2>0, <2>a, <3>0, Zenon
    <3> QED
      BY <2>2, <3>1, Zenon DEF LeaderAt
  <2> QED
    BY <2>1, <2>2

\* The queue of a leader, which is at most one command behind.
<1>LeaderStep.
    ASSUME TypeOK, LogInv, PhaseInv, QuitInv, InboxInv, LeaderInv, LeadersReady, NEW p \in Proxies, Step(p)
    PROVE  LeaderInv'
  <2> USE <1>LeaderStep
  <2> SUFFICES ASSUME NEW q \in Proxies, LEADER(q), ~ MASTER(q), pc'[q] # "exited" PROVE LeaderAt(q)'
    BY Zenon DEF LeaderInv, LeaderAt
  <2>0. /\ inbox \in [Proxies -> Seq(Messages)] /\ inbox[q] \in Seq(Messages)
        /\ done \in [Proxies -> Seq(Messages)] /\ pc \in [Proxies -> Labels] /\ cmd \in [Proxies -> Messages]
        /\ ret \in [Proxies -> {"top", "prompt", "gather"}]
        /\ Master \in Proxies /\ q # Master /\ pc[q] # "exited"
    BY ProxyFacts, ExitedStays, Zenon DEF TypeOK
  <2>1. /\ Got(q) \in Nat /\ Issued \in Nat /\ Got(q) <= Issued /\ Got(q) >= Issued - 1
        /\ Got(q) = Issued - 1 \/ Got(q) = Issued
    BY <2>0, GotNat, SMTT(30) DEF LogInv, LogAt, LeaderInv, LeaderAt
  <2>2. LeaderAt(q)
    BY DEF LeaderInv
  <2>l. /\ Issued' = Issued \/ (Issued' = Issued + 1 /\ \E c \in Commands \cup {"quit"} : Prompt(p, c))
        /\ \A i \in 1 .. Issued : Cmd(i)' = Cmd(i)
    BY LogStable
  <2>m. p # Master => pc'[Master] = pc[Master]
    <3>1. p # Master /\ Quit(p) => p[1] # Master[1]
      BY ProxyFacts DEF Quit
    <3> QED
      BY <2>0, <3>1, OtherStep, Zenon
  <2>c. Issued' = Issued /\ Issued >= 1 => Cmd(Issued)' = Cmd(Issued)
    BY <2>1, <2>l
  <2>g. Got(q) = Issued - 1 => Issued >= 1
    BY <2>1
  \* Nothing that LeaderAt(q) looks at changes.
  <2>3. ASSUME inbox'[q] = inbox[q], Got(q)' = Got(q), Issued' = Issued,
               pc'[q] = pc[q], ret'[q] = ret[q], pc'[Master] = "run" <=> pc[Master] = "run"
        PROVE  LeaderAt(q)'
    <3>1. Owed(q)' <=> Owed(q)
      BY <2>c, <2>3 DEF Owed
    <3>2. Settings(q)' <=> Settings(q)
      BY <3>1, <2>3 DEF Settings
    <3>3. AtRest(q)' <=> AtRest(q)
      BY <2>3 DEF AtRest
    <3> QED
      BY <2>0, <2>2, <2>c, <2>g, <2>3, <3>1, <3>2, <3>3, ZenonT(30) DEF LeaderAt
  <2>4. ASSUME NEW c \in Commands \cup {"quit"}, Prompt(p, c) PROVE LeaderAt(q)'
    <3>1. /\ p = Master /\ inbox'[q] = Append(inbox[q], c) /\ pc'[Master] = "run" /\ cmd'[Master] = c
          /\ done' = done /\ ret' = ret /\ pc[Master] = "prompt" /\ pc'[q] = pc[q]
      BY <2>0, <2>4, ProxyFacts, Zenon DEF Prompt, Goto, Tell
    <3>2. Got(q) = Issued /\ AtRest(q)
      BY <3>1 DEF LeadersReady
    <3>3. ~ Settings(q)
      BY <3>2 DEF Settings, Owed, AtRest
    <3>4. inbox[q] = <<>>
      BY <2>0, <2>2, <3>2, <3>3 DEF LeaderAt
    <3>5. inbox'[q] = <<c>>
      BY <3>1, <3>4
    <3>6. Issued' = Issued + 1 /\ Len(done[Master]) = Issued /\ Got(q)' = Got(q) /\ ~ Settings(q)'
      <4>1. Len(done[Master]) \in Nat
        BY <2>0, GotNat
      <4>2. Issued = Len(done[Master]) /\ Issued' = Len(done[Master]) + 1
        BY <3>1, <4>1 DEF Issued
      <4>3. Got(q)' = Got(q)
        BY <2>4, GotStep
      <4> QED
        BY <3>1, <4>2, <4>3 DEF Settings
    <3>7. Cmd(Issued)' = c
      BY <2>1, <3>1, <3>6, SMTT(30) DEF Cmd
    <3>8. AtRest(q)'
      BY <3>1, <3>2 DEF AtRest
    <3>9. Owed(q)' <=> Cmd(Issued)' = "config"
      BY <2>1, <3>2, <3>6 DEF Owed
    <3> QED
      <4>1. Issued' \in Nat /\ Got(q)' = Issued' - 1
        BY <2>1, <3>2, <3>6
      <4> QED
        BY <3>5, <3>6, <3>7, <3>8, <3>9, <4>1, <1>LeaderForms, Zenon
  <2>5. ASSUME p = Master, \A c \in Commands \cup {"quit"} : ~ Prompt(p, c) PROVE LeaderAt(q)'
    <3>0. pc'[q] = pc[q] /\ ret'[q] = ret[q] /\ Issued' = Issued
      BY <2>0, <2>5, <2>l, OtherStep, Zenon
    <3>1. Got(q)' = Got(q)
      BY <2>0, <2>5, Kinds, GotStep, ZenonT(30)
    <3>2. CASE RunConfig(p)
      <4>1. pc[Master] = "run" /\ cmd[Master] = "config" /\ inbox'[q] = Append(inbox[q], "str") /\ pc'[Master] = "reload"
        BY <2>0, <2>5, <3>2, ProxyFacts, Zenon DEF RunConfig, Tell, Goto
      <4>2. Issued >= 1 /\ Cmd(Issued) = "config"
        BY <2>0, <4>1, GotNat DEF Issued, Cmd
      <4>3. Owed(q) /\ ~ Settings(q)
        BY <2>0, <2>2, <4>1, <4>2, Zenon DEF LeaderAt, Settings
      <4>4. Owed(q)' /\ Settings(q)'
        BY <2>c, <3>0, <3>1, <4>1, <4>2, <4>3 DEF Owed, Settings
      <4>5. CASE Got(q) = Issued - 1
        <5>1. inbox[q] = <<Cmd(Issued)>> /\ AtRest(q)
          BY <2>0, <2>2, <4>3, <4>5 DEF LeaderAt
        <5>2. inbox'[q] = <<Cmd(Issued), "str">>
          <6>1. "str" \in Messages
            BY DEF Messages
          <6>2. Cmd(Issued) \in Messages
            BY <2>0, <5>1
          <6> QED
            BY <4>1, <5>1, <6>1, <6>2, <1>ShortQueues, Zenon
        <5>3. AtRest(q)'
          BY <3>0, <5>1 DEF AtRest
        <5> QED
          BY <2>1, <2>c, <3>0, <3>1, <4>2, <4>4, <4>5, <5>2, <5>3, <1>LeaderForms, Zenon
      <4>6. CASE Got(q) = Issued
        <5>1. inbox[q] = <<>>
          BY <2>0, <2>2, <4>3, <4>6 DEF LeaderAt
        <5>2. inbox'[q] = <<"str">>
          BY <4>1, <5>1
        <5> QED
          BY <2>1, <3>0, <3>1, <4>4, <4>6, <5>2, <1>LeaderForms, ZenonT(30)
      <4> QED
        BY <2>1, <4>5, <4>6
    <3>3. CASE ~ RunConfig(p)
      <4>1. inbox'[q] = inbox[q]
        BY <2>0, <2>5, <3>3, <1>OtherMail, Zenon
      <4>2. CASE Quiet(p)
        BY <2>3, <2>5, <3>0, <3>1, <4>1, <4>2 DEF Quiet
      <4>3. CASE Begin(p)
        <5>1. pc[Master] = "run" /\ pc'[Master] # "run" /\ cmd[Master] # "config"
          <6>1. pc[p] = "run" /\ pc'[p] # "run" /\ LEADER(p)
            BY <2>5, <4>3, ProxyFacts DEF Begin
          <6> QED
            BY <2>5, <3>3, <6>1, RunKinds, Zenon DEF RunSingle, RunConfig, RunLoadStat, RunEmu, Quit
        <5>2. Issued >= 1 /\ Cmd(Issued) # "config" /\ Cmd(Issued)' # "config"
          <6>1. Issued >= 1 /\ Cmd(Issued) # "config"
            BY <2>0, <5>1, GotNat DEF Issued, Cmd
          <6> QED
            BY <2>c, <3>0, <6>1
        <5>3. ~ Owed(q) /\ ~ Settings(q) /\ ~ Owed(q)' /\ ~ Settings(q)'
          BY <5>2 DEF Owed, Settings
        <5>4. AtRest(q)' <=> AtRest(q)
          BY <3>0 DEF AtRest
        <5> QED
          BY <2>0, <2>2, <2>c, <3>0, <3>1, <4>1, <5>2, <5>3, <5>4, ZenonT(30) DEF LeaderAt
      <4> QED
        BY <2>5, <4>2, <4>3, Kinds, ProxyFacts, Zenon DEF RecvCmd
    <3> QED
      BY <3>2, <3>3
  <2>6. ASSUME p # Master, p # q PROVE LeaderAt(q)'
    <3>0. \A c \in Commands \cup {"quit"} : ~ Prompt(p, c)
      BY <2>6, ProxyFacts DEF Prompt
    <3>1. pc'[q] = pc[q] /\ ret'[q] = ret[q] /\ Issued' = Issued
      BY <2>6, <2>l, <3>0, OtherStep
    <3>2. Got(q)' = Got(q)
      BY <2>6, <3>0, Kinds, GotStep
    <3>3. inbox'[q] = inbox[q]
      BY <2>0, <2>6, <3>0, <1>OtherMail, ZenonT(30)
    <3> QED
      BY <2>3, <2>6, <2>m, <3>1, <3>2, <3>3
  <2>7. ASSUME p = q PROVE LeaderAt(q)'
    <3>0. pc'[Master] = pc[Master] /\ Issued' = Issued /\ (Issued >= 1 => Cmd(Issued)' = Cmd(Issued))
      <4>1. \A c \in Commands \cup {"quit"} : ~ Prompt(p, c)
        BY <2>7, ZenonT(30) DEF Prompt
      <4> QED
        BY <2>0, <2>7, <2>m, <2>l, <2>c, <4>1
    <3>1. CASE RecvCmd(q)
      <4>1. /\ Got(q) = Issued - 1 /\ Got(q)' = Issued /\ Issued >= 1 /\ pc'[q] = "run"
            /\ inbox'[q] = Tail(inbox[q])
        <5>1. Got(q) + 1 <= Issued /\ Got(q)' = Got(q) + 1
          BY <2>7, <3>1, RecvNext, GotStep
        <5>2. pc'[q] = "run" /\ inbox'[q] = Tail(inbox[q])
          BY <2>0, <3>1, Zenon DEF RecvCmd, Take, Goto
        <5> QED
          BY <2>1, <5>1, <5>2
      <4>2. (Owed(q)' <=> Owed(q)) /\ (Settings(q)' <=> Settings(q)) /\ (Owed(q)' <=> Cmd(Issued)' = "config")
        BY <2>1, <3>0, <4>1 DEF Owed, Settings
      <4>3. inbox[q] = IF Settings(q) THEN <<Cmd(Issued), "str">> ELSE <<Cmd(Issued)>>
        BY <2>0, <2>2, <4>1, Zenon DEF LeaderAt
      <4>4. Cmd(Issued) \in Messages /\ "str" \in Messages
        <5>1. inbox[q][1] \in Messages
          BY <2>0, <3>1 DEF RecvCmd, Take
        <5>2. inbox[q][1] = Cmd(Issued)
          BY <4>3
        <5> QED
          BY <5>1, <5>2 DEF Messages
      <4>5. inbox'[q] = IF Settings(q) THEN <<"str">> ELSE <<>>
        BY <4>1, <4>3, <4>4, <1>ShortQueues, Zenon
      <4> QED
        BY <2>1, <3>0, <4>1, <4>2, <4>5, <1>LeaderForms, Zenon
    <3>2. CASE RecvStr(q)
      <4>1. pc[q] = "recvStr" /\ pc'[q] = "reload" /\ inbox[q] # <<>> /\ inbox'[q] = Tail(inbox[q]) /\ done' = done
        BY <2>0, <3>2 DEF RecvStr, Take, Goto
      <4>2. Got(q)' = Got(q) /\ Got(q) = Issued
        BY <2>0, <2>1, <2>2, <4>1, ZenonT(30) DEF Got, LeaderAt, AtRest
      <4>3. Settings(q) /\ inbox[q] = <<"str">>
        <5>1. inbox[q] = IF Settings(q) THEN <<"str">> ELSE <<>>
          BY <2>0, <2>2, <4>2 DEF LeaderAt
        <5> QED
          BY <4>1, <5>1, Zenon
      <4>4. inbox'[q] = <<>> /\ ~ Owed(q)' /\ ~ Settings(q)' /\ pc[Master] # "run"
        <5>1. inbox'[q] = <<>>
          BY <4>1, <4>3, <1>ShortQueues, "str" \in Messages DEF Messages
        <5>2. ~ Owed(q)' /\ ~ Settings(q)'
          BY <3>0, <4>1, <4>2 DEF Owed, Settings
        <5> QED
          BY <4>3, <5>1, <5>2 DEF Settings
      <4> QED
        BY <2>1, <3>0, <4>2, <4>4, <1>LeaderForms
    <3>3. CASE Begin(q)
      <4>1. pc[q] = "run" /\ pc'[q] # "run" /\ Got(q)' = Got(q)
        BY <2>7, <3>3, GotStep, Zenon DEF Begin
      <4>2. Got(q) = Issued /\ Issued >= 1 /\ cmd[q] = Cmd(Issued)
        <5>1. Got(q) = Issued
          BY <2>0, <2>1, <2>2, <4>1, Zenon DEF LeaderAt, AtRest
        <5>2. Got(q) >= 1 /\ cmd[q] = Cmd(Got(q))
          BY <4>1, GotNat, SMTT(30) DEF LogInv, LogAt
        <5> QED
          BY <5>1, <5>2
      <4>3. inbox'[q] = inbox[q] /\ (cmd[q] = "config" => pc'[q] = "recvStr")
        <5>1. RunSingle(q) \/ RunConfig(q) \/ RunLoadStat(q) \/ RunEmu(q) \/ Quit(q)
          BY <2>7, <4>1, RunKinds, ZenonT(30)
        <5> QED
          BY <2>0, <5>1 DEF RunSingle, RunConfig, RunLoadStat, RunEmu, Quit, Goto
      <4>4. (Owed(q)' <=> Owed(q)) /\ (Owed(q) <=> Cmd(Issued) = "config")
        BY <2>1, <3>0, <4>1, <4>2, <4>3, ZenonT(30) DEF Owed
      <4>5. Settings(q)' <=> Settings(q)
        BY <3>0, <4>4 DEF Settings
      <4> QED
        <5>1. inbox[q] = IF Settings(q) THEN <<"str">> ELSE <<>>
          BY <2>0, <2>2, <4>2 DEF LeaderAt
        <5> QED
          BY <2>1, <3>0, <4>1, <4>2, <4>3, <4>4, <4>5, <5>1, <1>LeaderForms, Zenon
    <3>4. CASE Quiet(q) /\ ~ RecvStr(q)
      <4>1. Got(q)' = Got(q)
        BY <2>7, <3>4, GotStep
      <4>2. inbox'[q] = inbox[q] /\ pc[q] \notin {"run", "recvStr"} /\ pc'[q] \notin {"run", "recvStr"}
        <5>1. pc[q] # "run" /\ pc'[q] # "run"
          BY <3>4 DEF Quiet
        <5>2. CASE Start(q) \/ Top(q) \/ EnterMPI(q) \/ LeaveMPI(q) \/ Arrive(q) \/ Pass(q)
          BY <2>0, <5>2, ZenonT(30) DEF Start, Top, EnterMPI, LeaveMPI, Arrive, Pass, Goto, CallBarrier
        <5>3. CASE Reload(q) \/ RecvStat(q) \/ EndEmu(q)
          BY <2>0, <5>3 DEF Reload, RecvStat, EndEmu, Goto, CallBarrier
        <5>4. CASE SendMonitor(q)
          BY <2>0, <5>4 DEF SendMonitor, Goto, Tell, Master
        <5> QED
          BY <2>7, <3>4, <5>1, <5>2, <5>3, <5>4, <1>QuietKinds, Zenon DEF Merge, Aggregate
      <4>3. CASE Got(q) = Issued
        <5>1. ~ Owed(q) /\ ~ Settings(q) /\ ~ Owed(q)' /\ ~ Settings(q)'
          BY <3>0, <4>1, <4>2, <4>3 DEF Owed, Settings
        <5>2. inbox[q] = <<>>
          BY <2>0, <2>2, <4>3, <5>1 DEF LeaderAt
        <5>3. ~ (Issued >= 1 /\ Cmd(Issued) = "config" /\ pc[Master] = "run")
          BY <2>0, <2>2, <5>1 DEF LeaderAt
        <5> QED
          BY <2>1, <3>0, <4>1, <4>2, <4>3, <5>1, <5>2, <5>3, <1>LeaderForms, ZenonT(30)
      <4>4. CASE Got(q) = Issued - 1
        <5>1. (Owed(q)' <=> Owed(q)) /\ (Settings(q)' <=> Settings(q)) /\ Issued >= 1
          BY <2>1, <3>0, <4>1, <4>4 DEF Owed, Settings
        <5>2. AtRest(q)
          BY <2>0, <2>2, <4>4 DEF LeaderAt
        <5>3. AtRest(q)'
          <6>1. CASE LeaveMPI(q) \/ Arrive(q) \/ Pass(q)
            BY <2>0, <5>2, <6>1, ZenonT(30) DEF LeaveMPI, Arrive, Pass, AtRest, Goto
          <6> QED
            BY <2>7, <3>4, <5>2, <6>1, <1>QuietKinds, ZenonT(30) DEF AtRest, Start, Top, EnterMPI, Reload, RecvStat, EndEmu,
               SendMonitor, Merge, Aggregate
        <5> QED
          <6>1. inbox[q] = IF Settings(q) THEN <<Cmd(Issued), "str">> ELSE <<Cmd(Issued)>>
            BY <2>0, <2>2, <4>4 DEF LeaderAt
          <6>2. Cmd(Issued) = "config" /\ pc[Master] = "run" => Owed(q)
            BY <2>0, <2>2, <5>1, Zenon DEF LeaderAt
          <6> QED
            BY <2>1, <3>0, <4>1, <4>2, <4>4, <5>1, <5>3, <6>1, <6>2, <1>LeaderForms, Zenon
      <4> QED
        BY <2>1, <4>3, <4>4
    <3> QED
      BY <2>7, <3>1, <3>2, <3>3, <3>4, Kinds, Zenon DEF Prompt
  <2> QED
    BY <2>4, <2>5, <2>6, <2>7
<1> QED
  BY <1>InboxStep, <1>LeaderStep, Zenon

-----------------------------------------------------------------------------
(* Statistics.                                                             *)

\* A step keeps the statistics of an emulation apart from those of another.
LEMMA StatisticsStep ==
    \A p \in Proxies :
        /\ TypeOK /\ LogInv /\ PhaseInv /\ EmuInv /\ MonitorInv /\ AllMerged /\ Step(p)
        => EmuInv' /\ MonitorInv'

\* An emulation is begun by RunEmu, and ended by SendMonitor or Aggregate.
<1>GatheringStep.
    ASSUME TypeOK, NEW p \in Proxies, Step(p), NEW q \in Proxies
    PROVE  /\ Gathering(q)' => Gathering(q) \/ (q = p /\ RunEmu(p))
           /\ Gathering(q) => Gathering(q)' \/ pc'[q] = "exited" \/ (q = p /\ (SendMonitor(p) \/ Aggregate(p)))
  <2> USE <1>GatheringStep
  <2>0. pc \in [Proxies -> Labels] /\ ret \in [Proxies -> {"top", "prompt", "gather"}]
    BY Zenon DEF TypeOK
  <2> USE DEF Gathering, InBarrier, Goto
  <2>1. CASE q # p
    BY <2>1, OtherStep
  <2>2. CASE q = p
    <3>1. CASE Start(p) \/ Top(p) \/ EndEmu(p)
      BY <2>0, <2>2, <3>1 DEF Start, Top, EndEmu, CallBarrier
    <3>2. CASE EnterMPI(p) \/ LeaveMPI(p)
      BY <2>0, <2>2, <3>2 DEF EnterMPI, LeaveMPI
    <3>3. CASE Arrive(p) \/ Pass(p)
      BY <2>0, <2>2, <3>3 DEF Arrive, Pass
    <3>4. CASE RecvCmd(p) \/ \E c \in Commands \cup {"quit"} : Prompt(p, c)
      BY <2>0, <2>2, <3>4, Zenon DEF RecvCmd, Prompt
    <3>5. CASE RunSingle(p) \/ RunConfig(p) \/ RunLoadStat(p) \/ RunEmu(p)
      BY <2>0, <2>2, <3>5 DEF RunSingle, RunConfig, RunLoadStat, RunEmu
    <3>6. CASE RecvStr(p) \/ Reload(p) \/ RecvStat(p) \/ Quit(p)
      BY <2>0, <2>2, <3>6, ZenonT(30) DEF RecvStr, Reload, RecvStat, Quit
    <3>7. CASE SendMonitor(p) \/ Merge(p) \/ Aggregate(p)
      BY <2>0, <2>2, <3>7 DEF SendMonitor, Merge, Aggregate
    <3> QED
      BY <3>1, <3>2, <3>3, <3>4, <3>5, <3>6, <3>7, Zenon DEF Step
  <2> QED
    BY <2>1, <2>2, Zenon

\* What has been sent stays sent.
<1>SentStays.
    ASSUME TypeOK, NEW p \in Proxies, Step(p), NEW q \in Proxies, NEW i \in Nat, Sent(q, i)
    PROVE  Sent(q, i)'
  <2> USE <1>SentStays
  <2>0. /\ done \in [Proxies -> Seq(Messages)] /\ cmd \in [Proxies -> Messages] /\ done[q] \in Seq(Messages)
        /\ Len(done[q]) \in Nat
    BY DEF TypeOK
  <2>1. CASE Begin(p) /\ q = p
    <3>1. Len(done'[q]) = Len(done[q]) + 1
      BY <2>0, <2>1 DEF Begin
    <3> QED
      BY <2>0, <3>1 DEF Sent
  <2>2. CASE ~ (Begin(p) /\ q = p)
    <3>1. done'[q] = done[q]
      BY <2>0, <2>2, Kinds, Zenon DEF Quiet, Begin, RecvCmd, Prompt
    <3>2. Gathering(q)' => Gathering(q)
      <4>1. RunEmu(p) => Begin(p)
        BY Kinds, Zenon DEF RunEmu, Quiet, RecvCmd, Prompt
      <4> QED
        BY <2>2, <4>1, <1>GatheringStep
    <3> QED
      BY <3>1, <3>2 DEF Sent
  <2> QED
    BY <2>1, <2>2

\* An "emu" is closed by Aggregate only.
<1>ClosedStep.
    ASSUME TypeOK, LogInv, NEW p \in Proxies, Step(p), Issued' = Issued, Issued >= 1, Cmd(Issued) = "emu",
           Closed(Issued)', ~ Closed(Issued)
    PROVE  p = Master /\ Aggregate(p) /\ Gathering(Master)
  <2> USE <1>ClosedStep
  <2>0. Issued \in Nat /\ Master \in Proxies /\ pc \in [Proxies -> Labels]
    BY GotNat, ProxyFacts, Zenon DEF TypeOK
  <2>1. /\ pc'[Master] # "run" /\ ~ Gathering(Master)'
        /\ pc[Master] = "run" \/ Gathering(Master)
    BY <2>0 DEF Closed
  <2>2. p = Master
    <3>1. p # Master /\ Quit(p) => p[1] # Master[1]
      BY ProxyFacts DEF Quit
    <3> QED
      BY <2>0, <2>1, <3>1, OtherStep, Zenon DEF Gathering, InBarrier
  <2>3. CASE Gathering(Master)
    <3>1. pc'[Master] # "exited"
      <4>1. ~ Begin(p)
        BY <2>2, <2>3 DEF Begin, Gathering, InBarrier
      <4> QED
        BY <2>0, <2>2, <4>1, Kinds, ZenonT(30) DEF Quiet, RecvCmd, Prompt, Goto
    <3> QED
      BY <2>0, <2>1, <2>2, <2>3, <3>1, <1>GatheringStep, ProxyFacts, Zenon DEF SendMonitor
  <2>4. CASE pc[Master] = "run"
    <3>1. cmd[Master] = "emu"
      BY <2>0, <2>4, GotNat DEF Issued, Cmd
    <3>2. RunEmu(p)
      BY <2>2, <2>4, <3>1, RunKinds, Zenon DEF RunSingle, RunConfig, RunLoadStat, Quit
    <3>3. pc'[Master] = "emulate"
      BY <2>0, <2>2, <3>2 DEF RunEmu, Goto
    <3> QED
      BY <2>1, <3>3, ZenonT(30) DEF Gathering
  <2> QED
    BY <2>1, <2>3, <2>4

\* No "emu" is closed before everybody has sent statistics.
<1>EmuStep.
    ASSUME TypeOK, LogInv, EmuInv, MonitorInv, AllMerged, NEW p \in Proxies, Step(p)
    PROVE  EmuInv'
  <2> USE <1>EmuStep
  <2>0. Issued \in Nat /\ Master \in Proxies /\ pc \in [Proxies -> Labels] /\ MASTER(Master)
    BY GotNat, ProxyFacts, Zenon DEF TypeOK
  <2>l. /\ Issued' = Issued \/ (Issued' = Issued + 1 /\ \E c \in Commands \cup {"quit"} : Prompt(p, c))
        /\ \A i \in 1 .. Issued : Cmd(i)' = Cmd(i)
    BY LogStable
  <2> SUFFICES ASSUME NEW i \in 1 .. Issued', Closed(i)', Cmd(i)' = "emu", NEW q \in Proxies
               PROVE  Sent(q, i)'
    BY DEF EmuInv
  <2>1. ASSUME Closed(i), i <= Issued PROVE Sent(q, i)'
    <3>1. i \in 1 .. Issued /\ i \in Nat
      BY <2>0, <2>1, <2>l
    <3>2. Sent(q, i)
      BY <2>1, <2>l, <3>1 DEF EmuInv
    <3> QED
      BY <3>1, <3>2, <1>SentStays
  <2>2. CASE Issued' = Issued + 1
    <3>1. pc[Master] = "prompt" /\ pc'[Master] = "run"
      BY <2>0, <2>2, <2>l, ProxyFacts DEF Prompt, Goto
    <3>2. i <= Issued
      BY <2>0, <2>2, <3>1 DEF Closed
    <3>3. Closed(i)
      BY <2>0, <3>1, <3>2 DEF Closed, Gathering, InBarrier
    <3> QED
      BY <2>1, <3>2, <3>3
  <2>3. CASE Issued' = Issued /\ ~ Closed(i)
    <3>1. i = Issued /\ Issued >= 1
      BY <2>0, <2>3 DEF Closed
    <3>2. Cmd(Issued) = "emu" /\ Closed(Issued)' /\ ~ Closed(Issued)
      BY <2>0, <2>3, <2>l, <3>1
    <3>3. p = Master /\ Aggregate(p) /\ Gathering(Master)
      BY <2>3, <3>1, <3>2, <1>ClosedStep
    <3>4. Sent(q, i)' \/ Sent(q, i)
      <4>1. CASE q = Master
        <5>1. Len(done'[Master]) = Issued /\ pc'[Master] = "top"
          BY <2>0, <3>3, GotNat DEF Aggregate, Goto, Issued
        <5> QED
          BY <3>1, <4>1, <5>1, Zenon DEF Sent, Gathering, InBarrier
      <4>2. CASE q # Master
        <5>1. {merged[j] : j \in DOMAIN merged} = {<<r, Issued>> : r \in Proxies \ {Master}}
          BY <3>3, Zenon DEF Aggregate, AllMerged
        <5>2. PICK j \in DOMAIN merged : merged[j] = <<q, Issued>>
          BY <4>2, <5>1, Zenon
        <5>3. Current(merged[j])
          <6>1. j \in 1 .. Len(merged)
            BY <5>2 DEF TypeOK
          <6> QED
            BY <3>3, <6>1 DEF MonitorInv
        <5> QED
          BY <3>1, <5>2, <5>3 DEF Current
      <4> QED
        BY <4>1, <4>2
    <3>5. i \in Nat
      BY <2>0, <3>1
    <3> QED
      BY <3>4, <3>5, <1>SentStays
  <2> QED
    BY <2>0, <2>1, <2>2, <2>3, <2>l

\* What was a message of this round stays one.
<1>CurrentStays.
    ASSUME TypeOK, NEW p \in Proxies, Step(p), Issued' = Issued, NEW m, Current(m)
    PROVE  Current(m)'
  <2> USE <1>CurrentStays
  <2>1. PICK q \in Proxies \ {Master} : m = <<q, Issued>> /\ Sent(q, Issued)
    BY DEF Current
  <2>2. \A i \in Nat : Sent(q, i) => Sent(q, i)'
    BY <1>SentStays
  <2>3. Issued \in Nat
    BY GotNat
  <2>4. Sent(q, Issued)'
    BY <2>1, <2>2, <2>3
  <2> QED
    BY <2>1, <2>4 DEF Current

\* Who sends statistics sends them for the command the master works on, and
\* has not sent any before.
<1>SendCurrent.
    ASSUME TypeOK, LogInv, PhaseInv, EmuInv, NEW p \in Proxies, pc[p] = "gather", p # Master
    PROVE  /\ Len(done[p]) = Issued /\ Issued >= 1 /\ ~ Closed(Issued) /\ Cmd(Issued) = "emu"
           /\ \A m : Current(m) => m # <<p, Issued>>
  <2> USE <1>SendCurrent
  <2>0. /\ Len(done[p]) \in Nat /\ Issued \in Nat /\ Len(done[p]) <= Issued /\ Gathering(p)
        /\ done[p] # <<>> /\ Cmd(Len(done[p])) = "emu" /\ Len(done[p]) >= 1
    BY GotNat DEF LogInv, LogAt, PhaseInv, PhaseAt, Gathering
  <2>1. ~ Sent(p, Len(done[p]))
    BY <2>0 DEF Sent
  <2>2. ~ Closed(Len(done[p]))
    BY <2>0, <2>1 DEF EmuInv
  <2>3. Len(done[p]) = Issued
    BY <2>0, <2>2 DEF Closed
  <2>4. ASSUME NEW m, Current(m) PROVE m # <<p, Issued>>
    BY <2>1, <2>3, <2>4 DEF Current
  <2> QED
    BY <2>0, <2>2, <2>3, <2>4, Zenon

\* The master's queue and what it merged, after a step.
<1>MasterMail.
    ASSUME TypeOK, PhaseInv, NEW p \in Proxies, Step(p), ~ SendMonitor(p), ~ Merge(p)
    PROVE  /\ inbox'[Master] = inbox[Master]
           /\ merged' = merged \/ (p = Master /\ RunEmu(p) /\ merged' = <<>>)
  <2> USE <1>MasterMail
  <2>0. inbox \in [Proxies -> Seq(Messages)] /\ Master \in Proxies /\ (MASTER(p) <=> p = Master)
    BY ProxyFacts, Zenon DEF TypeOK
  <2>1. CASE RunConfig(p)
    BY <2>0, <2>1 DEF RunConfig, Tell
  <2>2. CASE RecvCmd(p)
    BY <2>0, <2>2 DEF RecvCmd, Take
  <2>4. CASE Start(p) \/ Top(p) \/ EnterMPI(p) \/ LeaveMPI(p) \/ Arrive(p) \/ Pass(p) \/ RunSingle(p)
    BY <2>4, ZenonT(30) DEF Start, Top, EnterMPI, LeaveMPI, Arrive, Pass, RunSingle
  <2>5. CASE Reload(p) \/ RunLoadStat(p) \/ RecvStat(p) \/ EndEmu(p) \/ Aggregate(p) \/ Quit(p)
    BY <2>5, ZenonT(30) DEF Reload, RunLoadStat, RecvStat, EndEmu, Aggregate, Quit
  <2>6. CASE RunEmu(p)
    BY <2>0, <2>6, Zenon DEF RunEmu, NewMonitor
  <2>7. ASSUME NEW c \in Commands \cup {"quit"}, Prompt(p, c)
        PROVE  inbox'[Master] = inbox[Master] /\ merged' = merged
    BY <2>0, <2>7 DEF Prompt, Tell
  <2>8. CASE RecvStr(p)
    <3>1. p # Master
      BY <2>0, <2>8, Zenon DEF RecvStr, PhaseInv, PhaseAt
    <3> QED
      BY <2>0, <2>8, <3>1 DEF RecvStr, Take
  <2> QED
    BY <2>1, <2>2, <2>4, <2>5, <2>6, <2>7, <2>8, Zenon DEF Step

\* A sequence without repetitions, and one more element.
<1>AppendDistinct.
    ASSUME NEW s \in Seq(Messages), NEW m \in Messages,
           \A i, j \in 1 .. Len(s) : s[i] = s[j] => i = j, \A i \in 1 .. Len(s) : s[i] # m
    PROVE  LET t == Append(s, m) IN \A i, j \in 1 .. Len(t) : t[i] = t[j] => i = j
  <2> USE <1>AppendDistinct
  <2> DEFINE t == Append(s, m)
  <2>1. /\ Len(s) \in Nat /\ Len(t) = Len(s) + 1 /\ t[Len(s) + 1] = m
        /\ \A i \in 1 .. Len(s) : t[i] = s[i]
    OBVIOUS
  <2> HIDE DEF t
  <2>2. ASSUME NEW i \in 1 .. Len(t), NEW j \in 1 .. Len(t), t[i] = t[j] PROVE i = j
    <3>1. (i \in 1 .. Len(s) \/ i = Len(s) + 1) /\ (j \in 1 .. Len(s) \/ j = Len(s) + 1)
      BY <2>1
    <3> QED
      BY <2>1, <2>2, <3>1
  <2> QED
    BY <2>2 DEF t

\* The messages that the master has merged, and those in its queue.
<1>MonitorStep.
    ASSUME TypeOK, LogInv, PhaseInv, EmuInv, MonitorInv, AllMerged, NEW p \in Proxies, Step(p)
    PROVE  MonitorInv'
  <2> USE <1>MonitorStep
  <2> DEFINE in == inbox[Master]
  <2>0. /\ inbox \in [Proxies -> Seq(Messages)] /\ in \in Seq(Messages) /\ merged \in Seq(Messages)
        /\ Master \in Proxies /\ (MASTER(p) <=> p = Master) /\ Issued \in Nat
        /\ pc \in [Proxies -> Labels] /\ Len(in) \in Nat /\ Len(merged) \in Nat
    <3>1. Master \in Proxies /\ (MASTER(p) <=> p = Master) /\ Issued \in Nat
      BY GotNat, ProxyFacts
    <3> QED
      BY <3>1 DEF TypeOK
  <2>l. /\ Issued' = Issued \/ (Issued' = Issued + 1 /\ \E c \in Commands \cup {"quit"} : Prompt(p, c))
        /\ \A i \in 1 .. Issued : Cmd(i)' = Cmd(i)
    BY LogStable
  <2>c. Issued' = Issued /\ Issued >= 1 => Cmd(Issued)' = Cmd(Issued)
    BY <2>0, <2>l
  <2>1. /\ in # <<>> => Issued >= 1 /\ ~ Closed(Issued) /\ Cmd(Issued) = "emu"
        /\ \A i \in 1 .. Len(in) : Current(in[i])
        /\ \A i, j \in 1 .. Len(in) : in[i] = in[j] => i = j
    BY DEF MonitorInv
  <2>2. ASSUME Gathering(Master)
        PROVE  /\ \A i \in 1 .. Len(merged) : Current(merged[i])
               /\ \A i, j \in 1 .. Len(merged) : merged[i] = merged[j] => i = j
               /\ \A i \in 1 .. Len(merged), j \in 1 .. Len(in) : merged[i] # in[j]
    BY <2>2 DEF MonitorInv
  <2>3. Issued' = Issued => \A m : Current(m) => Current(m)'
    BY <1>CurrentStays
  <2>4. CASE SendMonitor(p)
    <3> DEFINE m == <<p, Issued>>
    <3>1. pc[p] = "gather" /\ p # Master /\ Issued' = Issued
      BY <2>0, <2>4, <2>l, Zenon DEF SendMonitor, Prompt
    <3>2. /\ Len(done[p]) = Issued /\ Issued >= 1 /\ ~ Closed(Issued) /\ Cmd(Issued) = "emu"
          /\ \A x : Current(x) => x # m
      BY <3>1, <1>SendCurrent
    <3>3. inbox'[Master] = Append(in, m) /\ m \in Messages /\ merged' = merged
      BY <2>0, <2>4, <3>2 DEF SendMonitor, Tell, Master, Messages
    <3>4. /\ Len(inbox'[Master]) = Len(in) + 1 /\ inbox'[Master][Len(in) + 1] = m
          /\ \A i \in 1 .. Len(in) : inbox'[Master][i] = in[i]
      BY <2>0, <3>3
    <3>5. (Gathering(Master)' <=> Gathering(Master)) /\ pc'[Master] = pc[Master]
      BY <2>0, <2>4, <3>1 DEF SendMonitor, Goto, Gathering, InBarrier
    <3>6. ~ Closed(Issued)'
      BY <3>1, <3>2, <3>5 DEF Closed
    <3>7. Current(m)'
      <4>1. pc'[p] = "top" /\ done' = done
        BY <2>0, <2>4 DEF SendMonitor, Goto
      <4>2. Sent(p, Issued)'
        BY <3>1, <3>2, <4>1 DEF Sent, Gathering, InBarrier
      <4> QED
        BY <3>1, <4>2 DEF Current
    <3>8. \A i \in 1 .. Len(inbox'[Master]) : Current(inbox[Master][i])'
      <4> SUFFICES ASSUME NEW i \in 1 .. Len(inbox'[Master]) PROVE Current(inbox[Master][i])'
        OBVIOUS
      <4>1. i \in 1 .. Len(in) \/ i = Len(in) + 1
        BY <2>0, <3>4
      <4>2. CASE i \in 1 .. Len(in)
        BY <2>1, <2>3, <3>1, <3>4, <4>2
      <4>3. CASE i = Len(in) + 1
        BY <3>1, <3>4, <3>7, <4>3
      <4> QED
        BY <4>1, <4>2, <4>3
    <3>9. \A i \in 1 .. Len(in) : in[i] # m
      BY <2>1, <3>2, Zenon
    <3> HIDE DEF m, in
    <3>10. \A i, j \in 1 .. Len(inbox'[Master]) : inbox'[Master][i] = inbox'[Master][j] => i = j
      BY <2>0, <2>1, <3>3, <3>9, <1>AppendDistinct, Zenon
    <3>11. ASSUME Gathering(Master)'
           PROVE  /\ \A i \in 1 .. Len(merged') : Current(merged[i])'
                  /\ \A i, j \in 1 .. Len(merged') : merged'[i] = merged'[j] => i = j
                  /\ \A i \in 1 .. Len(merged'), j \in 1 .. Len(inbox'[Master]) : merged'[i] # inbox'[Master][j]
      <4>1. \A i \in 1 .. Len(merged') : Current(merged[i])' /\ merged[i] # m
        BY <2>2, <2>3, <3>1, <3>2, <3>3, <3>5, <3>11, ZenonT(30)
      <4>2. ASSUME NEW i \in 1 .. Len(merged'), NEW j \in 1 .. Len(inbox'[Master])
            PROVE  merged'[i] # inbox'[Master][j]
        <5>1. j \in 1 .. Len(in) \/ j = Len(in) + 1
          BY <2>0, <3>4
        <5>2. merged' = merged /\ i \in 1 .. Len(merged)
          BY <3>3
        <5>3. CASE j \in 1 .. Len(in)
          <6>1. merged[i] # in[j]
            BY <2>2, <3>5, <3>11, <5>2, <5>3, Zenon
          <6> QED
            BY <3>4, <5>2, <5>3, <6>1, Zenon
        <5>4. CASE j = Len(in) + 1
          BY <3>4, <4>1, <5>2, <5>4, Zenon
        <5> QED
          BY <5>1, <5>3, <5>4
      <4> QED
        BY <2>2, <3>3, <3>5, <3>11, <4>1, <4>2
    <3> QED
      BY <2>c, <3>1, <3>2, <3>6, <3>8, <3>10, <3>11, ZenonT(30) DEF MonitorInv
  <2>5. CASE Merge(p)
    <3>1. /\ p = Master /\ pc' = pc /\ ret' = ret /\ done' = done /\ cmd' = cmd /\ Issued' = Issued
          /\ in # <<>> /\ inbox'[Master] = Tail(in) /\ merged' = Append(merged, Head(in))
      BY <2>0, <2>5, <2>l, Zenon DEF Merge, Take, Prompt
    <3>2. /\ Len(inbox'[Master]) = Len(in) - 1 /\ Head(in) = in[1] /\ Len(in) >= 1 /\ Head(in) \in Messages
          /\ \A i \in 1 .. Len(in) - 1 : inbox'[Master][i] = in[i + 1]
      BY <2>0, <3>1
    <3>3. /\ Len(merged') = Len(merged) + 1 /\ merged'[Len(merged) + 1] = in[1]
          /\ \A i \in 1 .. Len(merged) : merged'[i] = merged[i]
      BY <2>0, <3>1, <3>2
    <3>4. Gathering(Master) /\ ~ Closed(Issued)'
      <4>1. Gathering(Master)' /\ Gathering(Master)
        BY <2>5, <3>1, Zenon DEF Merge, Gathering, InBarrier
      <4> QED
        BY <2>0, <3>1, <4>1 DEF Closed
    <3> HIDE DEF in
    <3>5. \A i \in 1 .. Len(inbox'[Master]) : Current(inbox[Master][i])'
      BY <2>0, <2>1, <2>3, <3>1, <3>2
    <3>6. \A i, j \in 1 .. Len(inbox'[Master]) : inbox'[Master][i] = inbox'[Master][j] => i = j
      BY <2>0, <2>1, <3>2
    <3>7. \A i \in 1 .. Len(merged') : Current(merged[i])'
      <4>1. 1 \in 1 .. Len(in) /\ \A i \in 1 .. Len(merged') : i \in 1 .. Len(merged) \/ i = Len(merged) + 1
        BY ONLY <2>0, <3>2, <3>3
      <4>2. ASSUME NEW i \in 1 .. Len(merged'), NEW m, m = merged'[i] PROVE Current(m)
        BY <2>1, <2>2, <3>3, <3>4, <4>1, <4>2, Zenon
      <4> QED
        BY <2>3, <3>1, <4>2, Zenon
    <3>8. \A i, j \in 1 .. Len(merged') : merged'[i] = merged'[j] => i = j
      <4>1. 1 \in 1 .. Len(in)
        BY <2>0, <3>2
      <4>2. \A i \in 1 .. Len(merged) : merged[i] # Head(in)
        BY <2>2, <3>2, <3>4, <4>1, Zenon
      <4> QED
        BY <2>0, <2>2, <3>1, <3>2, <3>4, <4>2, <1>AppendDistinct, Zenon
    <3>9. ASSUME NEW i \in 1 .. Len(merged'), NEW j \in 1 .. Len(inbox'[Master])
          PROVE  merged'[i] # inbox'[Master][j]
      <4>1. j + 1 \in 1 .. Len(in) /\ 1 \in 1 .. Len(in) /\ j + 1 # 1 /\ inbox'[Master][j] = in[j + 1]
        BY <2>0, <3>2
      <4>2. CASE i \in 1 .. Len(merged)
        BY <2>2, <3>3, <3>4, <4>1, <4>2
      <4>3. CASE i = Len(merged) + 1
        BY <2>1, <3>3, <4>1, <4>3
      <4> QED
        BY <2>0, <3>3, <4>2, <4>3
    <3> QED
      BY <2>1, <2>c, <3>1, <3>4, <3>5, <3>6, <3>7, <3>8, <3>9, ZenonT(30) DEF MonitorInv
  <2>6. CASE ~ SendMonitor(p) /\ ~ Merge(p)
    <3>1. inbox'[Master] = in /\ (merged' = merged \/ (p = Master /\ RunEmu(p) /\ merged' = <<>>))
      BY <2>6, <1>MasterMail, Zenon
    <3>2. CASE Issued' # Issued
      <4>1. pc[Master] = "prompt" /\ pc'[Master] = "run"
        BY <2>0, <2>l, <3>2 DEF Prompt, Goto
      <4>2. Closed(Issued) /\ ~ Gathering(Master)'
        BY <2>0, <4>1, Zenon DEF Closed, Gathering, InBarrier
      <4>3. in = <<>>
        BY <2>1, <4>2, Zenon
      <4> HIDE DEF in
      <4> QED
        BY <3>1, <4>2, <4>3 DEF MonitorInv
    <3>3. CASE Issued' = Issued
      <4>1. ASSUME in # <<>> PROVE ~ Closed(Issued)'
        <5>1. SUFFICES ASSUME Closed(Issued)' PROVE FALSE
          OBVIOUS
        <5>2. p = Master /\ Aggregate(p) /\ Gathering(Master)
          BY <2>1, <3>3, <4>1, <5>1, <1>ClosedStep
        <5>3. {merged[j] : j \in DOMAIN merged} = {<<r, Issued>> : r \in Proxies \ {Master}}
          BY <5>2, Zenon DEF Aggregate, AllMerged
        <5>4. Len(in) >= 1 /\ Current(in[1])
          BY <2>0, <2>1, <4>1
        <5>5. PICK j \in DOMAIN merged : merged[j] = in[1]
          BY <5>3, <5>4, ZenonT(30) DEF Current
        <5>6. j \in 1 .. Len(merged) /\ 1 \in 1 .. Len(in)
          BY <2>0, <5>4, <5>5, SMTT(30)
        <5> QED
          BY <2>2, <5>2, <5>5, <5>6
      <4>2. inbox'[Master] # <<>> => Issued' >= 1 /\ ~ Closed(Issued)' /\ Cmd(Issued)' = "emu"
        BY <2>1, <2>c, <3>1, <3>3, <4>1, Zenon
      <4> HIDE DEF in
      <4>3. /\ \A i \in 1 .. Len(inbox'[Master]) : Current(inbox[Master][i])'
            /\ \A i, j \in 1 .. Len(inbox'[Master]) : inbox'[Master][i] = inbox'[Master][j] => i = j
        BY <2>1, <2>3, <3>1, <3>3
      <4>4. ASSUME Gathering(Master)'
            PROVE  /\ \A i \in 1 .. Len(merged') : Current(merged[i])'
                   /\ \A i, j \in 1 .. Len(merged') : merged'[i] = merged'[j] => i = j
                   /\ \A i \in 1 .. Len(merged'), j \in 1 .. Len(inbox'[Master]) : merged'[i] # inbox'[Master][j]
        <5>1. CASE merged' = <<>>
          BY <5>1
        <5>2. CASE merged' # <<>>
          <6>1. merged' = merged /\ Gathering(Master)
            <7>1. ~ (p = Master /\ RunEmu(p))
              BY <2>0, <5>2 DEF RunEmu, NewMonitor
            <7> QED
              BY <2>0, <3>1, <4>4, <7>1, <1>GatheringStep
          <6> QED
            BY <2>2, <2>3, <3>1, <3>3, <6>1, Zenon
        <5> QED
          BY <5>1, <5>2, ZenonT(30)
      <4> QED
        BY <4>2, <4>3, <4>4, Zenon DEF MonitorInv
    <3> QED
      BY <3>2, <3>3
  <2> QED
    BY <2>4, <2>5, <2>6
<1> QED
  BY <1>EmuStep, <1>MonitorStep, Zenon

-----------------------------------------------------------------------------
(* Stuttering.                                                             *)

\* A step that changes nothing keeps the types and the barriers,
LEMMA BarrierStutter ==
    ASSUME TypeOK, BarrierInv, LeadBounded, UNCHANGED vars
    PROVE  TypeOK' /\ BarrierInv' /\ LeadBounded'
<1> USE DEF vars
<1>1. TypeOK' /\ LeadBounded'
  BY ZenonT(30) DEF TypeOK, LeadBounded, Passed
<1>2. BarrierInv'
  <2>1. \A s \in Servers : Arrivals(s)' = Arrivals(s)
    BY ZenonT(30) DEF Arrivals
  <2> QED
    BY <2>1, ZenonT(30) DEF BarrierInv, Passed
<1> QED
  BY <1>1, <1>2

\* and the rest of the invariant.
LEMMA IInvStutter ==
    ASSUME IInv, UNCHANGED vars
    PROVE  IInv'
<1> USE DEF vars
<1>1. QuitInv' /\ LogInv'
  BY ZenonT(30) DEF IInv, QuitInv, LogInv, LogAt, Issued, Cmd, Got
<1>2. TypeOK' /\ BarrierInv' /\ LeadBounded'
  BY BarrierStutter, Zenon DEF IInv
<1>3. PhaseInv'
  BY ZenonT(30) DEF IInv, PhaseInv, PhaseAt, Gathering, InBarrier, Cmd
<1>4. InboxInv'
  BY Zenon DEF IInv, InboxInv, InboxAt, Issued, Cmd, Got
<1>5. LeaderInv'
  <2>1. Issued' = Issued /\ (\A i : Cmd(i)' = Cmd(i)) /\ (\A p : Got(p)' = Got(p)) /\ Cmd(Issued)' = Cmd(Issued)
    BY Zenon DEF Issued, Cmd, Got
  <2>2. \A p : (Owed(p)' <=> Owed(p)) /\ (Settings(p)' <=> Settings(p)) /\ (AtRest(p)' <=> AtRest(p))
    BY <2>1 DEF Owed, Settings, AtRest
  <2>3. ASSUME NEW p \in Proxies, LeaderAt(p) PROVE LeaderAt(p)'
    BY <2>1, <2>2, <2>3, ZenonT(30) DEF LeaderAt
  <2> QED
    BY <2>3 DEF IInv, LeaderInv
<1>6. MpiInv'
  <2>1. \A n : Barriers(n)' = Barriers(n)
    BY Zenon DEF Barriers, EmuRounds, Cmd
  <2>2. \A p : Entered(p)' = Entered(p)
    BY <2>1, Zenon DEF Entered
  <2> QED
    BY <2>2, ZenonT(30) DEF IInv, MpiInv
<1>7. /\ \A p, i : Sent(p, i)' <=> Sent(p, i)
      /\ \A i : Closed(i)' <=> Closed(i)
      /\ \A i : Cmd(i)' = Cmd(i)
      /\ Issued' = Issued /\ (Gathering(Master)' <=> Gathering(Master))
  BY DEF Sent, Closed, Gathering, InBarrier, Issued, Cmd
<1>8. \A m : Current(m)' <=> Current(m)
  BY <1>7 DEF Current
<1>9. EmuInv' /\ MonitorInv'
  BY <1>7, <1>8, Zenon DEF IInv, EmuInv, MonitorInv
<1> QED
  BY <1>1, <1>2, <1>3, <1>4, <1>5, <1>6, <1>9 DEF IInv

-----------------------------------------------------------------------------
(* Counting.                                                               *)

\* What is used of finite sets.  It is a hypothesis of what follows, and
\* proved at the end of the module.
EmptyLaw == Finite({}) /\ Size({}) = 0
SingletonLaw == \A x : Finite({x}) /\ Size({x}) = 1
IntervalLaw == \A n \in Nat : /\ Finite(1 .. n) /\ Size(1 .. n) = n
                              /\ Finite(0 .. n - 1) /\ Size(0 .. n - 1) = n
AddLaw == \A S, x : Finite(S) /\ x \notin S => Finite(S \cup {x}) /\ Size(S \cup {x}) = Size(S) + 1
RemoveLaw == \A S, x : Finite(S) /\ x \in S => Finite(S \ {x}) /\ Size(S \ {x}) = Size(S) - 1
UnionLaw == \A S, T : Finite(S) /\ Finite(T) =>
    Finite(S \cup T) /\ Size(S \cup T) = Size(S) + Size(T) - Size(S \cap T)
ProductLaw == \A S, T : Finite(S) /\ Finite(T) => Finite(S \X T) /\ Size(S \X T) = Size(S) * Size(T)
SubsetLaw == \A S : \A T \in SUBSET S : Finite(S) => Finite(T) /\ Size(T) <= Size(S)
NatLaw == \A S : Finite(S) => Size(S) \in Nat
PigeonLaw == \A n \in Nat : \A T : \A f \in [1 .. n -> T] :
    Finite(T) /\ Size(T) = n /\ (\A i, j \in 1 .. n : f[i] = f[j] => i = j) =>
        \A t \in T : \E i \in 1 .. n : f[i] = t
CountLaws ==
    /\ EmptyLaw /\ SingletonLaw /\ IntervalLaw /\ AddLaw /\ RemoveLaw
    /\ UnionLaw /\ ProductLaw /\ SubsetLaw /\ NatLaw /\ PigeonLaw

-----------------------------------------------------------------------------
(* The barrier of a server.                                                *)

\* At first nobody has arrived.
LEMMA BarrierInit ==
    ASSUME CountLaws, Init
    PROVE  BarrierInv /\ LeadBounded
<1>1. ASSUME NEW s \in Servers PROVE Finite(Arrivals(s)) /\ Size(Arrivals(s)) = curr[s]
  <2>1. Arrivals(s) = {}
    BY DEF Init, Arrivals
  <2> QED
    BY <2>1, Zenon DEF CountLaws, EmptyLaw, Init
<1>2. ASSUME NEW p \in Proxies PROVE Passed(p) = 0 /\ nxt[p] = 1 /\ arrived[p] = 0 /\ pc[p] = "start"
  BY ConsoleAssumption DEF Init, Passed
<1>3. 0 \in Nat /\ 1 = NumProxies * 0 + 1 /\ 0 - 0 < NumProxies
  BY ONLY ConsoleAssumption
<1>4. \A p \in Proxies : Passed(p) \in Nat /\ nxt[p] = NumProxies * Passed(p) + 1 /\ Passed(p) = arrived[p]
  BY <1>2, <1>3, Zenon
<1>5. BarrierInv
  BY <1>1, <1>2, <1>4 DEF BarrierInv
<1>6. LeadBounded
  BY <1>2, <1>3, Zenon DEF LeadBounded
<1> QED
  BY <1>5, <1>6

\* A step keeps the count of the barriers and the bound on the lead.
LEMMA BarrierStep ==
    \A p \in Proxies : CountLaws /\ TypeOK /\ BarrierInv /\ LeadBounded /\ Step(p)
                       => BarrierInv' /\ LeadBounded'

\* A server has NumProxies proxies, so NumProxies - 1 other ones.
<1>ServerSize.
    ASSUME CountLaws, NEW q \in Proxies
    PROVE  LET T == {r \in Proxies : r[1] = q[1]} \ {q}
           IN  Finite(T) /\ Size(T) = NumProxies - 1
  <2> USE <1>ServerSize
  <2> DEFINE R == {r \in Proxies : r[1] = q[1]}
  <2>1. Finite({q[1]}) /\ Size({q[1]}) = 1
    BY Zenon DEF CountLaws, SingletonLaw
  <2>2. Finite(0 .. NumProxies - 1) /\ Size(0 .. NumProxies - 1) = NumProxies
    BY ConsoleAssumption DEF CountLaws, IntervalLaw
  <2>3. R = {q[1]} \X (0 .. NumProxies - 1)
    BY ProxyFacts DEF Proxies
  <2>4. Finite(R) /\ Size(R) = NumProxies
    <3> DEFINE U == 0 .. NumProxies - 1
    <3>1. Finite({q[1]} \X U) /\ Size({q[1]} \X U) = Size({q[1]}) * Size(U)
      BY <2>1, <2>2, Zenon DEF CountLaws, ProductLaw
    <3> HIDE DEF R, U
    <3>2. Finite(R) /\ Size(R) = Size({q[1]}) * Size(U)
      BY <3>1, <2>3, Zenon DEF U
    <3>3. Size({q[1]}) = 1 /\ Size(U) = NumProxies
      BY <2>1, <2>2, Zenon DEF U
    <3> QED
      BY <3>2, <3>3, ConsoleAssumption
  <2>5. q \in R
    OBVIOUS
  <2> QED
    BY <2>4, <2>5, Zenon DEF CountLaws, RemoveLaw

\* Only Arrive and Pass touch the counters of the barrier.
<1>NoBarrier.
    ASSUME TypeOK, NEW p \in Proxies, Step(p), ~ Arrive(p), ~ Pass(p)
    PROVE  /\ UNCHANGED <<curr, nxt, arrived>>
           /\ \A q \in Proxies : pc'[q] = pc[q] \/ pc'[q] = "exited"
                 \/ (pc[q] \notin {"spin", "exited"} /\ pc'[q] \notin {"spin", "exited"})
  <2> USE <1>NoBarrier
  <2> USE DEF TypeOK, Goto
  <2>1. CASE Start(p) \/ Top(p) \/ EndEmu(p) \/ EnterMPI(p) \/ LeaveMPI(p) \/ Reload(p) \/ Aggregate(p)
    BY <2>1 DEF Start, Top, EndEmu, EnterMPI, LeaveMPI, Reload, Aggregate, CallBarrier
  <2>2. ASSUME NEW c \in Commands \cup {"quit"}, Prompt(p, c)
        PROVE  pc' = [pc EXCEPT ![p] = "run"] /\ pc[p] = "prompt" /\ UNCHANGED <<curr, nxt, arrived>>
    BY <2>2, Zenon DEF Prompt
  <2>3. CASE RecvCmd(p) \/ RunSingle(p) \/ RunConfig(p) \/ RecvStr(p)
    BY <2>3, Zenon DEF RecvCmd, RunSingle, RunConfig, RecvStr
  <2>4. CASE RunLoadStat(p) \/ RecvStat(p) \/ RunEmu(p) \/ SendMonitor(p)
    <3>1. CASE RunLoadStat(p)
      <4>1. UNCHANGED <<curr, nxt, arrived>> /\ pc[p] = "run"
            /\ \E l \in {"top", "recvStat"} : pc' = [pc EXCEPT ![p] = l]
        BY <3>1, Zenon DEF RunLoadStat
      <4> QED
        BY <4>1, Zenon
    <3>2. CASE RecvStat(p) \/ RunEmu(p) \/ SendMonitor(p)
      <4>1. UNCHANGED <<curr, nxt, arrived>> /\ pc[p] \in {"recvStat", "run", "gather"}
            /\ \E l \in {"top", "emulate"} : pc' = [pc EXCEPT ![p] = l]
        BY <3>2, Zenon DEF RecvStat, RunEmu, SendMonitor
      <4> QED
        BY <4>1, Zenon
    <3> QED
      BY <2>4, <3>1, <3>2, Zenon
  <2>5. CASE Merge(p) \/ Quit(p)
    BY <2>5, Zenon DEF Merge, Quit
  <2> QED
    BY <2>1, <2>2, <2>3, <2>4, <2>5, Zenon DEF Step

\* A proxy that arrives at the local barrier.
<1>ArriveStep.
    ASSUME CountLaws, TypeOK, BarrierInv, LeadBounded, NEW p \in Proxies, Arrive(p)
    PROVE  BarrierInv' /\ LeadBounded'
  <2> USE <1>ArriveStep
  <2>0. /\ p[1] \in Servers /\ arrived[p] \in Nat /\ \A q \in Proxies : arrived[q] \in Nat
        /\ curr \in [Servers -> Nat] /\ nxt \in [Proxies -> Nat] /\ arrived \in [Proxies -> Nat]
        /\ pc \in [Proxies -> Labels]
    BY ProxyFacts, Zenon DEF TypeOK
  <2>1. /\ curr' = [curr EXCEPT ![p[1]] = @ + 1] /\ arrived' = [arrived EXCEPT ![p] = @ + 1]
        /\ pc' = [pc EXCEPT ![p] = "spin"] /\ nxt' = nxt /\ pc[p] \in {"add", "barrier"}
    BY DEF Arrive, Goto
  <2>2. ASSUME NEW s \in Servers
        PROVE  Finite(Arrivals(s)') /\ Size(Arrivals(s)') = curr'[s]
    <3>0. Finite(Arrivals(s)) /\ Size(Arrivals(s)) = curr[s]
      BY DEF BarrierInv
    <3>1. CASE s = p[1]
      <4> DEFINE a == <<p, arrived[p] + 1>>
      <4>1. Arrivals(s)' = Arrivals(s) \cup {a}
        <5>1. ASSUME NEW b \in Proxies \X Nat PROVE b \in Arrivals(s)' <=> b \in Arrivals(s) \/ b = a
          <6>1. b = <<b[1], b[2]>> /\ b[1] \in Proxies /\ b[2] \in Nat
            OBVIOUS
          <6>2. CASE b[1] = p
            <7>1. arrived'[b[1]] = arrived[p] + 1
              BY <2>0, <2>1, <6>2, Zenon
            <7>2. b[2] \in 1 .. arrived[p] + 1 <=> b[2] \in 1 .. arrived[p] \/ b[2] = arrived[p] + 1
              BY <2>0, <6>1
            <7>3. b = a <=> b[2] = arrived[p] + 1
              BY <6>1, <6>2
            <7> QED
              BY <3>1, <6>2, <7>1, <7>2, <7>3, Zenon DEF Arrivals
          <6>3. CASE b[1] # p
            <7>1. arrived'[b[1]] = arrived[b[1]]
              BY <2>0, <2>1, <6>1, <6>3, Zenon
            <7>2. b # a
              BY <6>3
            <7> QED
              BY <7>1, <7>2, Zenon DEF Arrivals
          <6> QED
            BY <6>2, <6>3
        <5>2. a \in Proxies \X Nat
          BY <2>0
        <5> QED
          BY <5>1, <5>2, Zenon DEF Arrivals
      <4>2. a \notin Arrivals(s)
        BY <2>0 DEF Arrivals
      <4>3. curr'[s] = curr[s] + 1
        BY <2>0, <2>1, <3>1
      <4> HIDE DEF a
      <4>4. Finite(Arrivals(s) \cup {a}) /\ Size(Arrivals(s) \cup {a}) = Size(Arrivals(s)) + 1
        BY <3>0, <4>2, Zenon DEF CountLaws, AddLaw
      <4> QED
        BY <3>0, <4>1, <4>3, <4>4
    <3>2. CASE s # p[1]
      <4>1. Arrivals(s)' = Arrivals(s)
        <5>1. ASSUME NEW b \in Proxies \X Nat, b[1][1] = s PROVE arrived'[b[1]] = arrived[b[1]]
          BY <5>1, <2>0, <2>1, <3>2
        <5> QED
          BY <5>1, Zenon DEF Arrivals
      <4>2. curr'[s] = curr[s]
        BY <2>0, <2>1, <3>2
      <4> QED
        BY <3>0, <4>1, <4>2
    <3> QED
      BY <3>1, <3>2, Zenon
  <2>3. \A q \in Proxies : Passed(q)' = Passed(q)
    BY <2>1, Zenon DEF Passed
  <2>4. \A q \in Proxies : q # p => arrived'[q] = arrived[q] /\ pc'[q] = pc[q]
    BY <2>0, <2>1, Zenon
  <2>5. arrived'[p] = arrived[p] + 1 /\ pc'[p] = "spin" /\ Passed(p) = arrived[p]
    BY <2>0, <2>1, Zenon DEF BarrierInv
  <2>6. BarrierInv'
    <3>1. ASSUME NEW q \in Proxies
          PROVE  /\ Passed(q)' \in Nat /\ nxt'[q] = NumProxies * Passed(q)' + 1
                 /\ Passed(q)' \in {arrived'[q], arrived'[q] - 1}
                 /\ pc'[q] = "spin" => Passed(q)' = arrived'[q] - 1
                 /\ pc'[q] \notin {"spin", "exited"} => Passed(q)' = arrived'[q]
      <4>0. /\ Passed(q) \in Nat /\ nxt'[q] = NumProxies * Passed(q) + 1 /\ Passed(q)' = Passed(q)
            /\ Passed(q) \in {arrived[q], arrived[q] - 1}
            /\ pc[q] = "spin" => Passed(q) = arrived[q] - 1
            /\ pc[q] \notin {"spin", "exited"} => Passed(q) = arrived[q]
        BY <2>1, <2>3, Zenon DEF BarrierInv
      <4>1. CASE q = p
        <5>1. arrived'[q] - 1 = Passed(q)
          BY ONLY <4>0, <4>1, <2>5
        <5> QED
          BY <4>0, <4>1, <5>1, <2>5, Zenon
      <4>2. CASE q # p
        BY <4>0, <4>2, <2>4, Zenon
      <4> QED
        BY <4>1, <4>2, Zenon
    <3> QED
      BY <2>2, <3>1, Zenon DEF BarrierInv
  <2>7. LeadBounded'
    <3>1. ASSUME NEW r \in Proxies, NEW q \in Proxies, r[1] = q[1]
          PROVE  Passed(r)' - arrived'[q] < NumProxies
      <4>1. Passed(r) - arrived[q] < NumProxies /\ Passed(r) \in Nat
        BY <3>1 DEF LeadBounded, BarrierInv
      <4>2. arrived'[q] \in {arrived[q], arrived[q] + 1}
        BY <2>4, <2>5
      <4>3. Passed(r)' = Passed(r) /\ arrived[q] \in Nat
        BY <2>0, <2>3
      <4> QED
        BY ONLY <4>1, <4>2, <4>3, ConsoleAssumption
    <3> QED
      BY <3>1 DEF LeadBounded
  <2> QED
    BY <2>6, <2>7

\* A multiple, divided.
<1>DivMultiple.
    ASSUME NEW n \in Nat \ {0}, NEW k \in Nat
    PROVE  (n * k) \div n = k
  OBVIOUS

\* Multiples lie as far apart as their factors.
<1>TimesInterval.
    ASSUME CountLaws, NEW S, Finite(S), NEW n \in Nat
    PROVE  Finite(S \X (1 .. n)) /\ Size(S \X (1 .. n)) = Size(S) * n
  <2> USE <1>TimesInterval
  <2>1. Finite(1 .. n) /\ Size(1 .. n) = n
    BY Zenon DEF CountLaws, IntervalLaw
  <2> QED
    BY <2>1, Zenon DEF CountLaws, ProductLaw

\* The heart of the barrier: when the counter has reached _next of p, which
\* arrives for the k-th time, either nobody of the server has arrived more
\* than k times, so that q cannot be missing NumProxies times, or somebody
\* has, who passed before under the same condition.
<1>PassLead.
    ASSUME CountLaws, TypeOK, BarrierInv, LeadBounded, NEW p \in Proxies, pc[p] = "spin", curr[p[1]] >= nxt[p],
           NEW q \in Proxies, p[1] = q[1]
    PROVE  arrived[p] - arrived[q] < NumProxies
  <2> USE <1>PassLead
  <2> DEFINE k == arrived[p]  m == arrived[q]  R == {r \in Proxies : r[1] = q[1]}
  <2>a. p[1] \in Servers /\ k \in Nat /\ m \in Nat /\ \A r \in Proxies : arrived[r] \in Nat
    BY ProxyFacts, Zenon DEF TypeOK
  <2>b. \A r \in Proxies : Passed(r) \in Nat /\ Passed(r) >= arrived[r] - 1
    <3>1. \A r \in Proxies : Passed(r) \in Nat /\ Passed(r) \in {arrived[r], arrived[r] - 1}
      BY Zenon DEF BarrierInv
    <3> QED
      BY <2>a, <3>1
  <2>c. Passed(p) = k - 1 /\ nxt[p] = NumProxies * (k - 1) + 1
    BY Zenon DEF BarrierInv
  <2>0. /\ p[1] \in Servers /\ k \in Nat /\ m \in Nat /\ \A r \in Proxies : arrived[r] \in Nat
        /\ \A r \in Proxies : Passed(r) \in Nat /\ Passed(r) >= arrived[r] - 1
        /\ Passed(p) = k - 1 /\ nxt[p] = NumProxies * (k - 1) + 1
    BY <2>a, <2>b, <2>c
  <2>1. ASSUME NEW r \in R, arrived[r] > k PROVE k - m < NumProxies
    <3>1. Passed(r) - m < NumProxies /\ Passed(r) \in Nat /\ Passed(r) >= arrived[r] - 1
      BY <2>0, <2>1 DEF LeadBounded
    <3> QED
      BY ONLY <3>1, <2>0, <2>1, ConsoleAssumption
  <2>2. ASSUME \A r \in R : arrived[r] <= k PROVE k - m < NumProxies
    <3> DEFINE A == (R \ {q}) \X (1 .. k)  B == {q} \X (1 .. m)
    <3>1. Finite(R \ {q}) /\ Size(R \ {q}) = NumProxies - 1
      BY <1>ServerSize
    <3>3. Finite({q}) /\ Size({q}) = 1
      BY Zenon DEF CountLaws, SingletonLaw
    <3>4. Finite(A) /\ Size(A) = (NumProxies - 1) * k
      BY <2>a, <3>1, <1>TimesInterval
    <3>5. Finite(B) /\ Size(B) = 1 * m
      BY <2>a, <3>3, <1>TimesInterval, Zenon
    <3>6. Finite(A \cup B) /\ Size(A \cup B) = Size(A) + Size(B) - Size(A \cap B)
      BY <3>4, <3>5, Zenon DEF CountLaws, UnionLaw
    <3>7. Size(A \cap B) = 0
      <4>1. A \cap B = {}
        OBVIOUS
      <4> QED
        BY <4>1, Zenon DEF CountLaws, EmptyLaw
    <3>8. Arrivals(p[1]) \subseteq A \cup B
      BY <2>0, <2>2 DEF Arrivals
    <3>9. Size(Arrivals(p[1])) <= Size(A \cup B)
      BY <3>6, <3>8, Zenon DEF CountLaws, SubsetLaw
    <3>10. Size(Arrivals(p[1])) >= NumProxies * (k - 1) + 1
      BY <2>0 DEF BarrierInv
    <3>11. NumProxies * (k - 1) = NumProxies * k - NumProxies /\ (NumProxies - 1) * k = NumProxies * k - k
      BY <2>0, ConsoleAssumption
    <3>12. Size(Arrivals(p[1])) \in Nat
      BY <3>6, <3>8, Zenon DEF CountLaws, SubsetLaw, NatLaw
    <3> HIDE DEF A, B, k, m, R
    <3>13. NumProxies * k \in Nat /\ k \in Nat /\ m \in Nat
      BY <2>0, ConsoleAssumption
    <3> QED
      BY ONLY <3>4, <3>5, <3>6, <3>7, <3>9, <3>10, <3>11, <3>12, <3>13, ConsoleAssumption
  <2> QED
    BY <2>0, <2>1, <2>2

\* A proxy that leaves the spin of the local barrier.
<1>PassStep.
    ASSUME CountLaws, TypeOK, BarrierInv, LeadBounded, NEW p \in Proxies, Pass(p)
    PROVE  BarrierInv' /\ LeadBounded'
  <2> USE <1>PassStep
  <2>0. /\ p[1] \in Servers /\ \A r \in Proxies : arrived[r] \in Nat /\ nxt[r] \in Nat
        /\ \A r \in Proxies : Passed(r) \in Nat /\ nxt[r] = NumProxies * Passed(r) + 1
        /\ Passed(p) = arrived[p] - 1 /\ pc[p] = "spin"
    BY ProxyFacts, Zenon DEF TypeOK, BarrierInv, Pass
  <2>1. /\ nxt' = [nxt EXCEPT ![p] = @ + NumProxies] /\ pc' = [pc EXCEPT ![p] = ret[p]]
        /\ UNCHANGED <<arrived, curr>> /\ curr[p[1]] >= nxt[p] /\ ret[p] \in {"top", "prompt", "gather"}
    BY DEF Pass, Goto, NextRound, TypeOK
  <2>2. \A q \in Proxies : q # p => nxt'[q] = nxt[q] /\ pc'[q] = pc[q] /\ Passed(q)' = Passed(q)
    BY <2>1, Zenon DEF TypeOK, Passed
  <2>3. nxt'[p] = NumProxies * (Passed(p) + 1) + 1 /\ pc'[p] \notin {"spin", "exited"}
    <3>0. Passed(p) \in Nat /\ NumProxies \in Nat
      BY <2>0, ConsoleAssumption
    <3>1. NumProxies * (Passed(p) + 1) = NumProxies * Passed(p) + NumProxies
      BY ONLY <3>0
    <3>2. nxt'[p] = nxt[p] + NumProxies /\ pc'[p] = ret[p]
      BY <2>1 DEF TypeOK
    <3>3. NumProxies * Passed(p) \in Nat
      BY <2>0, ConsoleAssumption
    <3> QED
      BY <2>0, <2>1, <3>1, <3>2, <3>3, ConsoleAssumption
  <2>4. Passed(p)' = Passed(p) + 1
    <3>1. Passed(p)' = (nxt'[p] - 1) \div NumProxies
      BY DEF Passed
    <3>2. Passed(p) + 1 \in Nat /\ NumProxies * (Passed(p) + 1) \in Nat
      BY <2>0, ConsoleAssumption
    <3>3. nxt'[p] - 1 = NumProxies * (Passed(p) + 1)
      BY <2>3, <3>2
    <3> QED
      BY <3>1, <3>2, <3>3, <1>DivMultiple, ConsoleAssumption
  <2>5. Arrivals(p[1])' = Arrivals(p[1]) /\ \A s \in Servers : Arrivals(s)' = Arrivals(s) /\ curr'[s] = curr[s]
    BY <2>1, Zenon DEF Arrivals
  <2>6. BarrierInv'
    <3>1. ASSUME NEW q \in Proxies
          PROVE  /\ Passed(q)' \in Nat /\ nxt'[q] = NumProxies * Passed(q)' + 1
                 /\ Passed(q)' \in {arrived'[q], arrived'[q] - 1}
                 /\ pc'[q] = "spin" => Passed(q)' = arrived'[q] - 1
                 /\ pc'[q] \notin {"spin", "exited"} => Passed(q)' = arrived'[q]
      <4>1. CASE q = p
        BY <4>1, <2>0, <2>1, <2>3, <2>4
      <4>2. CASE q # p
        BY <4>2, <2>1, <2>2, Zenon DEF BarrierInv
      <4> QED
        BY <4>1, <4>2, Zenon
    <3> QED
      BY <2>5, <3>1, Zenon DEF BarrierInv
  <2>7. LeadBounded'
    <3>1. ASSUME NEW r \in Proxies, NEW q \in Proxies, r[1] = q[1]
          PROVE  Passed(r)' - arrived'[q] < NumProxies
      <4>1. CASE r = p
        <5>1. arrived[p] - arrived[q] < NumProxies
          BY <3>1, <4>1, <2>0, <2>1, <1>PassLead, Zenon
        <5> QED
          BY <4>1, <5>1, <2>0, <2>1, <2>4
      <4>2. CASE r # p
        BY <3>1, <4>2, <2>1, <2>2 DEF LeadBounded
      <4> QED
        BY <4>1, <4>2, Zenon
    <3> QED
      BY <3>1 DEF LeadBounded
  <2> QED
    BY <2>6, <2>7
<1> SUFFICES ASSUME CountLaws, TypeOK, BarrierInv, LeadBounded, NEW p \in Proxies, Step(p)
             PROVE  BarrierInv' /\ LeadBounded'
  BY Zenon
<1>1. CASE Arrive(p) \/ Pass(p)
  BY <1>1, <1>ArriveStep, <1>PassStep, Zenon
<1>2. CASE ~ Arrive(p) /\ ~ Pass(p)
  <2>1. UNCHANGED <<curr, nxt, arrived>>
    BY <1>2, <1>NoBarrier, Zenon
  <2>2. \A q \in Proxies : pc'[q] = pc[q] \/ pc'[q] = "exited"
                 \/ (pc[q] \notin {"spin", "exited"} /\ pc'[q] \notin {"spin", "exited"})
    BY <1>2, <1>NoBarrier
  <2>3. /\ \A s \in Servers : Arrivals(s)' = Arrivals(s)
        /\ \A q \in Proxies : Passed(q)' = Passed(q)
    BY <2>1 DEF Arrivals, Passed
  <2> QED
    BY <2>1, <2>2, <2>3 DEF BarrierInv, LeadBounded
<1> QED
  BY <1>1, <1>2

-----------------------------------------------------------------------------
(* The barrier among the servers.                                          *)

\* How many barriers among the servers there are up to a command:
LEMMA BarriersNat ==
    ASSUME CountLaws, NEW n \in Nat
    PROVE  Finite(EmuRounds(n)) /\ Barriers(n) \in Nat
<1>1. Finite(1 .. n) /\ EmuRounds(n) \in SUBSET (1 .. n)
  BY DEF CountLaws, IntervalLaw, EmuRounds
<1>2. Finite(EmuRounds(n))
  BY <1>1, Zenon DEF CountLaws, SubsetLaw
<1>3. Size(EmuRounds(n)) \in Nat
  BY <1>2, Zenon DEF CountLaws, NatLaw
<1> QED
  BY <1>2, <1>3 DEF Barriers

\* never fewer up to a later command;
LEMMA BarriersMono ==
    ASSUME CountLaws, NEW m \in Nat, NEW n \in Nat, m < n
    PROVE  Barriers(m) < Barriers(n)
<1>1. Finite(EmuRounds(n)) /\ EmuRounds(m) \in SUBSET EmuRounds(n)
  BY BarriersNat DEF EmuRounds
<1>2. Size(EmuRounds(m)) <= Size(EmuRounds(n))
  BY <1>1, Zenon DEF CountLaws, SubsetLaw
<1>3. Size(EmuRounds(m)) \in Nat /\ Size(EmuRounds(n)) \in Nat
  BY BarriersNat, Zenon DEF CountLaws, NatLaw
<1> QED
  BY <1>2, <1>3 DEF Barriers

\* So have all leaders, and none is behind the master.
LEMMA MpiStep ==
    \A p \in Proxies : CountLaws /\ TypeOK /\ LogInv /\ PhaseInv /\ MpiInv /\ Step(p) => MpiInv'

\* none before the first;
<1>BarriersZero.
    ASSUME CountLaws
    PROVE  Barriers(0) = 0
  <2> USE <1>BarriersZero
  <2>1. EmuRounds(0) = {}
    BY DEF EmuRounds
  <2> QED
    BY <2>1 DEF CountLaws, EmptyLaw, Barriers

\* with the next command one more, or two more if it is an "emu";
<1>BarriersNext.
    ASSUME CountLaws, NEW n \in Nat
    PROVE  Barriers(n + 1) = Barriers(n) + (IF Cmd(n + 1) = "emu" THEN 2 ELSE 1)
  <2> USE <1>BarriersNext
  <2>0. Finite(EmuRounds(n)) /\ Size(EmuRounds(n)) \in Nat
    BY BarriersNat, Zenon DEF CountLaws, NatLaw
  <2>1. CASE Cmd(n + 1) = "emu"
    <3>1. EmuRounds(n + 1) = EmuRounds(n) \cup {n + 1} /\ n + 1 \notin EmuRounds(n)
      BY <2>1 DEF EmuRounds
    <3>2. Size(EmuRounds(n) \cup {n + 1}) = Size(EmuRounds(n)) + 1
      BY <2>0, <3>1, Zenon DEF CountLaws, AddLaw
    <3>3. Size(EmuRounds(n + 1)) = Size(EmuRounds(n)) + 1
      BY <3>1, <3>2
    <3>4. Barriers(n + 1) = n + 1 + Size(EmuRounds(n + 1)) /\ Barriers(n) = n + Size(EmuRounds(n))
      BY DEF Barriers
    <3>5. Barriers(n + 1) = Barriers(n) + 2
      BY ONLY <2>0, <3>3, <3>4, n \in Nat
    <3> QED
      BY <2>1, <3>5
  <2>2. CASE Cmd(n + 1) # "emu"
    <3>1. EmuRounds(n + 1) = EmuRounds(n)
      BY <2>2 DEF EmuRounds
    <3> QED
      BY <2>0, <2>2, <3>1 DEF Barriers
  <2> QED
    BY <2>1, <2>2

\* and a step that appends to the log leaves the earlier numbers.
<1>BarriersStable.
    ASSUME TypeOK, NEW p \in Proxies, Step(p), NEW n \in Nat, n <= Issued
    PROVE  Barriers(n)' = Barriers(n)
  <2> USE <1>BarriersStable
  <2>1. Issued \in Nat /\ \A i \in 1 .. Issued : Cmd(i)' = Cmd(i)
    BY LogStable
  <2>2. \A i \in 1 .. n : Cmd(i)' = Cmd(i)
    BY <2>1
  <2>3. EmuRounds(n)' = EmuRounds(n)
    BY <2>2 DEF EmuRounds
  <2> QED
    BY <2>3 DEF Barriers

\* Only EnterMPI counts.
<1>OnlyEnter.
    ASSUME NEW p \in Proxies, Step(p), ~ EnterMPI(p)
    PROVE  mpi' = mpi
  <2> USE <1>OnlyEnter
  <2>1. ASSUME NEW c \in Commands \cup {"quit"}, Prompt(p, c) PROVE mpi' = mpi
    BY <2>1 DEF Prompt
  <2>2. CASE Start(p) \/ Top(p) \/ LeaveMPI(p) \/ Arrive(p) \/ Pass(p) \/ RecvCmd(p) \/ RunSingle(p) \/ RunConfig(p)
             \/ RecvStr(p) \/ Reload(p)
    BY <2>2, ZenonT(30) DEF Start, Top, LeaveMPI, Arrive, Pass, RecvCmd, RunSingle, RunConfig, RecvStr, Reload
  <2>3. CASE RunLoadStat(p) \/ RecvStat(p) \/ RunEmu(p) \/ EndEmu(p) \/ SendMonitor(p) \/ Merge(p) \/ Aggregate(p)
             \/ Quit(p)
    BY <2>3, ZenonT(30) DEF RunLoadStat, RecvStat, RunEmu, EndEmu, SendMonitor, Merge, Aggregate, Quit
  <2> QED
    BY <2>1, <2>2, <2>3 DEF Step

\* A leader has entered the barriers of its commands, given its place.
<1>EnteredStep.
    ASSUME CountLaws, TypeOK, LogInv, PhaseInv, MpiInv, NEW p \in Proxies, Step(p), LEADER(p), pc'[p] # "exited"
    PROVE  mpi'[p[1]] = Entered(p)'
  <2> USE <1>EnteredStep
  <2> DEFINE n == Len(done[p])
  <2>0. /\ done \in [Proxies -> Seq(Messages)] /\ pc \in [Proxies -> Labels] /\ mpi \in [Servers -> Nat]
        /\ ret \in [Proxies -> {"top", "prompt", "gather"}] /\ cmd \in [Proxies -> Messages]
        /\ p[1] \in Servers /\ PhaseAt(p) /\ ret[p] \in {"top", "prompt", "gather"}
    BY ProxyFacts, Zenon DEF TypeOK, PhaseInv
  <2>1. n \in Nat /\ n <= Issued /\ Barriers(n) \in Nat
    <3>1. n \in Nat /\ Got(p) >= n /\ Got(p) \in Nat /\ Issued \in Nat
      BY GotNat, Zenon
    <3>2. Got(p) <= Issued
      BY Zenon DEF LogInv, LogAt
    <3>3. Barriers(n) \in Nat
      BY <3>1, BarriersNat, Zenon
    <3> HIDE DEF n
    <3> QED
      BY <3>1, <3>2, <3>3
  <2>2. \A m \in Nat : m <= Issued => Barriers(m)' = Barriers(m)
    BY <1>BarriersStable
  <2>3. mpi[p[1]] = Entered(p)
    BY ExitedStays DEF MpiInv
  <2>4. ASSUME done'[p] = done[p] PROVE Barriers(Len(done[p]))' = Barriers(n)
    BY <2>1, <2>2, <2>4, Zenon
  <2> HIDE DEF n
  <2> USE DEF Entered, Goto
  <2>5. CASE Begin(p)
    <3>1. mpi'[p[1]] = mpi[p[1]] /\ pc[p] = "run" /\ ret' = ret
      BY <2>5, <1>OnlyEnter, Zenon DEF EnterMPI, Begin
    <3>2. Got(p) = n + 1 /\ Got(p) <= Issued /\ Cmd(n + 1) = cmd[p]
      BY <2>5, GotNat, Zenon DEF LogInv, LogAt, Begin, n
    <3>3. Len(done'[p]) = n + 1
      <4>1. done[p] \in Seq(Messages) /\ cmd[p] \in Messages /\ done'[p] = Append(done[p], cmd[p])
        BY <2>0, <2>5 DEF Begin
      <4>2. Len(Append(done[p], cmd[p])) = Len(done[p]) + 1
        BY ONLY <4>1
      <4> QED
        BY <4>1, <4>2, Zenon DEF n
    <3>4. Barriers(Len(done[p]))' = Barriers(n) + (IF cmd[p] = "emu" THEN 2 ELSE 1)
      <4>1. Barriers(Len(done[p]))' = Barriers(n + 1)
        <5>1. n + 1 \in Nat /\ n + 1 <= Issued
          BY <2>1, <3>2
        <5> QED
          BY <2>2, <3>3, <5>1, Zenon
      <4>2. Barriers(n + 1) = Barriers(n) + (IF Cmd(n + 1) = "emu" THEN 2 ELSE 1)
        BY <2>1, <1>BarriersNext
      <4> QED
        BY ONLY <3>2, <4>1, <4>2
    <3>5. mpi[p[1]] = Barriers(n) + 2
      BY <2>3, <3>1 DEF n
    <3>6. CASE cmd[p] = "emu"
      <4>1. pc'[p] = "emulate"
        BY <2>0, <2>5, <3>1, <3>6, RunKinds, Zenon DEF RunSingle, RunConfig, RunLoadStat, RunEmu, Quit
      <4> QED
        BY <3>1, <3>4, <3>5, <3>6, <4>1
    <3>7. CASE cmd[p] # "emu"
      <4>1. pc'[p] \in {"top", "reload", "recvStr", "recvStat"}
        <5>1. CASE RunSingle(p) \/ RunConfig(p) \/ RunLoadStat(p)
          BY <2>0, <5>1 DEF RunSingle, RunConfig, RunLoadStat
        <5>2. CASE Quit(p)
          BY <2>0, <5>2 DEF Quit
        <5> QED
          BY <3>1, <3>7, <5>1, <5>2, RunKinds, Zenon DEF RunEmu
      <4> QED
        BY <2>1, <3>1, <3>4, <3>5, <3>7, <4>1
    <3> QED
      BY <3>6, <3>7
  <2>6. CASE Start(p)
    <3>1. n = 0
      BY <2>0, <2>6, GotNat, Zenon DEF Start, PhaseAt, n
    <3> QED
      BY <2>0, <2>3, <2>4, <2>6, <3>1, <1>BarriersZero DEF Start, CallBarrier
  <2>7. CASE Top(p) \/ EndEmu(p)
    BY <2>0, <2>1, <2>3, <2>4, <2>7 DEF Top, EndEmu, CallBarrier, n
  <2>8. CASE EnterMPI(p)
    BY <2>0, <2>1, <2>3, <2>4, <2>8 DEF EnterMPI, n
  <2>9. CASE LeaveMPI(p) \/ Arrive(p)
    BY <2>0, <2>1, <2>3, <2>4, <2>9 DEF LeaveMPI, Arrive, n
  <2>10. CASE Pass(p)
    BY <2>0, <2>1, <2>3, <2>4, <2>10 DEF Pass, n
  <2>11. CASE RecvCmd(p) \/ \E c \in Commands \cup {"quit"} : Prompt(p, c)
    BY <2>0, <2>1, <2>3, <2>4, <2>11 DEF RecvCmd, Prompt, n
  <2>12. CASE Reload(p) \/ RecvStr(p) \/ RecvStat(p)
    BY <2>0, <2>1, <2>3, <2>4, <2>12 DEF Reload, RecvStr, RecvStat, n
  <2>13. CASE SendMonitor(p) \/ Merge(p) \/ Aggregate(p)
    BY <2>0, <2>1, <2>3, <2>4, <2>13 DEF SendMonitor, Merge, Aggregate, n
  <2> QED
    BY <2>5, <2>6, <2>7, <2>8, <2>9, <2>10, <2>11, <2>12, <2>13, Kinds, Zenon
       DEF Step, Quiet, RunSingle, RunConfig, RunLoadStat, RunEmu, Quit
<1> SUFFICES ASSUME CountLaws, TypeOK, LogInv, PhaseInv, MpiInv, NEW p \in Proxies, Step(p)
             PROVE  MpiInv'
  BY Zenon
<1>0. /\ mpi \in [Servers -> Nat] /\ p[1] \in Servers /\ Master \in Proxies /\ 0 \in Servers
      /\ LEADER(Master) /\ Master[1] = 0 /\ pc \in [Proxies -> Labels]
  BY ProxyFacts, Zenon DEF TypeOK
<1>1. ASSUME NEW q \in Proxies, LEADER(q), pc'[q] # "exited" PROVE mpi'[q[1]] = Entered(q)'
  <2>1. CASE q = p
    BY <1>1, <2>1, <1>EnteredStep
  <2>2. CASE q # p
    <3>1. done'[q] = done[q] /\ ret'[q] = ret[q] /\ pc'[q] = pc[q]
      BY <1>1, <2>2, OtherStep
    <3>2. mpi'[q[1]] = mpi[q[1]]
      <4>1. CASE EnterMPI(p)
        <5>1. p[1] # q[1] /\ q[1] \in Servers
          BY <1>1, <2>2, <4>1, ProxyFacts, Zenon DEF EnterMPI
        <5> QED
          BY <1>0, <4>1, <5>1 DEF EnterMPI
      <4>2. CASE ~ EnterMPI(p)
        BY <4>2, <1>OnlyEnter
      <4> QED
        BY <4>1, <4>2
    <3>3. mpi[q[1]] = Entered(q)
      BY <1>1, <3>1 DEF MpiInv
    <3>4. Len(done[q]) \in Nat /\ Len(done[q]) <= Issued
      BY GotNat DEF LogInv, LogAt
    <3>5. Barriers(Len(done[q]))' = Barriers(Len(done[q]))
      BY <3>1, <3>4, <1>BarriersStable
    <3> QED
      BY <3>1, <3>2, <3>3, <3>5, Zenon DEF Entered
  <2> QED
    BY <2>1, <2>2, Zenon
<1>2. ASSUME pc'[Master] # "mpi", NEW s \in Servers PROVE mpi'[s] >= mpi'[0]
  <2>1. CASE EnterMPI(p)
    <3>1. p # Master
      BY <1>0, <1>2, <2>1 DEF EnterMPI, Goto
    <3>2. p[1] # 0 /\ pc'[Master] = pc[Master]
      BY <1>0, <2>1, <3>1, ProxyFacts, Zenon DEF EnterMPI, Goto
    <3>3. mpi[s] >= mpi[0] /\ mpi'[0] = mpi[0] /\ mpi'[s] \in {mpi[s], mpi[s] + 1} /\ mpi[s] \in Nat /\ mpi[0] \in Nat
      BY <1>0, <1>2, <2>1, <3>2 DEF EnterMPI, MpiInv
    <3> QED
      BY ONLY <3>3
  <2>2. CASE LeaveMPI(p) /\ p = Master
    BY <1>0, <2>2, Zenon DEF LeaveMPI
  <2>3. CASE ~ EnterMPI(p) /\ ~ (LeaveMPI(p) /\ p = Master)
    <3>1. pc[Master] # "mpi"
      <4>1. CASE p # Master
        <5>1. Quit(p) => p[1] # Master[1]
          BY <1>0, <4>1, ProxyFacts DEF Quit
        <5> QED
          BY <1>0, <1>2, <4>1, <5>1, OtherStep
      <4>2. CASE p = Master
        BY <2>3, <4>2, Zenon DEF Step, Start, Top, EnterMPI, LeaveMPI, Arrive, Pass, Prompt, RecvCmd, LEADER,
           RunSingle, RunConfig, RecvStr, Reload, RunLoadStat, RecvStat, RunEmu, EndEmu, SendMonitor, Merge, Aggregate, Quit
      <4> QED
        BY <4>1, <4>2, Zenon
    <3> QED
      BY <2>3, <3>1, <1>OnlyEnter DEF MpiInv
  <2> QED
    BY <2>1, <2>2, <2>3
<1> QED
  BY <1>1, <1>2, Zenon DEF MpiInv

\* When the master is about to give out a command, every other leader has
\* carried out the last one and is in front of the next.
LEMMA PromptReady ==
    ASSUME CountLaws, TypeOK, LogInv, PhaseInv, QuitInv, MpiInv, pc[Master] = "prompt",
           NEW q \in Proxies, LEADER(q)
    PROVE  pc[q] # "exited" /\ Len(done[q]) = Issued /\ Got(q) = Issued /\ AtRest(q)
<1>0. /\ Master \in Proxies /\ LEADER(Master) /\ Master[1] = 0 /\ q[1] \in Servers /\ 0 \in Servers
      /\ pc[q] \in Labels /\ ret[q] \in {"top", "prompt", "gather"}
  BY ProxyFacts, Zenon DEF TypeOK
<1>1. Issued = Len(done[Master]) /\ Issued \in Nat /\ Len(done[q]) \in Nat /\ Got(q) <= Issued /\ Len(done[q]) <= Got(q)
      /\ (pc[q] = "run" => Got(q) = Len(done[q]) + 1) /\ (pc[q] # "run" => Got(q) = Len(done[q])) /\ Got(q) \in Nat
  BY <1>0, GotNat DEF Issued, LogInv, LogAt
<1>2. pc[q] # "exited"
  BY <1>0, <1>1 DEF QuitInv, Cmd
<1>3. mpi[q[1]] >= mpi[0] /\ mpi[0] = Barriers(Issued) + 2 /\ mpi[q[1]] = Entered(q)
  BY <1>0, <1>1, <1>2 DEF MpiInv, Entered
<1>4. Barriers(Issued) \in Nat /\ Barriers(Len(done[q])) \in Nat
  BY <1>1, BarriersNat, Zenon
<1>5. Entered(q) <= Barriers(Len(done[q])) + 2
  BY <1>0, <1>4 DEF Entered
<1>6. Len(done[q]) = Issued
  <2>1. ASSUME Len(done[q]) < Issued PROVE FALSE
    <3>1. Barriers(Len(done[q])) < Barriers(Issued)
      BY <1>1, <2>1, BarriersMono
    <3>2. Entered(q) >= Barriers(Issued) + 2
      BY ONLY <1>3
    <3>3. Entered(q) \in Nat
      BY <1>0, <1>3 DEF TypeOK
    <3> QED
      BY ONLY <1>4, <1>5, <3>1, <3>2, <3>3
  <2> QED
    BY <1>1, <2>1
<1>7. pc[q] # "run"
  BY <1>1, <1>6
<1>8. AtRest(q)
  <2>1. Entered(q) >= Barriers(Len(done[q])) + 2
    BY <1>3, <1>6
  <2>2. CASE pc[q] \in {"mpi", "add", "spin"}
    BY <1>4, <2>1, <2>2 DEF Entered, AtRest
  <2>3. CASE pc[q] = "prompt"
    BY <2>3 DEF AtRest
  <2>4. CASE pc[q] = "start" \/ pc[q] = "barrier" \/ pc[q] = "emulate"
    BY <1>4, <2>1, <2>4 DEF Entered
  <2>5. CASE pc[q] \in {"top", "reload", "recvStr", "recvStat", "gather"}
    BY <1>4, <2>1, <2>5 DEF Entered
  <2> QED
    BY <1>0, <1>2, <1>7, <2>2, <2>3, <2>4, <2>5, Zenon DEF Labels
<1> QED
  BY <1>1, <1>2, <1>6, <1>7, <1>8

-----------------------------------------------------------------------------
(* Counting the statistics.                                                *)

\* As many different messages of this round as there are other proxies are
\* the messages of all other proxies.
LEMMA MergedAll ==
    ASSUME CountLaws, TypeOK, MonitorInv, Gathering(Master), Len(merged) = Others
    PROVE  {merged[i] : i \in DOMAIN merged} = {<<p, Issued>> : p \in Proxies \ {Master}}
<1> DEFINE T == (Proxies \ {Master}) \X {Issued}
<1>1. Finite(T) /\ Size(T) = Others
  <2>1. Finite(Servers) /\ Size(Servers) = NumServers
    BY ConsoleAssumption DEF CountLaws, IntervalLaw, Servers
  <2>2. Finite(0 .. NumProxies - 1) /\ Size(0 .. NumProxies - 1) = NumProxies
    BY ConsoleAssumption DEF CountLaws, IntervalLaw
  <2>3. Finite(Proxies) /\ Size(Proxies) = NumServers * NumProxies
    BY <2>1, <2>2, Zenon DEF CountLaws, ProductLaw, Proxies
  <2>4. Finite(Proxies \ {Master}) /\ Size(Proxies \ {Master}) = Others
    BY <2>3, ProxyFacts, Zenon DEF CountLaws, RemoveLaw, Others
  <2>5. Finite({Issued}) /\ Size({Issued}) = 1
    BY Zenon DEF CountLaws, SingletonLaw
  <2>6. Others \in Nat
    BY <2>4, Zenon DEF CountLaws, NatLaw
  <2>7. Finite(T) /\ Size(T) = Size(Proxies \ {Master}) * Size({Issued})
    BY <2>4, <2>5, Zenon DEF CountLaws, ProductLaw
  <2> QED
    BY <2>4, <2>5, <2>6, <2>7
<1>2. T = {<<p, Issued>> : p \in Proxies \ {Master}}
  OBVIOUS
<1>3. merged \in Seq(Messages) /\ DOMAIN merged = 1 .. Others /\ Others \in Nat
  BY DEF TypeOK
<1>4. ASSUME NEW i \in 1 .. Others PROVE merged[i] \in T
  <2>1. Current(merged[i])
    BY DEF MonitorInv
  <2> QED
    BY <2>1 DEF Current
<1>5. merged \in [1 .. Others -> T]
  BY <1>3, <1>4
<1>6. \A i, j \in 1 .. Others : merged[i] = merged[j] => i = j
  BY DEF MonitorInv
<1>7. \A t \in T : \E i \in 1 .. Others : merged[i] = t
  <2> HIDE DEF T
  <2>1. \A f \in [1 .. Others -> T] :
           (\A i, j \in 1 .. Others : f[i] = f[j] => i = j) => \A t \in T : \E i \in 1 .. Others : f[i] = t
    BY <1>1, <1>3 DEF CountLaws, PigeonLaw
  <2> QED
    BY <2>1, <1>5, <1>6, Zenon
<1>8. {merged[i] : i \in DOMAIN merged} = T
  <2> HIDE DEF T
  <2> QED
    BY <1>3, <1>4, <1>7
<1> QED
  BY <1>2, <1>8

-----------------------------------------------------------------------------
(* The invariant and what follows from it.                                 *)

\* The inductive invariant holds at first,
LEMMA IInvInit ==
    ASSUME CountLaws, Init
    PROVE  IInv
<1>1. TypeOK /\ BarrierInv /\ LeadBounded
  BY TypeInit, BarrierInit
<1> QED
  BY <1>1, RestInit, Zenon DEF IInv

\* is kept by every step but the start of an emulation without its input file,
LEMMA IInvStep ==
    ASSUME CountLaws, IInv, [Next]_vars, \A p \in Proxies : ~ RunMissing(p)
    PROVE  IInv'
<1>1. ASSUME NEW p \in Proxies, Step(p) PROVE IInv'
  <2>0. TypeOK /\ BarrierInv /\ LeadBounded /\ LogInv /\ PhaseInv /\ QuitInv /\ InboxInv /\ LeaderInv /\ MpiInv
        /\ EmuInv /\ MonitorInv
    BY DEF IInv
  <2>1. TypeOK' /\ BarrierInv' /\ LeadBounded'
    BY <1>1, <2>0, TypeStep, BarrierStep, Zenon
  <2>2. LogInv' /\ PhaseInv' /\ QuitInv'
    BY <1>1, <2>0, LogStep, PhaseStep, QuitStep
  <2>3. InboxInv' /\ LeaderInv' /\ MpiInv'
    <3>1. LeadersReady
      BY <2>0, PromptReady DEF LeadersReady
    <3> QED
      BY <1>1, <2>0, <3>1, QueueStep, MpiStep, Zenon
  <2>4. EmuInv' /\ MonitorInv'
    <3>1. AllMerged
      BY <2>0, MergedAll DEF AllMerged
    <3> QED
      BY <1>1, <2>0, <3>1, StatisticsStep, Zenon
  <2> QED
    BY <2>1, <2>2, <2>3, <2>4 DEF IInv
<1>2. CASE UNCHANGED vars
  BY <1>2, IInvStutter
<1> QED
  BY <1>1, <1>2 DEF Next

\* which keeps the types and the barriers, and is noted.
LEMMA MissingStep ==
    ASSUME TypeOK, BarrierInv, LeadBounded, NEW p \in Proxies, RunMissing(p)
    PROVE  TypeOK' /\ BarrierInv' /\ LeadBounded' /\ ~ Whole'
<1>0. /\ pc \in [Proxies -> Labels] /\ done \in [Proxies -> Seq(Messages)] /\ merged \in Seq(Messages)
      /\ cmd[p] \in Messages /\ pc[p] = "run" /\ cmd[p] = "noemu"
      /\ UNCHANGED <<stats, mpi, curr, nxt, ret, inbox, cmd, arrived>>
  BY DEF RunMissing, TypeOK
<1>1. done' = [done EXCEPT ![p] = Append(done[p], "noemu")] /\ done[p] \in Seq(Messages)
  BY <1>0 DEF RunMissing
<1>2. PICK l \in {"top", "emulate"} : pc' = [pc EXCEPT ![p] = l]
  BY Zenon DEF RunMissing, Goto
<1>3. merged' \in Seq(Messages)
  <2>1. merged' = merged \/ merged' = <<>>
    BY Zenon DEF RunMissing, NewMonitor
  <2>2. <<>> \in Seq(Messages)
    OBVIOUS
  <2> QED
    BY <1>0, <2>1, <2>2, Zenon
<1>4. TypeOK'
  <2>1. done' \in [Proxies -> Seq(Messages)]
    BY <1>0, <1>1
  <2>2. pc' \in [Proxies -> Labels]
    BY <1>0, <1>2 DEF Labels
  <2> QED
    BY <1>0, <1>3, <2>1, <2>2, Zenon DEF TypeOK
<1>5. BarrierInv' /\ LeadBounded'
  <2>1. \A q \in Proxies : Passed(q)' = Passed(q)
    BY <1>0 DEF Passed
  <2>2. \A s \in Servers : Arrivals(s)' = Arrivals(s)
    BY <1>0 DEF Arrivals
  <2>3. \A q \in Proxies : pc'[q] = pc[q] \/ (pc[q] \notin {"spin", "exited"} /\ pc'[q] \notin {"spin", "exited"})
    BY <1>0, <1>2
  <2>4. LeadBounded'
    BY <1>0, <2>1, Zenon DEF LeadBounded
  <2>5. BarrierInv'
    BY <1>0, <2>1, <2>2, <2>3, ZenonT(30) DEF BarrierInv
  <2> QED
    BY <2>4, <2>5
<1>6. ~ Whole'
  <2>1. /\ done'[p] = Append(done[p], "noemu") /\ Len(done[p]) + 1 \in 1 .. Len(done'[p])
        /\ done'[p][Len(done[p]) + 1] = "noemu"
    BY <1>0, <1>1
  <2> QED
    BY <2>1, Zenon DEF Whole, None
<1> QED
  BY <1>4, <1>5, <1>6

\* A command that was begun stays begun.
LEMMA WholeBefore ==
    ASSUME TypeOK, [Next]_vars, Whole'
    PROVE  Whole /\ \A p \in Proxies : ~ RunMissing(p)
<1>0. done \in [Proxies -> Seq(Messages)] /\ cmd \in [Proxies -> Messages]
  BY DEF TypeOK
<1>1. done' = done \/ \E p \in Proxies : done' = [done EXCEPT ![p] = Append(done[p], cmd[p])]
  <2>1. ASSUME NEW p \in Proxies, Step(p)
        PROVE  done' = done \/ done' = [done EXCEPT ![p] = Append(done[p], cmd[p])]
    BY <2>1, Kinds, Zenon DEF Quiet, Begin, RecvCmd, Prompt
  <2>2. ASSUME NEW p \in Proxies, RunMissing(p)
        PROVE  done' = [done EXCEPT ![p] = Append(done[p], cmd[p])]
    BY <2>2, Zenon DEF RunMissing
  <2>3. CASE UNCHANGED vars
    BY <2>3 DEF vars
  <2> QED
    BY <2>1, <2>2, <2>3, Zenon DEF Next
<1>2. ASSUME NEW q \in Proxies, NEW i \in 1 .. Len(done[q]) PROVE i \in 1 .. Len(done'[q]) /\ done'[q][i] = done[q][i]
  <2>1. CASE done' = done
    BY <2>1
  <2>2. ASSUME NEW p \in Proxies, done' = [done EXCEPT ![p] = Append(done[p], cmd[p])]
        PROVE  i \in 1 .. Len(done'[q]) /\ done'[q][i] = done[q][i]
    <3>1. done[q] \in Seq(Messages) /\ cmd[p] \in Messages /\ (done'[q] = done[q] \/ done'[q] = Append(done[q], cmd[p]))
      BY <1>0, <2>2
    <3> QED
      BY <3>1
  <2> QED
    BY <1>1, <2>1, <2>2, Zenon
<1>3. Whole
  BY <1>2, Zenon DEF Whole, None
<1>4. ASSUME NEW p \in Proxies, RunMissing(p) PROVE FALSE
  <2>1. done' = [done EXCEPT ![p] = Append(done[p], "noemu")] /\ done[p] \in Seq(Messages) /\ "noemu" \in Messages
    BY <1>0, <1>4 DEF RunMissing
  <2>2. Len(done[p]) + 1 \in 1 .. Len(done'[p]) /\ done'[p][Len(done[p]) + 1] = "noemu"
    BY <1>0, <2>1
  <2> QED
    BY <2>2, Zenon DEF Whole, None
<1> QED
  BY <1>3, <1>4

\* The log makes all proxies agree.
LEMMA AgreeImplied ==
    ASSUME IInv
    PROVE  SameCommands
<1> SUFFICES ASSUME NEW p \in Proxies
             PROVE  /\ Len(done[p]) <= Len(done[Master]) + 1
                    /\ \A i \in 1 .. Len(done[p]) : i <= Len(done[Master]) => done[p][i] = done[Master][i]
  BY DEF SameCommands, Master
<1>1. LogAt(p) /\ TypeOK
  BY DEF IInv, LogInv
<1>2. Len(done[p]) \in Nat /\ Len(done[p]) <= Issued /\ Len(done[Master]) \in Nat
  BY <1>1, GotNat, ProxyFacts DEF LogAt
<1>3. Issued <= Len(done[Master]) + 1
  BY <1>2 DEF Issued
<1>4. Issued \in Nat
  BY <1>1, GotNat
<1> QED
  BY <1>1, <1>2, <1>3, <1>4 DEF LogAt, Cmd

\* A leader is at most one command behind, so no other one is at an emulation.
LEMMA AloneImplied ==
    ASSUME IInv
    PROVE  ConfigAlone
<1> SUFFICES ASSUME NEW p \in Proxies, NEW q \in Proxies, Changing(p), pc[q] = "emulate" PROVE FALSE
  BY DEF ConfigAlone
<1>0. /\ TypeOK /\ LogAt(p) /\ LogAt(q) /\ PhaseAt(p) /\ PhaseAt(q) /\ LeaderAt(p) /\ EmuInv
      /\ Master \in Proxies /\ (MASTER(p) <=> p = Master)
  BY ProxyFacts DEF IInv, LogInv, PhaseInv, LeaderInv
<1>1. Len(done[q]) \in 1 .. Issued /\ Cmd(Len(done[q])) = "emu" /\ Issued \in Nat
  <2>1. done[q] # <<>> /\ Cmd(Len(done[q])) = "emu"
    BY <1>0, ZenonT(30) DEF PhaseAt, Gathering
  <2>2. Len(done[q]) <= Got(q) /\ Got(q) <= Issued /\ Got(q) \in Nat /\ Issued \in Nat /\ Len(done[q]) \in Nat
    BY <1>0, GotNat, Zenon DEF LogAt
  <2>3. Len(done[q]) # 0
    BY <1>0, <2>1 DEF TypeOK
  <2> QED
    BY <2>1, <2>2, <2>3
<1>2. ~ Sent(q, Len(done[q]))
  BY <1>1 DEF Sent, Gathering
<1>3. Len(done[q]) = Issued
  BY <1>0, <1>1, <1>2 DEF EmuInv, Closed
<1>4. Cmd(Issued) = "emu" /\ Issued >= 1
  BY <1>1, <1>3
<1>5. CASE pc[p] \in {"reload", "recvStat"}
  <2>1. LEADER(p) /\ Cmd(Len(done[p])) \in {"config", "stat", "nostat"} /\ Got(p) = Len(done[p]) /\ Got(p) \in Nat /\ Got(p) <= Issued
    BY <1>0, <1>5, GotNat, Zenon DEF PhaseAt, LogAt
  <2>2. Got(p) = Issued
    <3>1. CASE p = Master
      BY <3>1 DEF Issued, Got
    <3>2. CASE p # Master
      <4>1. ~ AtRest(p)
        BY <1>5 DEF AtRest
      <4>2. Got(p) >= Issued - 1 /\ Got(p) # Issued - 1
        BY <1>0, <1>5, <2>1, <3>2, <4>1, Zenon DEF LeaderAt
      <4> QED
        BY <1>1, <2>1, <4>2
    <3> QED
      BY <3>1, <3>2
  <2> QED
    BY <1>4, <2>1, <2>2
<1>6. CASE pc[p] = "run" /\ cmd[p] = "stat" /\ MASTER(p)
  <2>1. p = Master /\ Issued = Len(done[Master]) + 1 /\ Len(done[Master]) \in Nat
    BY <1>0, <1>6, GotNat, Zenon DEF Issued
  <2>2. Cmd(Issued) = "stat"
    BY <1>6, <2>1 DEF Cmd
  <2> QED
    BY <1>4, <2>2
<1> QED
  BY <1>5, <1>6 DEF Changing

\* Where the master stops counting.
LEMMA MergedImplied ==
    ASSUME CountLaws, IInv
    PROVE  MergedRound
<1> SUFFICES ASSUME pc[Master] = "gather", Len(merged) = NumServers * NumProxies - 1
             PROVE  {merged[i] : i \in DOMAIN merged} = {<<p, Len(done[Master])>> : p \in Proxies \ {Master}}
  BY Zenon DEF MergedRound, Master
<1>1. Gathering(Master) /\ Len(merged) = Others /\ Len(done[Master]) = Issued
  <2>1. Len(done[Master]) \in Nat
    BY GotNat, ProxyFacts DEF IInv
  <2> QED
    BY <2>1 DEF Gathering, Others, Issued
<1> QED
  BY <1>1, MergedAll DEF IInv

-----------------------------------------------------------------------------
(* The laws of counting, and the theorems.                                 *)

\* What Finite and Size stand for.
LEMMA FiniteIs == \A S : Finite(S) <=> \E seq \in Seq(S) : \A s \in S : \E n \in 1 .. Len(seq) : seq[n] = s
BY Zenon DEF Finite, IsFiniteSet

LEMMA SizeIs ==
    \A S : Size(S) = LET CS[T \in SUBSET S] == IF T = {} THEN 0 ELSE 1 + CS[T \ {CHOOSE x : x \in T}]
                     IN  CS[S]
BY Zenon DEF Size, Cardinality

LOCAL INSTANCE FiniteSetTheorems

\* FiniteSetTheorems has its own copy of FiniteSets, with the same definitions.
LEMMA Copies == \A S : (Finite(S) <=> IsFiniteSet(S)) /\ Size(S) = Cardinality(S)
<1>1. \A S : IsFiniteSet(S) <=> \E seq \in Seq(S) : \A s \in S : \E n \in 1 .. Len(seq) : seq[n] = s
  BY Zenon DEF IsFiniteSet
<1>2. \A S : Cardinality(S) = LET CS[T \in SUBSET S] == IF T = {} THEN 0 ELSE 1 + CS[T \ {CHOOSE x : x \in T}]
                              IN  CS[S]
  BY Zenon DEF Cardinality
<1>3. \A S : Finite(S) <=> IsFiniteSet(S)
  BY <1>1, FiniteIs, Zenon
<1>4. \A S : Size(S) = Cardinality(S)
  BY <1>2, SizeIs, Zenon
<1> QED
  BY <1>3, <1>4, Zenon

\* Finite sets are counted as assumed.
LEMMA CountHolds == CountLaws
<1>1. EmptyLaw
  BY Copies, FS_EmptySet, Zenon DEF EmptyLaw
<1>2. SingletonLaw
  BY Copies, FS_Singleton, Zenon DEF SingletonLaw
<1>3. IntervalLaw
  <2>1. ASSUME NEW n \in Nat
        PROVE  /\ IsFiniteSet(1 .. n) /\ Cardinality(1 .. n) = n
               /\ IsFiniteSet(0 .. n - 1) /\ Cardinality(0 .. n - 1) = n
    BY FS_Interval
  <2> QED
    BY <2>1, Copies, Zenon DEF IntervalLaw
<1>4. AddLaw
  BY Copies, FS_AddElement, Zenon DEF AddLaw
<1>5. RemoveLaw
  BY Copies, FS_RemoveElement, Zenon DEF RemoveLaw
<1>6. UnionLaw
  BY Copies, FS_Union, Zenon DEF UnionLaw
<1>7. ProductLaw
  BY Copies, FS_Product, Zenon DEF ProductLaw
<1>8. SubsetLaw
  BY Copies, FS_Subset, Zenon DEF SubsetLaw
<1>9. NatLaw
  BY Copies, FS_CardinalityType, Zenon DEF NatLaw
<1>10. PigeonLaw
  <2> SUFFICES ASSUME NEW n \in Nat, NEW T, NEW f \in [1 .. n -> T], Finite(T), Size(T) = n,
                      \A i, j \in 1 .. n : f[i] = f[j] => i = j
               PROVE  \A t \in T : \E i \in 1 .. n : f[i] = t
    BY DEF PigeonLaw
  <2>1. f \in Injection(1 .. n, T)
    BY DEF Injection, IsInjective
  <2>2. IsFiniteSet(T) /\ Cardinality(T) = n
    BY Copies, Zenon
  <2>3. Cardinality(1 .. n) = n
    BY FS_Interval
  <2>4. f \in Surjection(1 .. n, T)
    BY <2>1, <2>2, <2>3, FS_Injection, Zenon
  <2> QED
    BY <2>4, Zenon DEF Surjection
<1> QED
  BY <1>1, <1>2, <1>3, <1>4, <1>5, <1>6, <1>7, <1>8, <1>9, <1>10, Zenon DEF CountLaws

\* The inductive invariant holds always.
LEMMA Invariance == Spec => []ConsoleInv
<1>1. Init => ConsoleInv
  BY CountHolds, IInvInit DEF ConsoleInv, IInv
<1>2. ConsoleInv /\ [Next]_vars => ConsoleInv'
  <2> SUFFICES ASSUME ConsoleInv, [Next]_vars PROVE ConsoleInv'
    OBVIOUS
  <2>0. TypeOK /\ BarrierInv /\ LeadBounded /\ (Whole => IInv)
    BY DEF ConsoleInv
  <2>1. TypeOK' /\ BarrierInv' /\ LeadBounded'
    <3>1. ASSUME NEW p \in Proxies, Step(p) PROVE TypeOK' /\ BarrierInv' /\ LeadBounded'
      BY <2>0, <3>1, CountHolds, TypeStep, BarrierStep, Zenon
    <3>2. ASSUME NEW p \in Proxies, RunMissing(p) PROVE TypeOK' /\ BarrierInv' /\ LeadBounded'
      BY <2>0, <3>2, MissingStep, Zenon
    <3>3. CASE UNCHANGED vars
      BY <2>0, <3>3, BarrierStutter, Zenon
    <3> QED
      BY <3>1, <3>2, <3>3, Zenon DEF Next
  <2>2. ASSUME Whole' PROVE IInv'
    <3>1. Whole /\ \A p \in Proxies : ~ RunMissing(p)
      BY <2>0, <2>2, WholeBefore
    <3> QED
      BY <2>0, <3>1, CountHolds, IInvStep
  <2> QED
    BY <2>1, <2>2 DEF ConsoleInv
<1> QED
  BY <1>1, <1>2, PTL DEF Spec

\* Whatever the order in which the proxies of a server arrive at
\* console_barrier(), one that has passed its k-th barrier has left no other
\* proxy of the server NumProxies barriers behind.
THEOREM BarrierLead == Spec => []LeadBounded
<1>1. ConsoleInv => LeadBounded
  BY DEF ConsoleInv
<1> QED
  BY <1>1, Invariance, PTL

\* All proxies of all servers begin the commands the master gave out, in its
\* order and without a gap: settings and statistics that go through the same
\* queues are never taken for a command.  This and the next two hold until a
\* proxy begins an emulation whose input file is missing on some servers.
THEOREM CommandsAgree == Spec => []SameCommands
<1>1. ConsoleInv => SameCommands
  BY AgreeImplied, Zenon DEF ConsoleInv, SameCommands
<1> QED
  BY <1>1, Invariance, PTL

\* No leader reloads the settings or replaces the statistics of its server,
\* and the master does not load them, while any proxy runs the emulator,
\* although console_barrier() lets proxies run ahead.
THEOREM EmulationUndisturbed == Spec => []ConfigAlone
<1>1. ConsoleInv => ConfigAlone
  BY AloneImplied, Zenon DEF ConsoleInv, ConfigAlone
<1> QED
  BY <1>1, Invariance, PTL

\* The master counts messages and looks at nothing else, yet when it has as
\* many as there are other proxies they are one of each, of this emulation.
THEOREM StatisticsComplete == Spec => []MergedRound
<1>1. ConsoleInv => MergedRound
  BY CountHolds, MergedImplied, Zenon DEF ConsoleInv, MergedRound
<1> QED
  BY <1>1, Invariance, PTL

=============================================================================
