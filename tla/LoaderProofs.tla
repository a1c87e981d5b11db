---------------------------- MODULE LoaderProofs ----------------------------
(***************************************************************************)
(* The threads of a server that load files with RDMA reserve disjoint      *)
(* ranges of a piece.  A range that is reserved and not yet written lies   *)
(* below the counter, and its thread does not move on to another triple    *)
(* before it has written it.                                               *)
(***************************************************************************)
EXTENDS Loader, TLAPS

Triple == Nat \X Nat \X Nat

LoaderTypes ==
    /\ global_use_rdma \in BOOLEAN /\ unread \in [Servers -> SUBSET FileIds]
    /\ rest \in [Servers -> [Engines -> Seq(Triple)]]
    /\ sends \in [Servers -> [Engines -> Seq(Servers)]]
    /\ buf \in [Servers -> [Engines -> [Servers -> Seq(Triple)]]]
    /\ resv \in [Servers -> [Engines -> Nat \cup {-1}]]
    /\ pc \in [Servers -> {"load", "barrier", "done"}]
    /\ DOMAIN num_triples = Servers
    /\ \A s \in Servers : pc[s] = "load" => num_triples[s] \in [Servers -> Nat]

\* A thread with triples is loading, and has a server to send the first to.
Reading ==
    \A s \in Servers : \A t \in Engines : ~ Free(s, t) =>
        global_use_rdma /\ pc[s] = "load" /\ sends[s][t] # <<>>

\* A reservation is that of the full buffer for the server at hand, and the
\* counter is past it.
Reserved ==
    \A s \in Servers : \A t \in Engines : resv[s][t] # -1 =>
        /\ ~ Free(s, t) /\ Len(buf[s][t][sends[s][t][1]]) = BufSize
        /\ resv[s][t] + BufSize <= num_triples[s][sends[s][t][1]]

FlushInv == LoaderTypes /\ Reading /\ Reserved /\ FlushesDisjoint

-----------------------------------------------------------------------------

LEMMA Sizes ==
    /\ NumServers \in Nat \ {0} /\ BufSize \in Nat \ {0}
    /\ \A i \in FileIds : Files[i + 1] \in Seq(Triple)
  BY LoaderAssumption DEF FileIds, Triple

\* A sequence has a length.
LEMMA LenNat ==
    ASSUME NEW S, NEW q \in Seq(S)
    PROVE  Len(q) \in Nat
  OBVIOUS

\* A triple is sent to one server or two.
LEMMA SendsOfTriples ==
    ASSUME NEW ts \in Seq(Triple)
    PROVE  SendsOf(ts) \in Seq(Servers) /\ (ts # <<>> => SendsOf(ts) # <<>>)
<1>1. \A id \in Nat : Owner(id) \in Servers
  BY Sizes DEF Owner, Servers
<1>2. ASSUME ts # <<>> PROVE Targets(ts[1]) \in Seq(Servers) /\ Targets(ts[1]) # <<>>
  <2>1. ts[1] \in Triple
    BY <1>2
  <2>2. ts[1][1] \in Nat /\ ts[1][3] \in Nat
    BY <2>1 DEF Triple
  <2> QED
    BY <1>1, <2>2 DEF Targets
<1> QED
  BY <1>2 DEF SendsOf

LEMMA FlushInit == Init => FlushInv
<1> SUFFICES ASSUME Init PROVE FlushInv
  OBVIOUS
<1>1. LoaderTypes
  BY DEF Init, LoaderTypes
<1>2. \A s \in Servers : \A t \in Engines : Free(s, t) /\ resv[s][t] = -1
  BY DEF Init, Free
<1> QED
  BY <1>1, <1>2 DEF FlushInv, Reading, Reserved, FlushesDisjoint

\* A thread that opens a file has no reservation.
LEMMA FlushOpen ==
    ASSUME FlushInv, NEW s \in Servers, NEW t \in Engines, NEW i \in FileIds, OpenFile(s, t, i),
           global_use_rdma' = global_use_rdma
    PROVE  FlushInv'
<1> USE DEF FlushInv
<1>1. Files[i + 1] \in Seq(Triple)
  BY Sizes
<1>2. SendsOf(Files[i + 1]) \in Seq(Servers) /\ (Files[i + 1] # <<>> => SendsOf(Files[i + 1]) # <<>>)
  BY <1>1, SendsOfTriples
<1>3. LoaderTypes'
  BY <1>1, <1>2 DEF OpenFile, LoaderTypes
<1>4. resv[s][t] = -1
  BY DEF OpenFile, Reserved
<1>5. /\ rest'[s][t] = Files[i + 1] /\ sends'[s][t] = SendsOf(Files[i + 1])
      /\ \A a \in Servers : \A b \in Engines : a # s \/ b # t =>
            rest'[a][b] = rest[a][b] /\ sends'[a][b] = sends[a][b]
      /\ UNCHANGED <<buf, resv, num_triples, pc, global_use_rdma>>
      /\ global_use_rdma /\ pc[s] = "load"
  BY Zenon DEF OpenFile, LoaderTypes
<1>6. Reading'
  <2>1. ASSUME NEW a \in Servers, NEW b \in Engines
        PROVE  ~ Free(a, b)' => global_use_rdma' /\ pc'[a] = "load" /\ sends'[a][b] # <<>>
    BY <1>2, <1>5 DEF Reading, Free
  <2> QED
    BY <2>1, Zenon DEF Reading
<1>7. Reserved'
  <2>1. \A a \in Servers : \A b \in Engines : resv[a][b] # -1 =>
            rest'[a][b] = rest[a][b] /\ sends'[a][b] = sends[a][b]
    BY <1>4, <1>5, Zenon
  <2>2. ASSUME NEW a \in Servers, NEW b \in Engines, resv'[a][b] # -1
        PROVE  /\ ~ Free(a, b)' /\ Len(buf'[a][b][sends'[a][b][1]]) = BufSize
               /\ resv'[a][b] + BufSize <= num_triples'[a][sends'[a][b][1]]
    <3>1. /\ resv'[a][b] = resv[a][b] /\ rest'[a][b] = rest[a][b] /\ sends'[a][b] = sends[a][b]
          /\ buf'[a][b] = buf[a][b] /\ num_triples'[a] = num_triples[a] /\ resv[a][b] # -1
      BY <1>5, <2>1, <2>2, Zenon
    <3>2. /\ ~ Free(a, b) /\ Len(buf[a][b][sends[a][b][1]]) = BufSize
          /\ resv[a][b] + BufSize <= num_triples[a][sends[a][b][1]]
      BY <3>1, Zenon DEF Reserved
    <3> QED
      BY ONLY <3>1, <3>2, Zenon DEF Free
  <2> QED
    BY <2>2, Zenon DEF Reserved
<1>8. FlushesDisjoint'
  BY <1>4, <1>5 DEF FlushesDisjoint
<1> QED
  BY <1>3, <1>6, <1>7, <1>8

\* Nor has one whose buffer has room.
LEMMA FlushBuffer ==
    ASSUME FlushInv, NEW s \in Servers, NEW t \in Engines, BufferTriple(s, t),
           global_use_rdma' = global_use_rdma
    PROVE  FlushInv'
<1> USE DEF FlushInv
<1> DEFINE d == sends[s][t][1]
           last == Len(sends[s][t]) = 1
           more == Tail(rest[s][t])
<1>1. /\ rest[s][t] \in Seq(Triple) /\ rest[s][t] # <<>>
      /\ sends[s][t] \in Seq(Servers) /\ sends[s][t] # <<>>
      /\ global_use_rdma /\ pc[s] = "load"
  BY DEF BufferTriple, LoaderTypes, Reading, Free
<1>2. d \in Servers /\ more \in Seq(Triple) /\ rest[s][t][1] \in Triple
  BY <1>1
<1>3. SendsOf(more) \in Seq(Servers) /\ (more # <<>> => SendsOf(more) # <<>>)
  BY <1>2, SendsOfTriples
<1>4. Tail(sends[s][t]) \in Seq(Servers) /\ (~ last => Tail(sends[s][t]) # <<>>)
  <2> DEFINE q == sends[s][t]
  <2>1. q \in Seq(Servers) /\ Len(q) \in Nat /\ Len(q) # 0
    BY <1>1
  <2> HIDE DEF q
  <2>2. Tail(q) \in Seq(Servers) /\ Len(Tail(q)) = Len(q) - 1
    BY <2>1
  <2>3. Len(q) # 1 => Len(Tail(q)) # 0
    BY <2>1, <2>2
  <2>4. Len(q) # 1 => Tail(q) # <<>>
    BY <2>3
  <2> QED
    BY <2>2, <2>4, Zenon DEF q, last
<1>5. buf[s][t][d] \in Seq(Triple) /\ Append(buf[s][t][d], rest[s][t][1]) \in Seq(Triple)
  BY <1>2 DEF LoaderTypes
<1>6. resv[s][t] = -1
  <2>1. Len(buf[s][t][d]) < BufSize
    BY DEF BufferTriple
  <2>2. Len(buf[s][t][d]) # BufSize
    <3>1. Len(buf[s][t][d]) \in Nat
      BY <1>5, LenNat, Zenon
    <3>2. BufSize \in Nat
      BY Sizes, Zenon
    <3> QED
      BY ONLY <2>1, <3>1, <3>2
  <2> QED
    BY <2>2, Zenon DEF Reserved
<1> HIDE DEF d, last, more
<1>7. /\ rest' = [rest EXCEPT ![s][t] = IF last THEN more ELSE rest[s][t]]
      /\ sends' = [sends EXCEPT ![s][t] = IF last THEN SendsOf(more) ELSE Tail(sends[s][t])]
      /\ buf' = [buf EXCEPT ![s][t][d] = Append(buf[s][t][d], rest[s][t][1])]
      /\ UNCHANGED <<unread, resv, num_triples, pc, global_use_rdma>>
  BY DEF BufferTriple, LoaderTypes, d, last, more
<1>8. LoaderTypes'
  <2>1. rest' \in [Servers -> [Engines -> Seq(Triple)]]
    BY <1>1, <1>2, <1>7 DEF LoaderTypes
  <2>2. sends' \in [Servers -> [Engines -> Seq(Servers)]]
    BY <1>3, <1>4, <1>7, Zenon DEF LoaderTypes
  <2>3. buf' \in [Servers -> [Engines -> [Servers -> Seq(Triple)]]]
    <3> DEFINE x == Append(buf[s][t][d], rest[s][t][1])
    <3>1. [buf[s][t] EXCEPT ![d] = x] \in [Servers -> Seq(Triple)]
      <4>1. buf[s][t] \in [Servers -> Seq(Triple)]
        BY DEF LoaderTypes
      <4> QED
        BY ONLY <1>5, <4>1, Zenon
    <3>2. buf' = [buf EXCEPT ![s] = [buf[s] EXCEPT ![t] = [buf[s][t] EXCEPT ![d] = x]]]
      BY <1>7, Zenon
    <3>3. buf \in [Servers -> [Engines -> [Servers -> Seq(Triple)]]]
      BY DEF LoaderTypes
    <3> HIDE DEF x
    <3> QED
      BY ONLY <3>1, <3>2, <3>3, Zenon
  <2> QED
    BY <1>7, <2>1, <2>2, <2>3, Zenon DEF LoaderTypes
<1>9. /\ rest'[s][t] = IF last THEN more ELSE rest[s][t]
      /\ sends'[s][t] = IF last THEN SendsOf(more) ELSE Tail(sends[s][t])
      /\ \A a \in Servers : \A b \in Engines : a # s \/ b # t =>
            rest'[a][b] = rest[a][b] /\ sends'[a][b] = sends[a][b] /\ buf'[a][b] = buf[a][b]
  BY <1>7 DEF LoaderTypes
<1>10. Reading'
  BY <1>1, <1>3, <1>4, <1>7, <1>9 DEF Reading, Free
<1>11. Reserved'
  <2> SUFFICES ASSUME NEW a \in Servers, NEW b \in Engines, resv'[a][b] # -1
               PROVE  /\ rest'[a][b] # <<>> /\ Len(buf'[a][b][sends'[a][b][1]]) = BufSize
                      /\ resv'[a][b] + BufSize <= num_triples'[a][sends'[a][b][1]]
    BY DEF Reserved, Free
  <2>1. a # s \/ b # t
    BY <1>6, <1>7
  <2>2. rest'[a][b] = rest[a][b] /\ sends'[a][b] = sends[a][b] /\ buf'[a][b] = buf[a][b]
    BY <1>9, <2>1
  <2> QED
    BY <1>7, <2>2 DEF Reserved, Free
<1>12. FlushesDisjoint'
  BY <1>6, <1>7, <1>9 DEF FlushesDisjoint
<1> QED
  BY <1>8, <1>10, <1>11, <1>12

\* The place reserved lies above all that others have reserved.
LEMMA FlushReserve ==
    ASSUME FlushInv, NEW s \in Servers, NEW t \in Engines, Reserve(s, t),
           global_use_rdma' = global_use_rdma
    PROVE  FlushInv'
<1> USE DEF FlushInv
<1> DEFINE d == sends[s][t][1]
           n == num_triples[s][d]
<1>1. sends[s][t] \in Seq(Servers) /\ sends[s][t] # <<>> /\ pc[s] = "load"
  BY DEF Reserve, LoaderTypes, Reading
<1>2. d \in Servers /\ num_triples[s] \in [Servers -> Nat] /\ n \in Nat
  <2>1. d \in Servers
    BY <1>1
  <2>2. num_triples[s] \in [Servers -> Nat]
    BY <1>1 DEF LoaderTypes
  <2> HIDE DEF d
  <2> QED
    BY <2>1, <2>2
<1> HIDE DEF d, n
<1>3. /\ resv' = [resv EXCEPT ![s][t] = n]
      /\ num_triples' = [num_triples EXCEPT ![s][d] = n + BufSize]
      /\ ~ Free(s, t) /\ Len(buf[s][t][d]) = BufSize
      /\ UNCHANGED <<unread, rest, sends, buf, pc, global_use_rdma>>
  BY DEF Reserve, d, n
<1>4. n + BufSize \in Nat
  BY <1>2, Sizes
<1>5. LoaderTypes'
  BY <1>2, <1>3, <1>4 DEF LoaderTypes
<1>6. /\ resv'[s][t] = n /\ num_triples'[s][d] = n + BufSize
      /\ \A a \in Servers : \A b \in Engines : a # s \/ b # t => resv'[a][b] = resv[a][b]
      /\ \A a \in Servers : a # s => num_triples'[a] = num_triples[a]
      /\ \A e \in Servers : e # d => num_triples'[s][e] = num_triples[s][e]
  BY <1>2, <1>3 DEF LoaderTypes
<1>7. Reading'
  BY <1>3 DEF Reading, Free
<1>8. \A b \in Engines : resv[s][b] # -1 =>
         /\ sends[s][b][1] \in Servers /\ ~ Free(s, b)
         /\ resv[s][b] + BufSize <= num_triples[s][sends[s][b][1]]
         /\ resv[s][b] \in Nat
  <2> SUFFICES ASSUME NEW b \in Engines, resv[s][b] # -1
               PROVE  /\ sends[s][b][1] \in Servers /\ ~ Free(s, b)
                      /\ resv[s][b] + BufSize <= num_triples[s][sends[s][b][1]]
                      /\ resv[s][b] \in Nat
    OBVIOUS
  <2>1. ~ Free(s, b) /\ resv[s][b] + BufSize <= num_triples[s][sends[s][b][1]]
    BY DEF Reserved
  <2>2. sends[s][b] \in Seq(Servers) /\ sends[s][b] # <<>>
    BY <2>1 DEF Reading, LoaderTypes
  <2>3. resv[s][b] \in Nat
    BY DEF LoaderTypes
  <2> QED
    BY <2>1, <2>2, <2>3
<1>9. Reserved'
  <2> SUFFICES ASSUME NEW a \in Servers, NEW b \in Engines, resv'[a][b] # -1
               PROVE  /\ rest[a][b] # <<>> /\ Len(buf[a][b][sends[a][b][1]]) = BufSize
                      /\ resv'[a][b] + BufSize <= num_triples'[a][sends[a][b][1]]
    BY <1>3 DEF Reserved, Free
  <2>1. CASE a # s
    <3>1. resv'[a][b] = resv[a][b] /\ num_triples'[a] = num_triples[a]
      BY <1>6, <2>1
    <3> QED
      BY <3>1 DEF Reserved, Free
  <2>2. CASE a = s /\ b = t
    <3>1. rest[s][t] # <<>> /\ Len(buf[s][t][d]) = BufSize
      BY <1>3, Zenon DEF Free
    <3>2. n + BufSize <= n + BufSize
      BY ONLY <1>4
    <3>3. resv'[s][t] + BufSize <= num_triples'[s][d]
      BY <1>6, <3>2, Zenon
    <3> QED
      BY <2>2, <3>1, <3>3, Zenon DEF d
  <2>3. CASE a = s /\ b # t
    <3>1. resv'[s][b] = resv[s][b] /\ resv[s][b] # -1
      BY <1>6, <2>3
    <3>2. PICK e \in Servers : e = sends[s][b][1]
      BY <1>8, <3>1
    <3>3. num_triples[s][e] \in Nat /\ num_triples'[s][e] \in Nat /\ num_triples[s][e] <= num_triples'[s][e]
      <4>1. CASE e = d
        BY <1>2, <1>4, <1>6, <4>1, Sizes DEF n
      <4>2. CASE e # d
        BY <1>2, <1>6, <4>2
      <4> QED
        BY <4>1, <4>2
    <3>4. rest[s][b] # <<>> /\ Len(buf[s][b][sends[s][b][1]]) = BufSize
      BY <3>1 DEF Reserved, Free
    <3>5. resv[s][b] \in Nat /\ resv[s][b] + BufSize <= num_triples[s][e]
      BY <1>8, <3>1, <3>2
    <3>6. resv[s][b] + BufSize <= num_triples'[s][e]
      BY <3>3, <3>5, Sizes
    <3>7. resv'[s][b] + BufSize <= num_triples'[s][sends[s][b][1]]
      BY <3>1, <3>2, <3>6
    <3>8. a = s
      BY <2>3
    <3>9. rest[a][b] # <<>>
      BY <3>4, <3>8
    <3>10. Len(buf[a][b][sends[a][b][1]]) = BufSize
      BY <3>4, <3>8, Zenon
    <3>11. resv'[a][b] + BufSize <= num_triples'[a][sends[a][b][1]]
      BY <3>7, <3>8, Zenon
    <3> QED
      BY <3>9, <3>10, <3>11
  <2> QED
    BY <2>1, <2>2, <2>3
<1>10. FlushesDisjoint'
  <2> SUFFICES ASSUME NEW a \in Servers, NEW b \in Engines, NEW c \in Engines, b # c,
                      resv'[a][b] # -1, resv'[a][c] # -1, sends[a][b][1] = sends[a][c][1]
               PROVE  resv'[a][b] + BufSize <= resv'[a][c] \/ resv'[a][c] + BufSize <= resv'[a][b]
    BY <1>3 DEF FlushesDisjoint
  <2>1. CASE a # s \/ (b # t /\ c # t)
    BY <1>6, <2>1 DEF FlushesDisjoint
  <2>2. CASE a = s /\ b = t
    BY <1>6, <1>8, <2>2 DEF d, n
  <2>3. CASE a = s /\ c = t
    BY <1>6, <1>8, <2>3 DEF d, n
  <2> QED
    BY <2>1, <2>2, <2>3
<1> QED
  BY <1>5, <1>7, <1>9, <1>10

LEMMA FlushWrite ==
    ASSUME FlushInv, NEW s \in Servers, NEW t \in Engines, WriteTriples(s, t),
           global_use_rdma' = global_use_rdma
    PROVE  FlushInv'
<1> USE DEF FlushInv
<1>1. sends[s][t] \in Seq(Servers) /\ sends[s][t] # <<>>
  BY DEF WriteTriples, LoaderTypes, Reading, Reserved
<1>2. PICK d \in Servers : d = sends[s][t][1]
  BY <1>1
<1>3. /\ buf' = [buf EXCEPT ![s][t][d] = <<>>] /\ resv' = [resv EXCEPT ![s][t] = -1]
      /\ UNCHANGED <<unread, rest, sends, num_triples, pc, global_use_rdma>>
  BY <1>2 DEF WriteTriples
<1>4. LoaderTypes'
  <2>1. <<>> \in Seq(Triple) /\ -1 \in Nat \cup {-1}
    OBVIOUS
  <2>2. buf' \in [Servers -> [Engines -> [Servers -> Seq(Triple)]]]
    <3>1. [buf[s][t] EXCEPT ![d] = <<>>] \in [Servers -> Seq(Triple)]
      <4>1. buf[s][t] \in [Servers -> Seq(Triple)]
        BY DEF LoaderTypes
      <4> QED
        BY ONLY <2>1, <4>1, Zenon
    <3>2. buf' = [buf EXCEPT ![s] = [buf[s] EXCEPT ![t] = [buf[s][t] EXCEPT ![d] = <<>>]]]
      BY <1>3, Zenon
    <3> QED
      BY <3>1, <3>2, Zenon DEF LoaderTypes
  <2>3. resv' \in [Servers -> [Engines -> Nat \cup {-1}]]
    BY <1>3, <2>1, Zenon DEF LoaderTypes
  <2> QED
    BY <1>3, <2>2, <2>3, Zenon DEF LoaderTypes
<1>5. /\ resv'[s][t] = -1
      /\ \A a \in Servers : \A b \in Engines : a # s \/ b # t =>
            resv'[a][b] = resv[a][b] /\ buf'[a][b] = buf[a][b]
  BY <1>3 DEF LoaderTypes
<1>6. Reading'
  BY <1>3 DEF Reading, Free
<1>7. Reserved'
  BY <1>3, <1>5 DEF Reserved, Free
<1>8. FlushesDisjoint'
  BY <1>3, <1>5 DEF FlushesDisjoint
<1> QED
  BY <1>4, <1>6, <1>7, <1>8

\* When a server leaves the stage, none of its threads has a reservation.
LEMMA FlushLeave ==
    ASSUME FlushInv, NEW s \in Servers, NEW stage \in {"barrier", "done"},
           \A t \in Engines : Free(s, t), pc' = [pc EXCEPT ![s] = stage],
           UNCHANGED <<unread, rest, sends, resv, global_use_rdma>>,
           DOMAIN num_triples' = Servers, buf' \in [Servers -> [Engines -> [Servers -> Seq(Triple)]]],
           \A a \in Servers : a # s => buf'[a] = buf[a] /\ num_triples'[a] = num_triples[a]
    PROVE  FlushInv'
<1> USE DEF FlushInv
<1>1. \A t \in Engines : resv[s][t] = -1
  BY DEF Reserved
<1>2. pc'[s] = stage /\ \A a \in Servers : a # s => pc'[a] = pc[a]
  BY DEF LoaderTypes
<1>3. LoaderTypes'
  BY <1>2 DEF LoaderTypes
<1>4. Reading'
  BY <1>2 DEF Reading, Free
<1>5. Reserved'
  <2> SUFFICES ASSUME NEW a \in Servers, NEW b \in Engines, resv[a][b] # -1
               PROVE  /\ rest[a][b] # <<>> /\ Len(buf'[a][b][sends[a][b][1]]) = BufSize
                      /\ resv[a][b] + BufSize <= num_triples'[a][sends[a][b][1]]
    BY DEF Reserved, Free
  <2>1. a # s
    BY <1>1
  <2>2. buf'[a] = buf[a] /\ num_triples'[a] = num_triples[a]
    BY <2>1
  <2> QED
    BY <2>2 DEF Reserved, Free
<1>6. FlushesDisjoint'
  BY DEF FlushesDisjoint
<1> QED
  BY <1>3, <1>4, <1>5, <1>6

LEMMA FlushNext == FlushInv /\ [Next]_vars => FlushInv'
<1> SUFFICES ASSUME FlushInv, [Next]_vars PROVE FlushInv'
  OBVIOUS
<1> USE DEF FlushInv
<1>1. ASSUME UNCHANGED <<global_use_rdma, rest, sends, buf, resv, num_triples, pc>>,
             unread' \in [Servers -> SUBSET FileIds]
      PROVE  FlushInv'
  <2>1. LoaderTypes'
    BY <1>1 DEF LoaderTypes
  <2>2. Reading' /\ FlushesDisjoint'
    BY <1>1 DEF Reading, FlushesDisjoint, Free
  <2>3. Reserved'
    BY <1>1, Zenon DEF Reserved, Free
  <2> QED
    BY <2>1, <2>2, <2>3
<1>2. CASE UNCHANGED vars
  BY <1>1, <1>2 DEF vars, LoaderTypes
<1>3. CASE Finished
  BY <1>1, <1>3 DEF Finished, vars, LoaderTypes
<1>4. ASSUME NEW s \in Servers, ServerStep(s), UNCHANGED global_use_rdma PROVE FlushInv'
  <2>1. ASSUME NEW t \in Engines, BufferTriple(s, t) \/ Reserve(s, t) \/ WriteTriples(s, t)
        PROVE  FlushInv'
    BY <1>4, <2>1, FlushBuffer, FlushReserve, FlushWrite
  <2>2. ASSUME NEW t \in Engines, NEW i \in unread[s], OpenFile(s, t, i) PROVE FlushInv'
    <3>1. i \in FileIds
      BY DEF LoaderTypes
    <3> QED
      BY <1>4, <2>2, <3>1, FlushOpen
  <2>3. ASSUME NEW t \in Engines, NEW i \in unread[s], LoadFile(s, t, i) PROVE FlushInv'
    BY <1>1, <1>4, <2>3 DEF LoadFile, LoaderTypes
  <2>4. CASE FlushRest(s)
    <3>1. /\ \A t \in Engines : Free(s, t)
          /\ pc' = [pc EXCEPT ![s] = "barrier"] /\ UNCHANGED <<unread, rest, sends, resv, global_use_rdma>>
          /\ buf' = [buf EXCEPT ![s] = [t \in Engines |-> [d \in Servers |-> <<>>]]]
      BY <1>4, <2>4 DEF FlushRest
    <3>2. DOMAIN num_triples' = Servers /\ \A a \in Servers : a # s => num_triples'[a] = num_triples[a]
      BY <2>4 DEF FlushRest, LoaderTypes
    <3>3. /\ buf' \in [Servers -> [Engines -> [Servers -> Seq(Triple)]]]
          /\ \A a \in Servers : a # s => buf'[a] = buf[a]
      BY <3>1 DEF LoaderTypes
    <3> QED
      BY <3>1, <3>2, <3>3, FlushLeave
  <2>5. CASE aggregate_data(s)
    <3>1. \A t \in Engines : Free(s, t)
      BY <2>5 DEF aggregate_data, Arrived, Reading
    <3>2. /\ pc' = [pc EXCEPT ![s] = "done"] /\ UNCHANGED <<unread, rest, sends, resv, global_use_rdma>>
          /\ buf' = buf /\ num_triples' = num_triples
      BY <1>4, <2>5 DEF aggregate_data
    <3> QED
      BY <3>1, <3>2, FlushLeave DEF LoaderTypes
  <2> QED
    BY <1>4, <2>1, <2>2, <2>3, <2>4, <2>5 DEF ServerStep
<1> QED
  BY <1>2, <1>3, <1>4 DEF Next

\* The threads of load_data that flush a full buffer for the same server at
\* the same time write to disjoint ranges of the piece, for any numbers of
\* servers, threads and files and any sizes: flush_triples takes its place
\* with one fetch-and-add.
THEOREM FlushesDisjointInvariant == Spec => []FlushesDisjoint
<1>1. Init => FlushInv
  BY FlushInit
<1>2. FlushInv /\ [Next]_vars => FlushInv'
  BY FlushNext
<1>3. FlushInv => FlushesDisjoint
  BY DEF FlushInv
<1> QED
  BY <1>1, <1>2, <1>3, PTL DEF Spec
=============================================================================
