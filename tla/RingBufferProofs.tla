-------------------------- MODULE RingBufferProofs --------------------------
(***************************************************************************)
(* The theorems about RingBuffer for any number of writers, any ring size, *)
(* any messages and any number of sends, with the queue's one reader:      *)
(* fetch() returns the messages in order, nothing unread is overwritten and*)
(* the assertion on the footer holds.                                      *)
(***************************************************************************)
EXTENDS RingInvariant, TLAPS

-----------------------------------------------------------------------------
(* Offsets modulo the ring size.                                           *)

\* A number is its quotient times the divisor plus its remainder.
LEMMA ModDef ==
    ASSUME NEW n \in Nat \ {0}, NEW p \in Nat
    PROVE  /\ p = n * (p \div n) + (p % n)
           /\ p \div n \in Nat
           /\ p % n \in 0 .. n - 1
  OBVIOUS

\* Multiples of n lie n apart.
LEMMA MulGap ==
    ASSUME NEW n \in Nat \ {0}, NEW a \in Int, NEW b \in Int, a < b
    PROVE  n * b >= n * a + n
  <1>1. b - a >= 1
    OBVIOUS
  <1>2. n * (b - a) >= n
    BY <1>1
  <1>3. n * (b - a) = n * b - n * a
    OBVIOUS
  <1>4. QED
    BY <1>2, <1>3

\* Two offsets less than a ring apart never share a cell.
LEMMA ModInj ==
    ASSUME NEW n \in Nat \ {0}, NEW p \in Nat, NEW q \in Nat,
           p - q < n, q - p < n, p % n = q % n
    PROVE  p = q
  <1> DEFINE a == p \div n
             b == q \div n
  <1>1. p = n * a + (p % n) /\ q = n * b + (q % n) /\ a \in Nat /\ b \in Nat
    BY ModDef, Zenon
  <1>2. p % n \in Int /\ q % n \in Int
    BY ModDef
  <1>3. CASE a < b
    BY <1>1, <1>2, <1>3, MulGap
  <1>4. CASE b < a
    BY <1>1, <1>2, <1>4, MulGap
  <1>5. CASE a = b
    BY <1>1, <1>5
  <1>6. QED
    BY <1>1, <1>3, <1>4, <1>5

-----------------------------------------------------------------------------
(* Consequences of the invariant.                                          *)

\* The offsets are ordered natural numbers.
LEMMA Offsets ==
    ASSUME TypeOK
    PROVE  /\ tail \in Nat /\ head \in Nat /\ lhead \in Nat /\ rhead \in Nat
           /\ rhead <= lhead /\ lhead <= head /\ head <= tail
           /\ RbfSz \in Nat \ {0}
  BY RingAssumption DEF TypeOK

\* The log entries and the words of a message have the expected types.
LEMMA LogTypes ==
    ASSUME TypeOK, NEW i \in 1 .. Len(log)
    PROVE  /\ log[i].off \in Nat
           /\ log[i].data \in Messages
           /\ log[i].data \in Seq(Nat)
           /\ Len(log[i].data) \in Nat \ {0}
           /\ Size(i) = Len(log[i].data) + 2
           /\ Size(i) \in Nat
           /\ \A k \in 0 .. Size(i) - 1 : Word(log[i].data, k) \in Nat
  <1> DEFINE Entries == [off : Nat, data : Messages]
  <1>1. log \in Seq(Entries)
    BY DEF TypeOK
  <1> HIDE DEF Entries
  <1>2. log[i] \in Entries
    BY <1>1
  <1>3. log[i].data \in Messages /\ log[i].data \in Seq(Nat) /\ Len(log[i].data) \in Nat \ {0}
    BY <1>2, RingAssumption DEF Entries
  <1>4. QED
    BY <1>2, <1>3 DEF Entries, Size, MsgSz, Word

\* The lengths of the histories.
LEMMA Lengths ==
    ASSUME TypeOK, Len(got) <= Len(log)
    PROVE  /\ Len(log) \in Nat /\ Len(got) \in Nat
           /\ First \in Nat
           /\ First \in 1 .. Len(log) + 1
           /\ Live \subseteq 1 .. Len(log)
           /\ \A i \in Live : i >= First
  BY DEF TypeOK, First, Live

\* Start is a natural number at every reservation and at the tail.
LEMMA StartType ==
    ASSUME TypeOK, NEW i \in 1 .. Len(log) + 1
    PROVE  /\ Start(i) \in Nat
           /\ i \in 1 .. Len(log) => Start(i) = log[i].off
           /\ i = Len(log) + 1 => Start(i) = tail
  <1>1. Len(log) \in Nat
    BY DEF TypeOK
  <1>2. CASE i \in 1 .. Len(log)
    BY <1>1, <1>2, LogTypes DEF Start
  <1>3. CASE i = Len(log) + 1
    BY <1>1, <1>3, Offsets DEF Start
  <1>4. QED
    BY <1>1, <1>2, <1>3

\* Reservations do not overlap.
LEMMA StartMono ==
    ASSUME TypeOK, LogInv, NEW i \in 1 .. Len(log), NEW j \in 1 .. Len(log) + 1, i < j
    PROVE  /\ Start(i) + Size(i) = Start(i + 1)
           /\ Start(i + 1) <= Start(j)
  <1>1. Len(log) \in Nat
    BY DEF TypeOK
  <1>2. i + 1 \in 1 .. Len(log) + 1 /\ (i + 1 = j \/ i + 1 < j)
    BY <1>1
  <1>3. i + 1 < j => Start(i + 1) < Start(j)
    BY <1>2 DEF LogInv
  <1>4. Start(i + 1) \in Nat /\ Start(j) \in Nat
    BY <1>2, StartType
  <1>5. QED
    BY <1>2, <1>3, <1>4 DEF LogInv

\* Everything live lies between the head and the tail, which are at most a
\* ring apart.
LEMMA LiveRange ==
    ASSUME TypeOK, LogInv, NEW i \in Live, NEW k \in 0 .. Size(i) - 1
    PROVE  /\ i \in 1 .. Len(log)
           /\ head <= log[i].off + k
           /\ log[i].off + k < tail
           /\ tail <= head + RbfSz
           /\ log[i].off + k \in Nat
           /\ k \in Nat
  <1>1. /\ i \in 1 .. Len(log) /\ First \in 1 .. Len(log) + 1 /\ i >= First
        /\ Len(log) \in Nat /\ Len(log) + 1 \in 1 .. Len(log) + 1
    BY Lengths DEF LogInv
  <1>2. Size(i) \in Nat /\ log[i].off \in Nat /\ Start(i) = log[i].off
    BY SMTT(60), <1>1, LogTypes, StartType
  <1>3. head <= Start(i)
    <2>1. CASE First = i
      BY <2>1, <1>2, Offsets DEF LogInv
    <2>2. CASE First < i
      <3>1. First \in 1 .. Len(log) + 1 /\ i \in 1 .. Len(log) + 1
        BY <1>1
      <3>2. Start(First) < Start(i)
        BY <2>2, <3>1 DEF LogInv
      <3>3. QED
        BY <1>2, <3>2, Offsets, SMTT(60) DEF LogInv
    <2>3. QED
      BY <1>1, <2>1, <2>2
  <1>4. Start(i) + Size(i) <= Start(Len(log) + 1)
    BY <1>1, StartMono
  <1>5. Start(Len(log) + 1) = tail
    BY <1>1, StartType
  <1>6. tail <= head + RbfSz
    BY Offsets DEF LogInv
  <1>7. k \in Nat /\ k < Size(i)
    BY <1>2
  <1>8. head <= log[i].off /\ log[i].off + Size(i) <= tail
    BY <1>2, <1>3, <1>4, <1>5
  <1>9. head <= log[i].off + k /\ log[i].off + k < tail /\ log[i].off + k \in Nat
    BY <1>2, <1>7, <1>8, Offsets
  <1>10. QED
    BY <1>1, <1>6, <1>7, <1>9

\* Offsets in two ranges, one behind the other, differ.
LEMMA Apart ==
    ASSUME NEW a \in Nat, NEW s \in Nat, NEW b \in Nat, NEW k \in Nat, NEW l \in Nat,
           a + s <= b, k < s
    PROVE  a + k # b + l
  OBVIOUS

\* Different words of live reservations are in different cells.
LEMMA LiveCells ==
    ASSUME TypeOK, LogInv,
           NEW i \in Live, NEW k \in 0 .. Size(i) - 1,
           NEW j \in Live, NEW l \in 0 .. Size(j) - 1,
           (log[i].off + k) % RbfSz = (log[j].off + l) % RbfSz
    PROVE  i = j /\ k = l
  <1>1. /\ i \in 1 .. Len(log) /\ j \in 1 .. Len(log) /\ k \in Nat /\ l \in Nat
        /\ Len(log) \in Nat
    BY LiveRange, Lengths DEF LogInv
  <1>2. /\ Size(i) \in Nat /\ log[i].off \in Nat /\ Start(i) = log[i].off
        /\ Size(j) \in Nat /\ log[j].off \in Nat /\ Start(j) = log[j].off
    <2>1. i \in 1 .. Len(log) + 1 /\ j \in 1 .. Len(log) + 1
      BY <1>1
    <2>2. Size(i) \in Nat /\ log[i].off \in Nat
      BY <1>1, LogTypes, Zenon
    <2>3. Size(j) \in Nat /\ log[j].off \in Nat
      BY <1>1, LogTypes
    <2>4. Start(i) = log[i].off
      BY <1>1, <2>1, StartType
    <2>5. Start(j) = log[j].off
      BY <1>1, <2>1, StartType
    <2>6. QED
      BY <2>2, <2>3, <2>4, <2>5
  <1>3. log[i].off + k = log[j].off + l
    <2> DEFINE p == log[i].off + k
               q == log[j].off + l
    <2>1. head <= p /\ p < tail /\ p \in Nat /\ tail <= head + RbfSz
      BY LiveRange
    <2>2. head <= q /\ q < tail /\ q \in Nat
      BY LiveRange
    <2>3. p % RbfSz = q % RbfSz
      OBVIOUS
    <2> HIDE DEF p, q
    <2>4. p - q < RbfSz /\ q - p < RbfSz
      BY <2>1, <2>2, Offsets
    <2>5. p = q
      BY <2>1, <2>2, <2>3, <2>4, ModInj, Offsets
    <2>6. QED
      BY <2>5 DEF p, q
  <1>4. k < Size(i) /\ l < Size(j)
    <2> HIDE DEF Size
    <2>1. QED
      BY SMTT(60), <1>1, <1>2
  <1>5. ~ i < j
    <2>1. SUFFICES ASSUME i < j PROVE FALSE
      OBVIOUS
    <2>2. Start(i) + Size(i) <= Start(j)
      BY <1>1, <2>1, StartMono
    <2>3. log[i].off + Size(i) <= log[j].off
      BY <1>2, <2>2, Zenon
    <2>4. log[i].off + k # log[j].off + l
      BY <1>1, <1>2, <1>4, <2>3, Apart, Zenon
    <2>5. QED
      BY <1>3, <2>4, Zenon
  <1>6. ~ j < i
    <2>1. SUFFICES ASSUME j < i PROVE FALSE
      OBVIOUS
    <2>2. Start(j) + Size(j) <= Start(i)
      BY <1>1, <2>1, StartMono
    <2>3. log[j].off + Size(j) <= log[i].off
      BY <1>2, <2>2, Zenon
    <2>4. log[j].off + l # log[i].off + k
      BY <1>1, <1>2, <1>4, <2>3, Apart, Zenon
    <2>5. QED
      BY <1>3, <2>4, Zenon
  <1>7. QED
    BY <1>1, <1>2, <1>3, <1>5, <1>6

\* No live word shares a cell with the free part of the ring.
LEMMA FreeCells ==
    ASSUME TypeOK, LogInv,
           NEW i \in Live, NEW k \in 0 .. Size(i) - 1,
           NEW p \in tail .. head + RbfSz - 1
    PROVE  (log[i].off + k) % RbfSz # p % RbfSz
  <1> DEFINE q == log[i].off + k
  <1>1. head <= q /\ q < tail /\ q \in Nat
    BY LiveRange
  <1> HIDE DEF q
  <1>2. p \in Nat /\ p - q < RbfSz /\ q - p < RbfSz /\ q # p
    BY <1>1, Offsets
  <1>3. q % RbfSz # p % RbfSz
    BY <1>1, <1>2, ModInj, Offsets
  <1>4. QED
    BY <1>3 DEF q

\* Every offset has a cell.
LEMMA CellOf ==
    ASSUME NEW p \in Nat
    PROVE  p % RbfSz \in Cells
  BY RingAssumption, ModDef DEF Cells

\* With one reader, what has been cleaned follows from where it is.
LEMMA CleanedDef ==
    ASSUME NEW rd, Readers = {rd}, NEW i, NEW k
    PROVE  Cleaned(i, k) <=>
              /\ i = First
              /\ \/ k = 0 /\ rpc[rd] \in {"footer", "cleanFooter", "copy", "advance"}
                 \/ k = Size(i) - 1 /\ rpc[rd] \in {"copy", "advance"}
                 \/ k \in 1 .. Size(i) - 2 /\ rpc[rd] = "advance"
  BY DEF Cleaned

\* The first live reservation starts at the head.
LEMMA AtFirst ==
    ASSUME TypeOK, LogInv, First \in Live
    PROVE  /\ First \in 1 .. Len(log)
           /\ log[First].off = head
           /\ log[First].data \in Seq(Nat)
           /\ Len(log[First].data) \in Nat \ {0}
           /\ Size(First) = Len(log[First].data) + 2
           /\ Word(log[First].data, 0) = Len(log[First].data)
           /\ Word(log[First].data, Size(First) - 1) = Len(log[First].data)
           /\ 0 \in 0 .. Size(First) - 1
           /\ Size(First) - 1 \in 0 .. Size(First) - 1
           /\ head \in Nat
  <1>1. First \in 1 .. Len(log) /\ First \in 1 .. Len(log) + 1
    BY Lengths DEF LogInv
  <1>2. log[First].off = head
    BY Zenon, <1>1, StartType DEF LogInv
  <1>3. /\ log[First].data \in Seq(Nat)
        /\ Len(log[First].data) \in Nat \ {0}
        /\ Size(First) = Len(log[First].data) + 2
    BY <1>1, LogTypes
  <1>4. /\ Word(log[First].data, 0) = Len(log[First].data)
        /\ Word(log[First].data, Size(First) - 1) = Len(log[First].data)
    BY <1>3 DEF Word
  <1>5. QED
    BY <1>1, <1>2, <1>3, <1>4, Offsets

\* Only one reservation starts at an offset.
LEMMA SameStart ==
    ASSUME TypeOK, LogInv, NEW i \in Live, NEW j \in Live, log[i].off = log[j].off
    PROVE  i = j
  <1>1. i \in 1 .. Len(log) /\ j \in 1 .. Len(log) /\ Len(log) \in Nat
    BY Lengths DEF LogInv
  <1>2. i \in 1 .. Len(log) + 1 /\ j \in 1 .. Len(log) + 1
    BY <1>1
  <1>3. /\ Start(i) = log[i].off /\ Start(j) = log[j].off
        /\ log[i].off \in Nat /\ log[j].off \in Nat
    BY <1>1, <1>2, StartType, LogTypes
  <1>4. (i < j => Start(i) < Start(j)) /\ (j < i => Start(j) < Start(i))
    BY <1>2 DEF LogInv
  <1>5. QED
    BY <1>1, <1>3, <1>4

-----------------------------------------------------------------------------
(* The invariant holds initially and is preserved by every action.         *)

\* The ring starts out empty and clean.
LEMMA InitInv ==
    ASSUME Init
    PROVE  Inv
  <1>1. TypeOK
    BY RingAssumption DEF Init, TypeOK
  <1>2. Len(log) = 0 /\ Len(got) = 0 /\ First = 1 /\ Live = {}
    BY DEF Init, First, Live
  <1>3. InOrder
    BY <1>2 DEF InOrder
  <1>4. LogInv
    BY <1>2, RingAssumption DEF LogInv, Start, Init
  <1>5. WriterInv
    BY DEF Init, WriterInv
  <1>6. RingInv
    <2>1. \A p \in Nat : p % RbfSz \in Cells
      BY RingAssumption, ModDef DEF Cells
    <2>2. \A p \in tail .. head + RbfSz - 1 : ring[p % RbfSz] = 0
      <3>1. TAKE p \in tail .. head + RbfSz - 1
      <3>2. p \in Nat
        BY RingAssumption DEF Init
      <3>3. p % RbfSz \in Cells
        BY <2>1, <3>2
      <3>4. QED
        BY <3>3 DEF Init
    <2>3. QED
      BY <1>2, <2>2 DEF RingInv
  <1>7. ReaderInv
    BY DEF Init, ReaderInv
  <1>8. QED
    BY <1>1, <1>3, <1>4, <1>5, <1>6, <1>7 DEF Inv

\* A step of a writer that neither starts nor finishes filling a reservation
\* touches only its program counter and its message.
LEMMA WriterFrame ==
    ASSUME Inv, TypeOK',
           UNCHANGED <<ring, tail, head, rhead, off, cnt, rpc, dataSz, result, log, got>>,
           \A v \in Writers : wpc'[v] = "write" <=> wpc[v] = "write",
           \A v \in Writers : wpc[v] = "write" => msg'[v] = msg[v],
           \A v \in Writers : wpc'[v] # "idle" => msg'[v] \in Messages
    PROVE  Inv'
  <1>1. InOrder'
    BY DEF Inv, InOrder
  <1>2. LogInv'
    BY DEF Inv, LogInv, Start, Size, First
  <1>3. WriterInv'
    BY DEF Inv, WriterInv, Live, First
  <1>4. \A i, k : Unwritten(i, k)' <=> Unwritten(i, k)
    BY DEF Unwritten
  <1>5. \A i, k : Cleaned(i, k)' <=> Cleaned(i, k)
    BY DEF Cleaned, First, Size
  <1>6. RingInv'
    BY <1>4, <1>5 DEF Inv, RingInv, Live, First, Size
  <1>7. ReaderInv'
    BY <1>4 DEF Inv, ReaderInv, Live, First
  <1>8. QED
    BY <1>1, <1>2, <1>3, <1>6, <1>7 DEF Inv

LEMMA SendInv ==
    ASSUME Inv, NEW w \in Writers, NEW m \in Messages, Send(w, m)
    PROVE  Inv'
  <1>1. TypeOK'
    BY DEF Inv, TypeOK, Send, readerVars
  <1>2. \A v \in Writers : wpc'[v] = "write" <=> wpc[v] = "write"
    BY DEF Inv, TypeOK, Send
  <1>3. \A v \in Writers : wpc[v] = "write" => msg'[v] = msg[v]
    BY DEF Inv, TypeOK, Send
  <1>4. \A v \in Writers : wpc'[v] # "idle" => msg'[v] \in Messages
    BY DEF Inv, TypeOK, WriterInv, Send
  <1>5. QED
    BY <1>1, <1>2, <1>3, <1>4, WriterFrame DEF Send, readerVars

LEMMA FullInv ==
    ASSUME Inv, NEW w \in Writers, Full(w)
    PROVE  Inv'
  <1>1. TypeOK'
    BY DEF Inv, TypeOK, Full, readerVars
  <1>2. \A v \in Writers : wpc'[v] = "write" <=> wpc[v] = "write"
    BY DEF Inv, TypeOK, Full
  <1>3. \A v \in Writers : wpc'[v] # "idle" => msg'[v] \in Messages
    BY DEF Inv, TypeOK, WriterInv, Full
  <1>4. QED
    BY <1>1, <1>2, <1>3, WriterFrame DEF Full, readerVars

LEMMA RetryInv ==
    ASSUME Inv, NEW w \in Writers, Retry(w)
    PROVE  Inv'
  <1>1. TypeOK'
    BY DEF Inv, TypeOK, Retry, readerVars
  <1>2. \A v \in Writers : wpc'[v] = "write" <=> wpc[v] = "write"
    BY DEF Inv, TypeOK, Retry
  <1>3. \A v \in Writers : wpc'[v] # "idle" => msg'[v] \in Messages
    BY DEF Inv, TypeOK, WriterInv, Retry
  <1>4. QED
    BY <1>1, <1>2, <1>3, WriterFrame DEF Retry, readerVars

\* A step that changes nothing.
LEMMA StutterInv ==
    ASSUME Inv, UNCHANGED vars
    PROVE  Inv'
  <1>1. UNCHANGED <<ring, tail, head, lhead, rhead, wpc, msg, off, cnt, rpc, dataSz,
                    result, log, got>>
    BY DEF vars, writerVars, readerVars
  <1>2. TypeOK'
    BY <1>1, Zenon DEF Inv, TypeOK
  <1>3. \A v \in Writers : wpc'[v] # "idle" => msg'[v] \in Messages
    BY <1>1 DEF Inv, WriterInv
  <1>4. QED
    BY <1>1, <1>2, <1>3, WriterFrame

-----------------------------------------------------------------------------
(* Steps of the reader.                                                    *)

\* A step of the reader that moves neither a word nor the head.
LEMMA ReaderFrame ==
    ASSUME Inv, TypeOK',
           UNCHANGED <<ring, tail, head, wpc, msg, off, cnt, log, got>>,
           tail - rhead' <= RbfSz,
           \A i, k : Cleaned(i, k)' <=> Cleaned(i, k),
           ReaderInv'
    PROVE  Inv'
  <1>1. InOrder'
    BY DEF Inv, InOrder
  <1>2. LogInv'
    BY DEF Inv, LogInv, Start, Size, First
  <1>3. WriterInv'
    BY DEF Inv, WriterInv, Live, First
  <1>4. \A i, k : Unwritten(i, k)' <=> Unwritten(i, k)
    BY DEF Unwritten
  <1>5. RingInv'
    BY <1>4 DEF Inv, RingInv, Live, First, Size
  <1>6. QED
    BY <1>1, <1>2, <1>3, <1>5 DEF Inv

\* check(): a word other than zero at the head is the header of the first
\* live reservation.
LEMMA CheckInv ==
    ASSUME NEW rd, Readers = {rd}, Inv, check(rd)
    PROVE  Inv'
  <1>1. TypeOK'
    BY DEF Inv, TypeOK, check, writerVars
  <1>2. rpc[rd] = "idle" /\ rpc'[rd] = "header"
    BY DEF Inv, TypeOK, check
  <1>3. First \in Live
    <2>1. SUFFICES ASSUME First \notin Live PROVE FALSE
      OBVIOUS
    <2>2. First = Len(log) + 1 /\ First \in 1 .. Len(log) + 1
      BY <2>1 DEF Inv, TypeOK, LogInv, First, Live
    <2>3. head = tail
      BY <2>2, StartType DEF Inv, LogInv
    <2>4. head \in tail .. head + RbfSz - 1
      BY <2>3, Offsets DEF Inv
    <2>5. QED
      BY <2>4 DEF Inv, RingInv, check
  <1>4. ~ Unwritten(First, 0)
    <2>1. /\ log[First].off = head /\ head + 0 = head
          /\ 0 \in 0 .. Size(First) - 1
      BY <1>3, AtFirst DEF Inv
    <2>2. ring[(log[First].off + 0) % RbfSz] # 0
      BY <2>1 DEF check
    <2>3. QED
      BY <1>3, <2>1, <2>2 DEF Inv, RingInv
  <1>5. ReaderInv'
    <2>1. First' = First /\ Live' = Live /\ ~ Unwritten(First, 0)'
      BY <1>4 DEF check, First, Live, Unwritten, writerVars
    <2>2. QED
      BY <1>2, <1>3, <2>1 DEF ReaderInv
  <1>6. \A i, k : Cleaned(i, k)' <=> Cleaned(i, k)
    BY <1>2 DEF Cleaned
  <1>7. QED
    BY <1>1, <1>5, <1>6, ReaderFrame DEF Inv, LogInv, check, writerVars

\* fetch() reads the header: the size of the first live reservation.
LEMMA ReadHeaderInv ==
    ASSUME NEW rd, Readers = {rd}, Inv, ReadHeader(rd)
    PROVE  Inv'
  <1>1. First \in Live /\ ~ Unwritten(First, 0)
    BY DEF Inv, ReaderInv, ReadHeader
  <1>2. ~ Cleaned(First, 0)
    <2>1. Size(First) \in Nat /\ Size(First) > 2
      BY <1>1, AtFirst DEF Inv
    <2>2. QED
      BY <2>1, CleanedDef DEF ReadHeader
  <1>3. ring[head % RbfSz] = Len(log[First].data)
    <2>1. ring[(log[First].off + 0) % RbfSz] = Word(log[First].data, 0)
      BY <1>1, <1>2, AtFirst DEF Inv, RingInv
    <2>2. QED
      BY <1>1, <2>1, AtFirst DEF Inv
  <1>4. rpc'[rd] = "cleanHeader" /\ rpc[rd] = "header" /\ dataSz'[rd] = Len(log[First].data)
    BY <1>3 DEF Inv, TypeOK, ReadHeader
  <1>5. TypeOK'
    <2>1. ring[head % RbfSz] \in Nat
      BY <1>1, <1>3, AtFirst DEF Inv
    <2>2. QED
      BY <2>1 DEF Inv, TypeOK, ReadHeader, writerVars
  <1>6. ReaderInv'
    <2>1. /\ First' = First /\ Live' = Live /\ log' = log
          /\ ~ Unwritten(First, 0)'
      BY <1>1 DEF ReadHeader, First, Live, Unwritten, writerVars
    <2>2. QED
      BY <1>1, <1>4, <2>1 DEF ReaderInv
  <1>7. \A i, k : Cleaned(i, k)' <=> Cleaned(i, k)
    BY <1>4 DEF Cleaned
  <1>8. QED
    BY <1>5, <1>6, <1>7, ReaderFrame DEF Inv, LogInv, ReadHeader, writerVars

\* A step of fetch() that zeroes the words K of the first live reservation.
LEMMA CleanFrame ==
    ASSUME Inv, TypeOK', ReaderInv', First \in Live,
           UNCHANGED <<tail, head, lhead, rhead, wpc, msg, off, cnt, log, got>>,
           NEW K \in SUBSET (0 .. Size(First) - 1),
           \A c \in Cells : ring'[c] = IF \E k \in K : c = (head + k) % RbfSz THEN 0 ELSE ring[c],
           \A i, k : Cleaned(i, k)' <=> (Cleaned(i, k) \/ (i = First /\ k \in K))
    PROVE  Inv'
  <1>1. InOrder'
    BY DEF Inv, InOrder
  <1>2. LogInv'
    BY DEF Inv, LogInv, Start, Size, First
  <1>3. WriterInv'
    BY DEF Inv, WriterInv, Live, First
  <1>4. /\ First' = First /\ Live' = Live
        /\ \A i, k : Unwritten(i, k)' <=> Unwritten(i, k)
        /\ \A i : Size(i)' = Size(i)
    BY DEF First, Live, Size, Unwritten
  <1>5. log[First].off = head
    BY AtFirst DEF Inv
  <1>6. ASSUME NEW i \in Live, NEW k \in 0 .. Size(i) - 1
        PROVE  ring'[(log[i].off + k) % RbfSz] =
                  IF Unwritten(i, k) \/ Cleaned(i, k)' THEN 0 ELSE Word(log[i].data, k)
    <2>1. (log[i].off + k) % RbfSz \in Cells
      BY LiveRange, CellOf DEF Inv
    <2>2. (i = First /\ k \in K) <=> \E l \in K : (log[i].off + k) % RbfSz = (head + l) % RbfSz
      BY <1>5, LiveCells DEF Inv
    <2>3. QED
      BY <2>1, <2>2 DEF Inv, RingInv
  <1>7. ASSUME NEW p \in tail .. head + RbfSz - 1
        PROVE  ring'[p % RbfSz] = 0
    <2>1. p % RbfSz \in Cells /\ ring[p % RbfSz] = 0
      BY CellOf, Offsets DEF Inv, RingInv
    <2>2. QED
      BY <2>1
  <1>8. RingInv'
    BY <1>4, <1>6, <1>7 DEF RingInv
  <1>9. QED
    BY <1>1, <1>2, <1>3, <1>8 DEF Inv

\* fetch() cleans the header word.
LEMMA CleanHeaderInv ==
    ASSUME NEW rd, Readers = {rd}, Inv, CleanHeader(rd)
    PROVE  Inv'
  <1>1. First \in Live /\ ~ Unwritten(First, 0) /\ dataSz[rd] = Len(log[First].data)
    BY DEF Inv, ReaderInv, CleanHeader
  <1>2. rpc[rd] = "cleanHeader" /\ rpc'[rd] = "footer" /\ head + 0 = head
    BY Offsets DEF Inv, TypeOK, CleanHeader
  <1>3. TypeOK'
    BY Zenon DEF Inv, TypeOK, CleanHeader, writerVars
  <1>4. /\ First' = First /\ Live' = Live /\ log' = log
        /\ ~ Unwritten(First, 0)'
        /\ Size(First)' = Size(First)
    BY <1>1 DEF First, Live, Size, Unwritten, CleanHeader, writerVars
  <1>5. ReaderInv'
    BY <1>1, <1>2, <1>4 DEF ReaderInv, CleanHeader
  <1>6. \A c \in Cells :
            ring'[c] = IF \E k \in {0} : c = (head + k) % RbfSz THEN 0 ELSE ring[c]
    BY <1>2 DEF Inv, TypeOK, CleanHeader
  <1>7. \A i, k : Cleaned(i, k)' <=> (Cleaned(i, k) \/ (i = First /\ k \in {0}))
    BY <1>2, <1>4 DEF Cleaned
  <1>8. {0} \in SUBSET (0 .. Size(First) - 1)
    BY <1>1, AtFirst DEF Inv
  <1>9. QED
    BY <1>1, <1>3, <1>5, <1>6, <1>7, <1>8, CleanFrame, Zenon DEF CleanHeader, writerVars

\* The footer cell of the message being fetched is the last word of the
\* first live reservation.
LEMMA FooterCell ==
    ASSUME TypeOK, LogInv, First \in Live, NEW rd, dataSz[rd] = Len(log[First].data)
    PROVE  head + 1 + dataSz[rd] = log[First].off + (Size(First) - 1)
  <1>1. /\ log[First].off = head /\ head \in Nat
        /\ Size(First) = dataSz[rd] + 2 /\ dataSz[rd] \in Nat
    BY AtFirst
  <1> DEFINE size == Size(First)
             data == dataSz[rd]
  <1>2. size = data + 2 /\ data \in Nat
    BY <1>1
  <1> HIDE DEF size, data
  <1>3. head + 1 + data = head + (size - 1)
    BY <1>1, <1>2
  <1>4. QED
    BY <1>1, <1>3, Zenon DEF size, data

\* The spin ends: the footer is there, so the whole message is.
LEMMA WaitFooterInv ==
    ASSUME NEW rd, Readers = {rd}, Inv, WaitFooter(rd)
    PROVE  Inv'
  <1>1. First \in Live /\ ~ Unwritten(First, 0) /\ dataSz[rd] = Len(log[First].data)
    BY DEF Inv, ReaderInv, WaitFooter
  <1>2. rpc[rd] = "footer" /\ rpc'[rd] = "cleanFooter"
    BY DEF Inv, TypeOK, WaitFooter
  <1>3. TypeOK'
    BY Zenon DEF Inv, TypeOK, WaitFooter, writerVars
  <1>4. ~ Unwritten(First, Size(First) - 1)
    <2>1. ring[(log[First].off + (Size(First) - 1)) % RbfSz] # 0
      BY <1>1, AtFirst, FooterCell, Zenon DEF Inv, WaitFooter, Footer
    <2>2. QED
      BY <1>1, <2>1, AtFirst, Zenon DEF Inv, RingInv
  <1>5. ASSUME NEW w \in Writers, wpc[w] = "write"
        PROVE  off[w] # log[First].off
    <2>1. PICK i \in Live : log[i].off = off[w] /\ log[i].data = msg[w]
      BY <1>5 DEF Inv, WriterInv
    <2>2. cnt[w] \in Nat /\ cnt[w] < Size(i)
      BY <1>5, <2>1 DEF Inv, TypeOK, WriterInv, Size
    <2>3. i = First => cnt[w] <= Size(First) - 1
      BY SMTT(60), <1>1, <2>2, AtFirst DEF Inv
    <2>4. i # First
      BY <1>4, <1>5, <2>1, <2>3 DEF Unwritten
    <2>5. QED
      BY <1>1, <2>1, <2>4, SameStart DEF Inv
  <1>6. ReaderInv'
    <2>1. /\ First' = First /\ Live' = Live /\ log' = log /\ ~ Unwritten(First, 0)'
          /\ UNCHANGED <<wpc, off, dataSz>>
      BY <1>1 DEF WaitFooter, First, Live, Unwritten, writerVars
    <2>2. QED
      BY <1>1, <1>2, <1>5, <2>1 DEF ReaderInv
  <1>7. \A i, k : Cleaned(i, k)' <=> Cleaned(i, k)
    BY <1>2 DEF Cleaned, WaitFooter, First, Size
  <1>8. QED
    BY <1>3, <1>6, <1>7, ReaderFrame, Zenon DEF Inv, LogInv, WaitFooter, writerVars

\* fetch() cleans the footer word.
LEMMA CleanFooterInv ==
    ASSUME NEW rd, Readers = {rd}, Inv, CleanFooter(rd)
    PROVE  Inv'
  <1> DEFINE last == Size(First) - 1
  <1>1. /\ First \in Live /\ ~ Unwritten(First, 0) /\ dataSz[rd] = Len(log[First].data)
        /\ \A w \in Writers : wpc[w] = "write" => off[w] # log[First].off
    BY DEF Inv, ReaderInv, CleanFooter
  <1>2. rpc[rd] = "cleanFooter" /\ rpc'[rd] = "copy"
    BY DEF Inv, TypeOK, CleanFooter
  <1>3. /\ head + 1 + dataSz[rd] = head + last
        /\ last \in 0 .. Size(First) - 1
    BY Zenon, <1>1, FooterCell, AtFirst DEF Inv
  <1>4. TypeOK'
    BY Zenon DEF Inv, TypeOK, CleanFooter, writerVars
  <1>5. /\ First' = First /\ Live' = Live /\ log' = log
        /\ ~ Unwritten(First, 0)'
        /\ \A i : Size(i)' = Size(i)
        /\ UNCHANGED <<wpc, off, dataSz>>
    BY <1>1 DEF First, Live, Size, Unwritten, CleanFooter, writerVars
  <1>6. ReaderInv'
    BY <1>1, <1>2, <1>5 DEF ReaderInv
  <1>7. \A c \in Cells :
            ring'[c] = IF \E k \in {last} : c = (head + k) % RbfSz THEN 0 ELSE ring[c]
    BY <1>3 DEF Inv, TypeOK, CleanFooter
  <1>8. \A i, k : Cleaned(i, k)' <=> (Cleaned(i, k) \/ (i = First /\ k \in {last}))
    BY <1>2, <1>5 DEF Cleaned
  <1>9. {last} \in SUBSET (0 .. Size(First) - 1)
    BY <1>3
  <1>10. QED
    BY <1>1, <1>4, <1>6, <1>7, <1>8, <1>9, CleanFrame, Zenon DEF CleanFooter, writerVars

\* A sequence is the function of its elements.
LEMMA SeqIsFunction ==
    ASSUME NEW S, NEW s \in Seq(S)
    PROVE  s = [k \in 1 .. Len(s) |-> s[k]]
  OBVIOUS

\* fetch() copies the data, which is all there, and cleans it.
LEMMA CopyDataInv ==
    ASSUME NEW rd, Readers = {rd}, Inv, CopyData(rd)
    PROVE  Inv'
  <1> DEFINE K == 1 .. Size(First) - 2
             data == log[First].data
  <1>1. /\ First \in Live /\ ~ Unwritten(First, 0) /\ dataSz[rd] = Len(data)
        /\ \A w \in Writers : wpc[w] = "write" => off[w] # log[First].off
    BY DEF Inv, ReaderInv, CopyData
  <1>2. rpc[rd] = "copy" /\ rpc'[rd] = "advance"
    BY DEF Inv, TypeOK, CopyData
  <1>3. /\ Size(First) - 2 = Len(data) /\ Size(First) \in Nat /\ Len(data) \in Nat
        /\ data \in Seq(Nat) /\ log[First].off = head
        /\ K \in SUBSET (0 .. Size(First) - 1)
        /\ K = 1 .. dataSz[rd]
    BY <1>1, AtFirst, SMTT(60) DEF Inv
  <1>4. ASSUME NEW k \in K
        PROVE  ring[(head + k) % RbfSz] = data[k]
    <2>1. k \in 0 .. Size(First) - 1 /\ k \in 1 .. Len(data)
          /\ k # 0 /\ k # Size(First) - 1
      BY <1>3
    <2>2. ~ Unwritten(First, k)
      BY <1>1 DEF Unwritten
    <2>3. ~ Cleaned(First, k)
      BY <1>2, <2>1, CleanedDef
    <2>4. Word(data, k) = data[k]
      BY <2>1 DEF Word
    <2>5. QED
      BY <1>1, <1>3, <2>1, <2>2, <2>3, <2>4 DEF Inv, RingInv
  <1>5. result'[rd] = data
    <2>1. result'[rd] = [k \in K |-> ring[(head + k) % RbfSz]]
      BY <1>3 DEF Inv, TypeOK, CopyData
    <2>2. data = [k \in 1 .. Len(data) |-> data[k]]
      BY <1>3, SeqIsFunction, Zenon
    <2>3. K = 1 .. Len(data)
      BY <1>3
    <2>4. QED
      BY <1>4, <2>1, <2>2, <2>3, Zenon
  <1>6. \A c \in Cells :
            ring'[c] = IF \E k \in K : c = (head + k) % RbfSz THEN 0 ELSE ring[c]
    BY <1>3, Zenon DEF CopyData, DataCells
  <1>7. TypeOK'
    <2>1. ring' \in [Cells -> Nat]
      BY DEF Inv, TypeOK, CopyData
    <2>2. result' \in [Readers -> Seq(Nat)]
      BY <1>3, <1>5, Zenon DEF Inv, TypeOK, CopyData
    <2>3. QED
      BY <2>1, <2>2 DEF Inv, TypeOK, CopyData, writerVars
  <1>8. /\ First' = First /\ Live' = Live /\ log' = log
        /\ ~ Unwritten(First, 0)'
        /\ \A i : Size(i)' = Size(i)
        /\ UNCHANGED <<wpc, off, dataSz>>
    BY <1>1 DEF First, Live, Size, Unwritten, CopyData, writerVars
  <1>9. ReaderInv'
    BY <1>1, <1>2, <1>5, <1>8, Zenon DEF ReaderInv
  <1>10. \A i, k : Cleaned(i, k)' <=> (Cleaned(i, k) \/ (i = First /\ k \in K))
    BY <1>2, <1>8 DEF Cleaned
  <1>11. QED
    BY <1>1, <1>3, <1>6, <1>7, <1>9, <1>10, CleanFrame, Zenon DEF CopyData, writerVars

\* One turn around the ring leads back to the same cell.
LEMMA ModTurn ==
    ASSUME NEW n \in Nat \ {0}, NEW p \in Nat
    PROVE  (p + n) % n = p % n
  <1>1. /\ p = n * (p \div n) + (p % n)
        /\ p \div n \in Nat /\ p % n \in 0 .. n - 1
    BY ModDef, Zenon
  <1> DEFINE a == p \div n
             c == p % n
             b == (p + n) \div n
             d == (p + n) % n
  <1>2. /\ p + n = n * b + d
        /\ b \in Nat /\ d \in 0 .. n - 1
    <2>1. p + n \in Nat
      OBVIOUS
    <2>2. QED
      BY <2>1, ModDef, Zenon
  <1> HIDE DEF a, b, c, d
  <1>3. p = n * a + c /\ a \in Nat /\ c \in 0 .. n - 1
    BY <1>1 DEF a, c
  <1>4. n * (a + 1) = n * a + n
    BY <1>3
  <1>5. CASE a + 1 < b
    BY <1>2, <1>3, <1>4, <1>5, MulGap
  <1>6. CASE b < a + 1
    BY <1>2, <1>3, <1>4, <1>6, MulGap
  <1>7. CASE b = a + 1
    BY <1>2, <1>3, <1>4, <1>7 DEF c, d
  <1>8. QED
    BY <1>2, <1>3, <1>5, <1>6, <1>7

\* fetch() moves the head behind the message and returns it: the cells it
\* gives back to the writers are clean.
LEMMA AdvanceInv ==
    ASSUME NEW rd, Readers = {rd}, Inv, Advance(rd)
    PROVE  Inv'
  <1>1. /\ First \in Live /\ dataSz[rd] = Len(log[First].data)
        /\ result[rd] = log[First].data
        /\ \A w \in Writers : wpc[w] = "write" => off[w] # log[First].off
    BY DEF Inv, ReaderInv, Advance, AdvanceBy
  <1>2. rpc[rd] = "advance" /\ rpc'[rd] \in {"idle", "publish"}
    BY DEF Inv, TypeOK, Advance, AdvanceBy
  <1>3. /\ First \in 1 .. Len(log) /\ log[First].off = head
        /\ Size(First) \in Nat /\ head' = head + Size(First)
    BY <1>1, AtFirst, SMTT(60) DEF Inv, Advance, AdvanceBy, MsgSz
  <1>4. First + 1 \in 1 .. Len(log) + 1 /\ Start(First + 1) = head' /\ head' <= tail
    <2>1. Len(log) \in Nat
      BY DEF Inv, TypeOK
    <2>2. /\ First + 1 \in 1 .. Len(log) + 1 /\ First \in 1 .. Len(log) + 1
          /\ Len(log) + 1 \in 1 .. Len(log) + 1
          /\ First < Len(log) + 1
      BY <1>3, <2>1
    <2>3. /\ Start(First) + Size(First) = Start(First + 1)
          /\ Start(First + 1) <= Start(Len(log) + 1)
      BY <1>3, <2>2, StartMono DEF Inv
    <2>4. Start(First) = head /\ Start(Len(log) + 1) = tail
      BY <1>3, <2>2, StartType DEF Inv
    <2>5. QED
      BY <1>3, <2>2, <2>3, <2>4
  <1>5. /\ got \in Seq(Seq(Nat)) /\ result[rd] \in Seq(Nat)
        /\ got' = Append(got, result[rd])
        /\ got' \in Seq(Seq(Nat)) /\ Len(got') = Len(got) + 1
        /\ \A i \in 1 .. Len(got) : got'[i] = got[i]
        /\ got'[First] = result[rd]
    BY DEF Inv, TypeOK, Advance, AdvanceBy, First
  <1>6. First' = First + 1 /\ Live' \subseteq Live /\ First \notin Live'
    BY <1>5 DEF Inv, TypeOK, First, Live, Advance, AdvanceBy
  <1>7. TypeOK'
    <2>1. head' \in 0 .. tail' /\ lhead' \in 0 .. head' /\ rhead' \in 0 .. lhead'
      <3>1. lhead' \in {lhead, head'} /\ rhead' = rhead /\ tail' = tail
        BY DEF Advance, AdvanceBy
      <3>2. head <= head' /\ head' \in Nat
        BY <1>3, Offsets DEF Inv
      <3>3. QED
        BY <1>4, <3>1, <3>2, Offsets DEF Inv
    <2>2. rpc' \in [Readers -> {"idle", "header", "cleanHeader", "footer", "cleanFooter",
                                "copy", "advance", "publish"}]
      BY DEF Inv, TypeOK, Advance, AdvanceBy
    <2>3. QED
      BY Zenon, <1>5, <2>1, <2>2 DEF Inv, TypeOK, Advance, AdvanceBy, writerVars
  <1>8. InOrder'
    <2>1. Len(got') <= Len(log)
      BY <1>3, <1>5 DEF Inv, TypeOK, First
    <2>2. ASSUME NEW i \in 1 .. Len(got')
          PROVE  got'[i] = log[i].data
      <3>1. i \in 1 .. Len(got) \/ i = First
        BY <1>5 DEF First
      <3>2. QED
        BY <1>1, <1>5, <3>1 DEF Inv, InOrder
    <2>3. QED
      BY <2>1, <2>2 DEF InOrder, Advance, AdvanceBy
  <1>9. LogInv'
    <2>1. UNCHANGED <<log, tail, rhead>>
      BY DEF Advance, AdvanceBy
    <2>2. Len(got') <= Len(log)
      BY <1>8, <2>1 DEF InOrder
    <2>3. \A k : Start(k)' = Start(k) /\ Size(k)' = Size(k)
      BY <2>1 DEF Start, Size
    <2>4. head' = Start(First)'
      BY <1>4, <1>6, <2>1 DEF Start
    <2>5. \A k \in 1 .. Len(log) : Start(k + 1)' = Start(k)' + Size(k)'
      BY <2>3 DEF Inv, LogInv
    <2>6. \A i, j \in 1 .. Len(log) + 1 : i < j => Start(i)' < Start(j)'
      BY <2>3 DEF Inv, LogInv
    <2>7. QED
      BY <2>1, <2>2, <2>4, <2>5, <2>6 DEF Inv, LogInv
  <1>10. WriterInv'
    <2>1. UNCHANGED <<log, wpc, msg, off, cnt>>
      BY Zenon DEF Advance, AdvanceBy, writerVars
    <2>2. \A i \in Live : i # First => i \in Live'
      BY <1>5, <2>1, SMTT(60) DEF Inv, TypeOK, First, Live
    <2>3. QED
      BY <1>1, <2>1, <2>2 DEF Inv, WriterInv
  <1>11. RingInv'
    <2>1. /\ UNCHANGED <<log, ring, tail>>
          /\ \A i, k : Unwritten(i, k)' <=> Unwritten(i, k)
          /\ \A i : Size(i)' = Size(i)
      BY DEF Advance, AdvanceBy, Unwritten, Size, writerVars
    <2>2. ASSUME NEW i \in Live', NEW k \in 0 .. Size(i) - 1
          PROVE  ring[(log[i].off + k) % RbfSz] =
                    IF Unwritten(i, k) \/ Cleaned(i, k)' THEN 0 ELSE Word(log[i].data, k)
      <3>1. i \in Live /\ i # First
        BY <1>6
      <3>2. ~ Cleaned(i, k)' /\ ~ Cleaned(i, k)
        BY <1>2, <3>1 DEF Cleaned
      <3>3. QED
        BY <3>1, <3>2 DEF Inv, RingInv
    <2>3. ASSUME NEW p \in tail .. head' + RbfSz - 1
          PROVE  ring[p % RbfSz] = 0
      <3>1. CASE p \in tail .. head + RbfSz - 1
        BY <3>1 DEF Inv, RingInv
      <3>2. CASE p >= head + RbfSz
        <4> DEFINE k == p - (head + RbfSz)
        <4>1. /\ k \in 0 .. Size(First) - 1 /\ k \in Nat
              /\ p = (head + k) + RbfSz /\ head + k \in Nat
          <5>1. p \in Int /\ p <= head' + RbfSz - 1
            BY <1>3, Offsets DEF Inv
          <5> DEFINE size == Size(First)
          <5>2. size \in Nat /\ head' = head + size
            BY <1>3
          <5>3. head \in Nat /\ RbfSz \in Nat
            BY Offsets DEF Inv
          <5> HIDE DEF size
          <5>4. k \in 0 .. size - 1 /\ k \in Nat
            BY <3>2, <5>1, <5>2, <5>3
          <5>5. p = (head + k) + RbfSz /\ head + k \in Nat
            BY <3>2, <5>1, <5>3
          <5>6. QED
            BY <5>4, <5>5 DEF size
        <4>2. p % RbfSz = (log[First].off + k) % RbfSz
          BY <1>3, <4>1, ModTurn, Offsets, Zenon DEF Inv
        <4>3. Cleaned(First, k)
          BY SMTT(60), <1>2, <1>3, <4>1, CleanedDef
        <4>4. QED
          BY <1>1, <4>1, <4>2, <4>3 DEF Inv, RingInv
      <3>3. QED
        BY <1>3, <3>1, <3>2, Offsets, SMTT(60) DEF Inv
    <2>4. QED
      BY <2>1, <2>2, <2>3, Zenon DEF RingInv
  <1>12. ReaderInv'
    BY <1>2 DEF ReaderInv
  <1>13. QED
    BY <1>7, <1>8, <1>9, <1>10, <1>11, <1>12 DEF Inv

\* The published head reaches the writers.
LEMMA PublishInv ==
    ASSUME NEW rd, Readers = {rd}, Inv, Publish(rd)
    PROVE  Inv'
  <1>1. TypeOK'
    BY DEF Inv, TypeOK, Publish, writerVars
  <1>2. rpc[rd] = "publish" /\ rpc'[rd] = "idle"
    BY DEF Inv, TypeOK, Publish
  <1>3. tail - rhead' <= RbfSz
    BY Offsets DEF Inv, LogInv, Publish
  <1>4. ReaderInv'
    BY <1>2 DEF ReaderInv
  <1>5. \A i, k : Cleaned(i, k)' <=> Cleaned(i, k)
    BY <1>2 DEF Cleaned
  <1>6. QED
    BY <1>1, <1>3, <1>4, <1>5, ReaderFrame DEF Publish, writerVars

-----------------------------------------------------------------------------
(* Steps of a writer that reserve a place in the ring and write a word.    *)

\* A writer puts its next word where its own reservation, and nobody else's,
\* has not been written yet.
LEMMA WriteWordInv ==
    ASSUME NEW rd, Readers = {rd}, Inv, NEW w \in Writers, WriteWord(w)
    PROVE  Inv'
  <1>0. PICK n \in Nat : n = cnt[w]
    BY Zenon DEF Inv, TypeOK
  <1>1. PICK i \in Live : log[i].off = off[w] /\ log[i].data = msg[w]
    BY DEF Inv, WriterInv, WriteWord
  <1>2. wpc[w] = "write" /\ n \in Nat /\ n < Size(i) /\ n \in 0 .. Size(i) - 1
        /\ i \in 1 .. Len(log) /\ Size(i) \in Nat
    <2>1. wpc[w] = "write" /\ n \in Nat /\ n < Size(i)
      BY <1>0, <1>1 DEF Inv, TypeOK, WriterInv, WriteWord, Size
    <2>2. i \in 1 .. Len(log)
      BY Lengths DEF Inv, LogInv
    <2>3. Size(i) \in Nat
      BY <2>2, LogTypes, Zenon DEF Inv
    <2>4. QED
      BY <2>1, <2>2, <2>3, SMTT(60)
  <1>3. /\ UNCHANGED <<tail, head, lhead, rhead, msg, off, rpc, dataSz, result, log, got>>
        /\ First' = First /\ Live' = Live
        /\ \A j : Size(j)' = Size(j)
    BY Zenon DEF WriteWord, readerVars, First, Live, Size
  <1>4. /\ cnt'[w] = n + 1
        /\ wpc'[w] = IF n + 1 = Size(i) THEN "idle" ELSE "write"
        /\ \A v \in Writers : v # w => cnt'[v] = cnt[v] /\ wpc'[v] = wpc[v]
    BY <1>0, <1>1 DEF Inv, TypeOK, WriteWord, Size
  <1>5. (log[i].off + n) % RbfSz \in Cells
    BY <1>2, LiveRange, CellOf, Zenon DEF Inv
  <1>6. /\ \A c \in Cells : c # (log[i].off + n) % RbfSz => ring'[c] = ring[c]
        /\ ring'[(log[i].off + n) % RbfSz] = Word(log[i].data, n)
    BY <1>0, <1>1, <1>5 DEF Inv, TypeOK, WriteWord
  <1>7. TypeOK'
    <2>1. Word(log[i].data, n) \in Nat
      BY <1>2, LogTypes, Zenon DEF Inv
    <2>2. ring' \in [Cells -> Nat]
      <3>1. ring \in [Cells -> Nat]
        BY DEF Inv, TypeOK
      <3>2. ring' = [ring EXCEPT ![(log[i].off + n) % RbfSz] = Word(log[i].data, n)]
        BY <1>0, <1>1 DEF WriteWord
      <3>3. QED
        BY <2>1, <3>1, <3>2, Zenon
    <2>3. cnt' \in [Writers -> Nat]
      <3>1. cnt \in [Writers -> Nat]
        BY Zenon DEF Inv, TypeOK
      <3>2. cnt' = [cnt EXCEPT ![w] = cnt[w] + 1]
        BY DEF WriteWord
      <3>3. QED
        BY <3>1, <3>2
    <2>4. wpc' \in [Writers -> {"idle", "send", "pending", "write"}]
      BY DEF Inv, TypeOK, WriteWord
    <2>5. QED
      BY <1>3, <2>2, <2>3, <2>4, Zenon DEF Inv, TypeOK
  <1>8. InOrder'
    BY <1>3, Zenon DEF Inv, InOrder
  <1>9. LogInv'
    BY <1>3, Zenon DEF Inv, LogInv, Start
  <1>10. WriterInv'
    <2>1. \A v \in Writers : wpc'[v] # "idle" => wpc[v] # "idle"
      BY <1>2, <1>4
    <2>2. \A v \in Writers : wpc'[v] = "write" => wpc[v] = "write"
      BY <1>2, <1>4
    <2>3. wpc'[w] = "write" => cnt'[w] < MsgSz(Len(msg[w]))
      BY <1>1, <1>2, <1>4 DEF Size
    <2>4. \A v \in Writers : wpc'[v] = "write" => cnt'[v] < MsgSz(Len(msg[v]))
      BY <1>4, <2>2, <2>3 DEF Inv, WriterInv
    <2>5. \A v \in Writers : wpc'[v] # "idle" => msg'[v] \in Messages
      BY <1>3, <2>1, Zenon DEF Inv, WriterInv
    <2>6. \A v \in Writers : wpc'[v] = "write" =>
              \E m \in Live' : log'[m].off = off'[v] /\ log'[m].data = msg'[v]
      BY <1>3, <2>2, Zenon DEF Inv, WriterInv
    <2>7. \A u, v \in Writers :
              wpc'[u] = "write" /\ wpc'[v] = "write" /\ u # v => off'[u] # off'[v]
      BY <1>3, <2>2, Zenon DEF Inv, WriterInv
    <2>8. \A v \in Writers : wpc'[v] = "write" => cnt'[v] < MsgSz(Len(msg'[v]))
      BY <1>3, <2>4, Zenon
    <2>9. QED
      BY <2>5, <2>6, <2>7, <2>8, Zenon DEF WriterInv
  <1>11. ASSUME NEW j \in Live, NEW k \in 0 .. Size(j) - 1, ~ (j = i /\ k = n)
         PROVE  Unwritten(j, k)' <=> Unwritten(j, k)
    <2>1. k \in Nat
      BY LiveRange, Zenon DEF Inv
    <2>2. CASE j = i
      <3>1. k < Size(i) /\ k # n
        <4>1. k \in 0 .. Size(i) - 1 /\ k # n
          BY <1>11, <2>2, Zenon
        <4>2. QED
          BY ONLY <1>2, <2>1, <4>1
      <3>2. (wpc'[w] = "write" /\ cnt'[w] <= k) <=> (wpc[w] = "write" /\ cnt[w] <= k)
        <4>1. n + 1 <= k <=> n <= k
          BY ONLY <1>2, <2>1, <3>1
        <4>2. n + 1 = Size(i) => ~ (n <= k)
          BY ONLY <1>2, <2>1, <3>1
        <4>3. QED
          BY <1>0, <1>2, <1>4, <4>1, <4>2, Zenon
      <3>3. QED
        BY <1>3, <1>4, <3>2 DEF Unwritten
    <2>3. CASE j # i
      <3>1. off[w] # log[j].off
        BY <1>1, <2>3, SameStart, Zenon DEF Inv
      <3>2. QED
        BY <1>3, <1>4, <3>1 DEF Unwritten
    <2>4. QED
      BY <2>2, <2>3
  <1>12. ~ Unwritten(i, n)'
    <2>1. \A v \in Writers : wpc[v] = "write" /\ off[v] = log[i].off => v = w
      BY <1>1, <1>2, Zenon DEF Inv, WriterInv
    <2>2. ~ cnt'[w] <= n
      BY <1>2, <1>4
    <2>3. QED
      BY <1>3, <1>4, <2>1, <2>2, Zenon DEF Unwritten
  <1>13. \A j, k : Cleaned(j, k)' <=> Cleaned(j, k)
    BY <1>3 DEF Cleaned
  <1>14. ~ Cleaned(i, n)
    <2>1. Unwritten(i, n)
      BY <1>0, <1>1, <1>2 DEF Unwritten
    <2>2. i = First => rpc[rd] \notin {"cleanFooter", "copy", "advance"}
      BY <1>1, <1>2 DEF Inv, ReaderInv
    <2>3. i = First /\ rpc[rd] = "footer" => n # 0
      BY <2>1, Zenon DEF Inv, ReaderInv
    <2>4. QED
      BY <2>2, <2>3, CleanedDef
  <1>15. RingInv'
    <2>1. ASSUME NEW j \in Live, NEW k \in 0 .. Size(j) - 1
          PROVE  ring'[(log[j].off + k) % RbfSz] =
                    IF Unwritten(j, k)' \/ Cleaned(j, k) THEN 0 ELSE Word(log[j].data, k)
      <3>1. CASE j = i /\ k = n
        BY <1>6, <1>12, <1>14, <3>1, Zenon
      <3>2. CASE ~ (j = i /\ k = n)
        <4>1. (log[j].off + k) % RbfSz # (log[i].off + n) % RbfSz
          BY <1>2, <3>2, LiveCells DEF Inv
        <4>2. (log[j].off + k) % RbfSz \in Cells
          BY LiveRange, CellOf, Zenon DEF Inv
        <4>3. ring'[(log[j].off + k) % RbfSz] = ring[(log[j].off + k) % RbfSz]
          BY <1>6, <4>1, <4>2
        <4>4. QED
          BY <1>11, <3>2, <4>3 DEF Inv, RingInv
      <3>3. QED
        BY <3>1, <3>2
    <2>2. ASSUME NEW p \in tail .. head + RbfSz - 1
          PROVE  ring'[p % RbfSz] = 0
      <3>1. p % RbfSz # (log[i].off + n) % RbfSz
        BY <1>2, FreeCells DEF Inv
      <3>2. p % RbfSz \in Cells /\ ring[p % RbfSz] = 0
        BY CellOf, Offsets, SMTT(60) DEF Inv, RingInv
      <3>3. QED
        BY <1>6, <3>1, <3>2
    <2>3. QED
      BY <1>3, <1>13, <2>1, <2>2, Zenon DEF RingInv
  <1>16. ReaderInv'
    <2>1. First \in Live /\ ~ Unwritten(First, 0) => ~ Unwritten(First, 0)'
      <3>1. SUFFICES ASSUME First \in Live, ~ Unwritten(First, 0)
                     PROVE  ~ Unwritten(First, 0)'
        BY Zenon
      <3>2. ~ (First = i /\ 0 = n)
        BY <1>0, <1>1, <1>2, <3>1 DEF Unwritten
      <3>3. 0 \in 0 .. Size(First) - 1
        BY <3>1, AtFirst DEF Inv
      <3>4. Unwritten(First, 0)' <=> Unwritten(First, 0)
        BY <1>3, <1>11, <3>1, <3>2, <3>3
      <3>5. QED
        BY <3>1, <3>4
    <2>2. \A v \in Writers : wpc'[v] = "write" => wpc[v] = "write"
      BY <1>2, <1>4
    <2>3. QED
      BY <1>3, <2>1, <2>2 DEF Inv, ReaderInv
  <1>17. QED
    BY <1>7, <1>8, <1>9, <1>10, <1>15, <1>16 DEF Inv

\* A writer reserves free cells, which are clean, behind the tail.
LEMMA ReserveInv ==
    ASSUME NEW rd, Readers = {rd}, Inv, NEW w \in Writers, Reserve(w)
    PROVE  Inv'
  <1>1. PICK L \in Nat, t \in Nat, n \in Nat \ {0} :
            L = Len(log) /\ t = tail /\ n = Len(msg[w])
    <2>1. msg[w] \in Messages
      BY DEF Inv, WriterInv, Reserve
    <2>2. Len(log) \in Nat /\ tail \in Nat
      BY DEF Inv, TypeOK
    <2>3. Len(msg[w]) \in Nat \ {0}
      BY <2>1, RingAssumption
    <2>4. QED
      BY <2>2, <2>3, Zenon
  <1>2. /\ msg[w] \in Messages
        /\ UNCHANGED <<ring, head, lhead, rhead, msg, rpc, dataSz, result, got>>
        /\ tail' = t + (n + 2)
        /\ t + (n + 2) <= rhead + RbfSz
        /\ First' = First
    <2>1. msg[w] \in Messages
      BY DEF Inv, WriterInv, Reserve
    <2>2. /\ UNCHANGED <<ring, head, lhead, rhead, msg, rpc, dataSz, result, got>>
          /\ tail' = t + (n + 2)
          /\ First' = First
      BY <1>1 DEF Reserve, readerVars, MsgSz, First
    <2>3. t + (n + 2) <= rhead + RbfSz
      BY <1>1, Offsets, SMTT(60) DEF Inv, Reserve, rbf_full, MsgSz
    <2>4. QED
      BY <2>1, <2>2, <2>3, Zenon
  <1>3. /\ wpc[w] = "send" /\ wpc'[w] = "write" /\ off'[w] = t /\ cnt'[w] = 0
        /\ \A v \in Writers : v # w =>
              cnt'[v] = cnt[v] /\ wpc'[v] = wpc[v] /\ off'[v] = off[v]
    BY <1>1 DEF Inv, TypeOK, Reserve
  <1>4. /\ log' \in Seq([off : Nat, data : Messages])
        /\ Len(log') = L + 1
        /\ \A i \in 1 .. L : log'[i] = log[i]
        /\ log'[L + 1].off = t /\ log'[L + 1].data = msg[w]
    <2> DEFINE Entries == [off : Nat, data : Messages]
               e == [off |-> t, data |-> msg[w]]
    <2>1. e \in Entries /\ log \in Seq(Entries) /\ log' = Append(log, e)
          /\ e.off = t /\ e.data = msg[w]
      BY <1>1, <1>2, Zenon DEF Inv, TypeOK, Reserve
    <2> HIDE DEF Entries, e
    <2>2. /\ log' \in Seq(Entries) /\ Len(log') = L + 1
          /\ \A i \in 1 .. L : log'[i] = log[i]
          /\ log'[L + 1] = e
      BY <1>1, <2>1, SMTT(60)
    <2>3. QED
      BY <2>1, <2>2, Zenon DEF Entries
  <1>5. TypeOK'
    <2>1. tail' \in Nat /\ head' \in 0 .. tail'
      BY <1>1, <1>2, Offsets DEF Inv
    <2>2. /\ wpc' \in [Writers -> {"idle", "send", "pending", "write"}]
          /\ off' \in [Writers -> Nat] /\ cnt' \in [Writers -> Nat]
      BY DEF Inv, TypeOK, Reserve
    <2>3. QED
      BY <1>2, <1>4, <2>1, <2>2, Zenon DEF Inv, TypeOK
  <1>6. InOrder'
    <2>1. Len(got) \in Nat /\ Len(got) <= L
      BY <1>1 DEF Inv, TypeOK, InOrder
    <2>2. \A i \in 1 .. Len(got) : log'[i] = log[i]
      BY <1>4, <2>1
    <2>3. QED
      BY <1>1, <1>2, <1>4, <2>1, <2>2, SMTT(60) DEF Inv, InOrder
  <1>7. /\ \A i \in 1 .. L + 1 : Start(i)' = Start(i)
        /\ Start(L + 2)' = t + (n + 2) /\ Start(L + 1) = t
        /\ \A i \in 1 .. L : Size(i)' = Size(i)
        /\ Size(L + 1)' = n + 2
        /\ \A i \in 1 .. L + 1 : Start(i) \in Nat
    <2>1. \A i \in 1 .. L : Start(i)' = Start(i) /\ Size(i)' = Size(i)
      BY <1>1, <1>4 DEF Start, Size
    <2>2. Start(L + 1)' = t /\ Start(L + 1) = t
      BY <1>1, <1>4 DEF Start
    <2>3. Start(L + 2)' = t + (n + 2)
      BY <1>1, <1>2, <1>4 DEF Start
    <2>4. Size(L + 1)' = n + 2
      BY <1>1, <1>4 DEF Size, MsgSz
    <2>5. \A i \in 1 .. L + 1 : i \in 1 .. L \/ i = L + 1
      BY <1>1
    <2>6. \A i \in 1 .. L + 1 : Start(i) \in Nat
      BY <1>1, StartType DEF Inv
    <2>7. QED
      BY <2>1, <2>2, <2>3, <2>4, <2>5, <2>6
  <1>8. LogInv'
    <2>1. ASSUME NEW k \in 1 .. L + 1
          PROVE  Start(k + 1)' = Start(k)' + Size(k)'
      <3>1. CASE k \in 1 .. L
        <4>1. k + 1 \in 1 .. L + 1 /\ k \in 1 .. L + 1
          BY <1>1, <3>1
        <4>2. Start(k + 1) = Start(k) + Size(k)
          BY <1>1, <3>1 DEF Inv, LogInv
        <4>3. QED
          BY <1>7, <3>1, <4>1, <4>2
      <3>2. CASE k = L + 1
        BY <1>7, <3>2
      <3>3. QED
        BY <3>1, <3>2
    <2>2. ASSUME NEW i \in 1 .. L + 2, NEW j \in 1 .. L + 2, i < j
          PROVE  Start(i)' < Start(j)'
      <3>1. i \in 1 .. L + 1
        BY <2>2
      <3>2. CASE j \in 1 .. L + 1
        BY <1>1, <1>7, <2>2, <3>1, <3>2, Zenon DEF Inv, LogInv
      <3>3. CASE j = L + 2
        <4>1. Start(i) <= t
          <5>1. CASE i = L + 1
            BY <1>7, <5>1
          <5>2. CASE i < L + 1
            <6>1. L + 1 \in 1 .. L + 1
              OBVIOUS
            <6>2. Start(i) < Start(L + 1)
              BY <1>1, <3>1, <5>2, <6>1 DEF Inv, LogInv
            <6>3. QED
              BY <1>7, <3>1, <6>2
          <5>3. QED
            BY <3>1, <5>1, <5>2
        <4>2. Start(i) \in Nat /\ Start(i)' = Start(i)
          BY <1>7, <3>1
        <4>3. t < t + (n + 2)
          BY SMTT(60)
        <4>4. QED
          BY <1>7, <3>3, <4>1, <4>2, <4>3
      <3>4. QED
        BY <2>2, <3>2, <3>3
    <2>3. Len(got)' <= Len(log)' /\ head' = Start(First)'
      <3>1. First \in 1 .. L + 1 /\ Len(got) <= L /\ head = Start(First)
        BY <1>1, Lengths DEF Inv, LogInv
      <3>2. PICK f \in 1 .. L + 1 : f = First
        BY <3>1
      <3>3. Start(f)' = Start(f)
        BY <1>7
      <3>4. QED
        BY <1>2, <1>4, <3>1, <3>2, <3>3 DEF Inv, TypeOK
    <2>4. tail' - rhead' <= RbfSz
      BY <1>2, Offsets DEF Inv
    <2>5. Len(log') + 1 = L + 2
      BY <1>4, SMTT(60)
    <2>6. QED
      BY <1>4, <2>1, <2>2, <2>3, <2>4, <2>5 DEF LogInv
  <1>9. /\ \A i \in Live : i \in 1 .. L /\ i \in Live'
        /\ \A i \in Live' : i \in Live \/ i = L + 1
        /\ L + 1 \in Live' /\ First \in 1 .. L + 1
    BY <1>1, <1>2, <1>4, Lengths, SMTT(60) DEF Inv, LogInv, Live
  <1>10. ASSUME NEW i \in Live
         PROVE  log[i].off < t /\ log'[i] = log[i] /\ Size(i)' = Size(i)
    <2>1. i \in 1 .. L
      BY <1>9
    <2>2. i \in 1 .. L + 1 /\ L + 1 \in 1 .. L + 1 /\ i < L + 1
      BY <1>1, <2>1
    <2>3. Start(i) < Start(L + 1)
      BY <1>1, <2>2, Zenon DEF Inv, LogInv
    <2>4. Start(i) = log[i].off
      BY <1>1, <2>1, <2>2, StartType DEF Inv
    <2>5. QED
      BY <1>4, <1>7, <2>1, <2>3, <2>4, Zenon
  <1>11. WriterInv'
    <2>1. \A v \in Writers : wpc'[v] # "idle" => msg'[v] \in Messages
      BY <1>2, <1>3 DEF Inv, WriterInv
    <2>2. ASSUME NEW v \in Writers, wpc'[v] = "write"
          PROVE  /\ cnt'[v] < MsgSz(Len(msg'[v]))
                 /\ \E i \in Live' : log'[i].off = off'[v] /\ log'[i].data = msg'[v]
      <3>1. CASE v = w
        <4>1. 0 < n + 2
          BY SMTT(60)
        <4>2. QED
          BY <1>1, <1>2, <1>3, <1>4, <1>9, <3>1, <4>1, Zenon DEF MsgSz
      <3>2. CASE v # w
        BY <1>2, <1>3, <1>9, <1>10, <2>2, <3>2 DEF Inv, WriterInv
      <3>3. QED
        BY <3>1, <3>2
    <2>3. ASSUME NEW v \in Writers, wpc[v] = "write"
          PROVE  off[v] # t
      <3>1. PICK i \in Live : log[i].off = off[v]
        BY <2>3, Zenon DEF Inv, WriterInv
      <3>2. log[i].off < t /\ log[i].off \in Nat
        BY <1>1, <1>9, <1>10, LogTypes, Zenon DEF Inv
      <3>3. QED
        BY <3>1, <3>2, SMTT(60)
    <2>4. \A u, v \in Writers :
              wpc'[u] = "write" /\ wpc'[v] = "write" /\ u # v => off'[u] # off'[v]
      BY <1>3, <2>3, SMTT(60) DEF Inv, WriterInv
    <2>5. QED
      BY <2>1, <2>2, <2>4, Zenon DEF WriterInv
  <1>12. ASSUME NEW i \in Live, NEW k
         PROVE  Unwritten(i, k)' <=> Unwritten(i, k)
    <2>1. log[i].off # t /\ log'[i] = log[i]
      <3>1. log[i].off \in Nat
        BY <1>1, <1>9, LogTypes, Zenon DEF Inv
      <3>2. QED
        BY <1>10, <3>1
    <2>2. QED
      BY <1>3, <2>1 DEF Unwritten
  <1>13. RingInv'
    <2>1. ASSUME NEW i \in Live, NEW k \in 0 .. Size(i) - 1
          PROVE  ring[(log[i].off + k) % RbfSz] =
                    IF Unwritten(i, k)' \/ Cleaned(i, k)' THEN 0 ELSE Word(log[i].data, k)
      <3>1. Cleaned(i, k)' <=> Cleaned(i, k)
        <4>1. rpc' = rpc /\ First' = First
          BY <1>2
        <4>2. Size(i)' = Size(i)
          BY <1>10, Zenon
        <4>3. QED
          BY <4>1, <4>2, Zenon DEF Cleaned
      <3>2. QED
        BY <1>12, <3>1, ZenonT(40) DEF Inv, RingInv
    <2>2. ASSUME NEW k \in 0 .. n + 1
          PROVE  ring[(t + k) % RbfSz] = 0 /\ Unwritten(L + 1, k)'
      <3>1. t + k \in tail .. head + RbfSz - 1
        BY <1>1, <1>2, Offsets, SMTT(60) DEF Inv
      <3>2. ring[(t + k) % RbfSz] = 0
        BY <3>1 DEF Inv, RingInv
      <3>3. cnt'[w] <= k
        BY <1>3, SMTT(60)
      <3>4. QED
        BY <1>3, <1>4, <3>2, <3>3 DEF Unwritten
    <2>3. ASSUME NEW i \in Live', NEW k \in 0 .. Size(i)' - 1
          PROVE  ring'[(log'[i].off + k) % RbfSz] =
                    IF Unwritten(i, k)' \/ Cleaned(i, k)' THEN 0 ELSE Word(log'[i].data, k)
      <3>1. CASE i \in Live
        BY <1>2, <1>10, <2>1, <3>1, Zenon
      <3>2. CASE i = L + 1
        <4>1. k \in 0 .. n + 1
          BY <1>7, <3>2, SMTT(60)
        <4>2. QED
          BY <1>2, <1>4, <2>2, <3>2, <4>1
      <3>3. QED
        BY <1>9, <3>1, <3>2, Zenon
    <2>4. ASSUME NEW p \in tail' .. head' + RbfSz - 1
          PROVE  ring'[p % RbfSz] = 0
      <3>1. p \in tail .. head + RbfSz - 1
        BY <1>1, <1>2, Offsets, SMTT(60) DEF Inv
      <3>2. QED
        BY <1>2, <3>1, Zenon DEF Inv, RingInv
    <2>5. QED
      BY <2>3, <2>4, Zenon DEF RingInv
  <1>14. ReaderInv'
    <2>1. CASE First \in Live
      <3>1. PICK f \in Live : f = First
        BY <2>1, Zenon
      <3>2. /\ First' = f /\ f \in Live' /\ log'[f] = log[f] /\ log[f].off # t
            /\ Unwritten(f, 0)' <=> Unwritten(f, 0)
        <4>1. log[f].off \in Nat
          BY <1>1, <1>9, LogTypes, Zenon DEF Inv
        <4>2. QED
          BY <1>2, <1>9, <1>10, <1>12, <3>1, <4>1, SMTT(60)
      <3>3. Unwritten(First, 0)' <=> Unwritten(f, 0)'
        <4>1. First' = f
          BY <3>2
        <4>2. log'[First'].off = log'[f].off
          BY <4>1, ZenonT(40)
        <4>3. QED
          BY <4>2, Zenon DEF Unwritten
      <3>4. QED
        BY <1>2, <1>3, <3>1, <3>2, <3>3, ZenonT(30) DEF Inv, ReaderInv
    <2>2. CASE First \notin Live
      BY <1>2, <2>2, Zenon DEF Inv, TypeOK, ReaderInv
    <2>3. QED
      BY <2>1, <2>2, Zenon
  <1>15. QED
    BY <1>5, <1>6, <1>8, <1>11, <1>13, <1>14 DEF Inv

-----------------------------------------------------------------------------
(* The theorems, for the queue's one reader.                               *)

\* The inductive invariant holds in every reachable state.
THEOREM Invariance ==
    ASSUME NEW rd, Readers = {rd}
    PROVE  Spec => []Inv
  <1>1. Init => Inv
    BY InitInv
  <1>2. Inv /\ [Next]_vars => Inv'
    <2> SUFFICES ASSUME Inv, [Next]_vars
                 PROVE  Inv'
      OBVIOUS
    <2>1. ASSUME NEW w \in Writers, NEW m \in Messages, Send(w, m)
          PROVE  Inv'
      BY <2>1, SendInv
    <2>2. ASSUME NEW w \in Writers, Writer(w)
          PROVE  Inv'
      BY <2>2, ReserveInv, FullInv, RetryInv, WriteWordInv DEF Writer
    <2>3. ASSUME Fetch(rd)
          PROVE  Inv'
      BY <2>3, CheckInv, ReadHeaderInv, CleanHeaderInv, WaitFooterInv, CleanFooterInv,
         CopyDataInv, AdvanceInv, PublishInv DEF Fetch
    <2>4. CASE UNCHANGED vars
      BY <2>4, StutterInv
    <2>5. QED
      BY <2>1, <2>2, <2>3, <2>4 DEF Next
  <1>3. QED
    BY <1>1, <1>2, PTL DEF Spec

\* Type correctness of every queue, in particular: the reader's head never
\* passes the tail, and the writers never believe it to be further than it is.
THEOREM TypeCorrect ==
    ASSUME NEW rd, Readers = {rd}
    PROVE  Spec => []TypeOK
  <1>1. Inv => TypeOK
    BY DEF Inv
  <1>2. QED
    BY <1>1, Invariance, PTL

\* fetch() returns what send() was given, each message once and in the order
\* in which the writers reserved their ranges.
THEOREM Ordered ==
    ASSUME NEW rd, Readers = {rd}
    PROVE  Spec => []InOrder
  <1>1. Inv => InOrder
    BY DEF Inv
  <1>2. QED
    BY <1>1, Invariance, PTL

\* rbf_full() lets no writer reach a cell that still holds something.
THEOREM Exclusive ==
    ASSUME NEW rd, Readers = {rd}
    PROVE  Spec => []NoOverwrite
  <1>1. ASSUME Inv
        PROVE  NoOverwrite
    <2>1. SUFFICES ASSUME NEW w \in Writers, wpc[w] = "write",
                          NEW k \in cnt[w] .. MsgSz(Len(msg[w])) - 1
                   PROVE  ring[(off[w] + k) % RbfSz] = 0
      BY DEF NoOverwrite
    <2>2. PICK i \in Live : log[i].off = off[w] /\ log[i].data = msg[w]
      BY <1>1, <2>1, Zenon DEF Inv, WriterInv
    <2>3. i \in 1 .. Len(log) /\ Size(i) \in Nat /\ cnt[w] \in Nat
      <3>1. i \in 1 .. Len(log)
        BY <1>1, Lengths DEF Inv, LogInv
      <3>2. QED
        BY <1>1, <3>1, LogTypes, Zenon DEF Inv, TypeOK
    <2>4. k \in 0 .. Size(i) - 1 /\ cnt[w] <= k
      BY <2>2, <2>3 DEF Size
    <2>5. Unwritten(i, k)
      BY <2>1, <2>2, <2>4, Zenon DEF Unwritten
    <2>6. QED
      BY <1>1, <2>2, <2>4, <2>5, Zenon DEF Inv, RingInv
  <1>2. QED
    BY <1>1, Invariance, PTL

\* The assertion inside the spin of fetch() holds.
THEOREM FooterOK ==
    ASSUME NEW rd, Readers = {rd}
    PROVE  Spec => []FooterAssertion
  <1>1. ASSUME Inv
        PROVE  FooterAssertion
    <2>1. SUFFICES ASSUME rpc[rd] = "footer"
                   PROVE  Footer(rd) \in {0, dataSz[rd]}
      BY Zenon DEF FooterAssertion
    <2>2. First \in Live /\ dataSz[rd] = Len(log[First].data)
      BY <1>1, <2>1, Zenon DEF Inv, ReaderInv
    <2>3. Footer(rd) = ring[(log[First].off + (Size(First) - 1)) % RbfSz]
      BY <1>1, <2>2, FooterCell, Zenon DEF Inv, Footer
    <2>4. /\ Size(First) - 1 \in 0 .. Size(First) - 1
          /\ Word(log[First].data, Size(First) - 1) = dataSz[rd]
      BY <1>1, <2>2, AtFirst DEF Inv
    <2>5. QED
      BY <1>1, <2>2, <2>3, <2>4 DEF Inv, RingInv
  <1>2. QED
    BY <1>1, Invariance, PTL

\* Appending a reservation to the log appends its message to what was sent.
LEMMA SentAppend ==
    ASSUME NEW S, NEW l \in Seq([off : Nat, data : S]), NEW o \in Nat, NEW m \in S,
           NEW l2, l2 = Append(l, [off |-> o, data |-> m])
    PROVE  [i \in 1 .. Len(l2) |-> l2[i].data] =
               Append([i \in 1 .. Len(l) |-> l[i].data], m)
  <1> DEFINE Entries == [off : Nat, data : S]
             e == [off |-> o, data |-> m]
             s == [i \in 1 .. Len(l) |-> l[i].data]
             s2 == [i \in 1 .. Len(l2) |-> l2[i].data]
  <1>1. e \in Entries /\ l \in Seq(Entries) /\ l2 = Append(l, e) /\ e.data = m
    OBVIOUS
  <1>2. \A x \in Entries : x.data \in S
    OBVIOUS
  <1> HIDE DEF Entries, e
  <1>3. /\ Len(l2) = Len(l) + 1 /\ Len(l) \in Nat
        /\ \A i \in 1 .. Len(l) : l2[i] = l[i]
        /\ l2[Len(l) + 1] = e
        /\ \A i \in 1 .. Len(l) : l[i].data \in S
    BY <1>1, <1>2
  <1>4. s \in Seq(S) /\ Len(s) = Len(l)
    BY <1>3
  <1>5. Append(s, m) = [i \in 1 .. Len(l) + 1 |-> IF i = Len(l) + 1 THEN m ELSE s[i]]
    BY <1>3, <1>4
  <1>6. \A i \in 1 .. Len(l) + 1 : l2[i].data = IF i = Len(l) + 1 THEN m ELSE s[i]
    BY <1>1, <1>3
  <1>7. QED
    BY <1>3, <1>5, <1>6

\* The queue implements the reliable FIFO channel: a reservation is the
\* channel's send, the advance of the head its receive, and every other step
\* of writers and reader is invisible.
THEOREM Refinement ==
    ASSUME NEW rd, Readers = {rd}
    PROVE  Spec => Chan!Spec
  <1> DEFINE sent == [i \in 1 .. Len(log) |-> log[i].data]
  <1>1. Init => Chan!Init
    BY DEF Init, Chan!Init
  <1>2. Inv /\ [Next]_vars => [Chan!Next]_Chan!vars
    <2> SUFFICES ASSUME Inv, [Next]_vars
                 PROVE  [Chan!Next]_Chan!vars
      OBVIOUS
    <2>1. ASSUME UNCHANGED <<log, got>>
          PROVE  UNCHANGED Chan!vars
      BY <2>1 DEF Chan!vars
    <2>2. ASSUME NEW w \in Writers, Reserve(w)
          PROVE  Chan!Send
      <3>1. msg[w] \in Messages /\ tail \in Nat /\ log \in Seq([off : Nat, data : Messages])
        BY <2>2, Zenon DEF Inv, TypeOK, WriterInv, Reserve
      <3>2. log' = Append(log, [off |-> tail, data |-> msg[w]]) /\ got' = got
        BY <2>2, Zenon DEF Reserve
      <3>3. sent' = Append(sent, msg[w])
        BY <3>1, <3>2, SentAppend
      <3>4. QED
        BY <3>1, <3>2, <3>3, Zenon DEF Chan!Send
    <2>3. ASSUME Advance(rd)
          PROVE  Chan!Receive
      <3>1. First \in Live /\ result[rd] = log[First].data
        BY <2>3 DEF Inv, ReaderInv, Advance, AdvanceBy
      <3>2. got' = Append(got, result[rd]) /\ log' = log
        BY <2>3 DEF Advance, AdvanceBy
      <3>3. First \in 1 .. Len(log) /\ Len(got) < Len(log) /\ Len(log) \in Nat
        BY <3>1 DEF Inv, TypeOK, First, Live
      <3>4. sent[Len(got) + 1] = result[rd] /\ Len(sent) = Len(log)
        BY <3>1, <3>3 DEF First
      <3>5. QED
        BY <3>2, <3>3, <3>4, Zenon DEF Chan!Receive
    <2>4. ASSUME NEW w \in Writers, NEW m \in Messages, Send(w, m)
          PROVE  UNCHANGED Chan!vars
      BY <2>1, <2>4, Zenon DEF Send
    <2>5. ASSUME NEW w \in Writers, Full(w) \/ Retry(w) \/ WriteWord(w)
          PROVE  UNCHANGED Chan!vars
      BY <2>1, <2>5, Zenon DEF Full, Retry, WriteWord
    <2>6. ASSUME \/ check(rd) \/ ReadHeader(rd) \/ CleanHeader(rd) \/ WaitFooter(rd)
                 \/ CleanFooter(rd) \/ CopyData(rd) \/ Publish(rd)
          PROVE  UNCHANGED Chan!vars
      BY <2>1, <2>6 DEF check, ReadHeader, CleanHeader, WaitFooter, CleanFooter, CopyData,
         Publish
    <2>7. CASE UNCHANGED vars
      BY <2>1, <2>7 DEF vars
    <2>8. QED
      BY <2>2, <2>3, <2>4, <2>5, <2>6, <2>7 DEF Next, Writer, Fetch, Chan!Next
  <1>3. QED
    BY <1>1, <1>2, Invariance, PTL DEF Spec, Chan!Spec

=============================================================================
