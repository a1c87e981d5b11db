------------------------------ MODULE Adaptor ------------------------------
(***************************************************************************)
(* The logical queue of one thread (core/rdma_adaptor.hpp), byte by byte:  *)
(* one ring (physical queue) per server, side by side in memory, how       *)
(* send() lays a message out in a ring, wrapping around its end, how       *)
(* fetch() copies it out and cleans the ring, and the two ways to go over  *)
(* the rings: recv() goes round and keeps its place (rr_cnt) between       *)
(* calls, tryrecv() looks at each ring once, starting at server 0.         *)
(*                                                                         *)
(* RingBuffer has the interleavings of writers and readers of one ring,    *)
(* with whole words as units; here send() and fetch() are single steps,    *)
(* and a step of the readers looks at one ring.                            *)
(***************************************************************************)
EXTENDS Integers, Sequences

CONSTANTS
    NumServers,     \* num_servers
    sid,            \* the server of the thread: its ring is written without RDMA
    WordSz,         \* sizeof(uint64_t)
    RbfSz,          \* mem->ring_size(), a multiple of WordSz
    Sizes           \* the sizes of the messages

ASSUME AdaptorAssumption ==
    /\ NumServers \in Nat \ {0} /\ sid \in 0 .. NumServers - 1
    /\ WordSz \in Nat \ {0} /\ RbfSz \in Nat \ {0} /\ RbfSz % WordSz = 0
    /\ Sizes \subseteq Nat \ {0}

Servers == 0 .. NumServers - 1
None == NumServers

VARIABLES
    blocking,   \* whether the thread calls recv() or tryrecv()
    mem,        \* the rings and, behind them, the next region of the memory
    head,       \* lmeta.head of each ring, modulo RbfSz
    lag,        \* how far it is ahead of the head that the writers see
    sent,       \* the sizes of the messages in each ring
    rr_cnt,     \* the round-robin counter of recv(), modulo NumServers
    pos,        \* dst_sid of the loop in tryrecv()
    from,       \* the server of the message returned last; None: returned false
    result      \* and the message

vars == <<blocking, mem, head, lag, sent, rr_cnt, pos, from, result>>

\* A byte left over in the RDMA buffer and a cleaned one; a byte of a header
\* or footer is the negated size, a byte of data its place in the message.
Stale == 99
Zero == 0

\* Mutant of ceil: it rounds down.
ceil_Down(val) == val - (val % WordSz)

ceil(val) == IF val % WordSz = 0 THEN val ELSE val - (val % WordSz) + WordSz

msg_sz(n) == WordSz + ceil(n) + WordSz

Data(n) == [i \in 1 .. n |-> i]
Times(b, n) == [i \in 1 .. n |-> b]

Init ==
    /\ blocking \in BOOLEAN
    /\ mem = [c \in 0 .. (NumServers + 1) * RbfSz - 1 |-> Zero]
    /\ head = [s \in Servers |-> 0] /\ lag = [s \in Servers |-> 0]
    /\ sent = [s \in Servers |-> <<>>]
    /\ rr_cnt = 0 /\ pos = 0 /\ from = None /\ result = <<>>

ring(s) == s * RbfSz

\* memcpy (or RDMA WRITE) of the bytes s to address a; memset likewise.
Put(m, a, s) == [c \in DOMAIN m |-> IF c - a \in 0 .. Len(s) - 1 THEN s[c - a + 1] ELSE m[c]]
Get(m, a, n) == [i \in 1 .. n |-> m[a + i - 1]]

\* The bytes s go behind offset o of ring r, in one piece or in two.
PutWrapped(m, r, o, s) ==
    LET sz == RbfSz - (o % RbfSz)
    IN  IF o \div RbfSz = (o + Len(s) - 1) \div RbfSz
        THEN Put(m, ring(r) + (o % RbfSz), s)
        ELSE Put(Put(m, ring(r) + (o % RbfSz), SubSeq(s, 1, sz)), ring(r), SubSeq(s, sz + 1, Len(s)))

\* Where message k of ring s begins; behind the last one, the tail.
Offset(s, k) ==
    LET before[i \in 0 .. k - 1] == IF i = 0 THEN head[s] ELSE before[i - 1] + msg_sz(sent[s][i])
    IN  before[k - 1]

rmeta_tail(s) == Offset(s, Len(sent[s]) + 1)

rbf_full(s, n) == RbfSz < rmeta_tail(s) - (head[s] - lag[s]) + msg_sz(n)

\* send() by a thread of the same server.
PutLocal(s, off, n) ==
    LET header == Put(mem, ring(s) + (off % RbfSz), Times(-n, WordSz))
        data   == PutWrapped(header, s, off + WordSz, Data(n))
    IN  Put(data, ring(s) + ((off + WordSz + ceil(n)) % RbfSz), Times(-n, WordSz))

\* send() by a thread of another server: the message is put together in the
\* RDMA buffer, whose padding keeps bytes of an earlier message.
PutRemote(s, off, n) ==
    PutWrapped(mem, s, off, Times(-n, WordSz) \o Data(n) \o Times(Stale, ceil(n) - n) \o Times(-n, WordSz))

Send(s, n) ==
    /\ msg_sz(n) < RbfSz /\ ~ rbf_full(s, n)
    /\ mem' = IF s = sid THEN PutLocal(s, rmeta_tail(s), n) ELSE PutRemote(s, rmeta_tail(s), n)
    /\ sent' = [sent EXCEPT ![s] = Append(@, n)]
    /\ UNCHANGED <<blocking, head, lag, rr_cnt, pos, from, result>>

check(s) == mem[ring(s) + head[s]] # Zero

\* Mutant of Wraps: data one word longer than the rest of the ring is taken
\* for data that fits.
Wraps_Late(start, end) == ~ (start < end) /\ end > WordSz

Wraps(start, end) == ~ (start < end)

\* The bytes of data_sz from start on, and the ring without them.
Copied(m, s, start, end, data_sz) ==
    IF Wraps(start, end)
    THEN <<Get(m, ring(s) + start, data_sz - end) \o Get(m, ring(s), end),
           Put(Put(m, ring(s) + start, Times(Zero, data_sz - end)), ring(s), Times(Zero, ceil(end)))>>
    ELSE <<Get(m, ring(s) + start, data_sz),
           Put(m, ring(s) + start, Times(Zero, ceil(data_sz)))>>

Cleaned(s, data_sz) ==
    Put(Put(mem, ring(s) + head[s], Times(Zero, WordSz)),
        ring(s) + ((head[s] + WordSz + ceil(data_sz)) % RbfSz), Times(Zero, WordSz))

Advance(s, n) ==
    /\ head' = [head EXCEPT ![s] = (@ + n) % RbfSz]
    /\ lag' = [lag EXCEPT ![s] = IF @ + n > RbfSz \div 8 THEN 0 ELSE @ + n]

fetch(s) ==
    LET data_sz == - mem[ring(s) + head[s]]
        copied == Copied(Cleaned(s, data_sz), s, (head[s] + WordSz) % RbfSz,
                         (head[s] + WordSz + data_sz) % RbfSz, data_sz)
    IN  /\ from' = s /\ result' = copied[1] /\ mem' = copied[2]
        /\ Advance(s, msg_sz(data_sz))
        /\ sent' = [sent EXCEPT ![s] = Tail(@)]

NotFetched == UNCHANGED <<mem, head, lag, sent>>

\* Mutant of After: the counter does not move when a message was found.
After_Stay(cnt) == IF check(cnt) THEN cnt ELSE (cnt + 1) % NumServers

\* rr_cnt++ % num_servers
After(cnt) == (cnt + 1) % NumServers

\* One round of the loop of recv().
Recv ==
    /\ blocking
    /\ rr_cnt' = After(rr_cnt)
    /\ IF check(rr_cnt) THEN fetch(rr_cnt) ELSE NotFetched /\ UNCHANGED <<from, result>>
    /\ UNCHANGED <<blocking, pos>>

\* One round of the loop of tryrecv(); after the last ring it returns false.
TryRecv ==
    /\ ~ blocking
    /\ IF check(pos)
       THEN fetch(pos) /\ pos' = 0
       ELSE /\ NotFetched
            /\ IF pos = NumServers - 1
               THEN pos' = 0 /\ from' = None /\ result' = <<>>
               ELSE pos' = pos + 1 /\ UNCHANGED <<from, result>>
    /\ UNCHANGED <<blocking, rr_cnt>>

Read == Recv \/ TryRecv

Next == (\E s \in Servers, n \in Sizes : Send(s, n)) \/ Read

(* The thread keeps polling; the servers may stop sending.                 *)
Spec == Init /\ [][Next]_vars /\ WF_vars(Read)

-----------------------------------------------------------------------------
(* Properties.                                                             *)

\* The bytes of ring s that hold word w of message k.
WordOf(s, k, w) == {ring(s) + ((Offset(s, k) + w + i) % RbfSz) : i \in 0 .. WordSz - 1}

\* Every message in a ring has its header and footer where fetch() will look
\* for them, and every other byte of the rings and of the memory behind them
\* is zero, the padding of what was fetched included: a later check() or
\* footer spin depends on it.
Placed ==
    /\ \A s \in Servers : \A k \in 1 .. Len(sent[s]) :
          \A c \in WordOf(s, k, 0) \cup WordOf(s, k, WordSz + ceil(sent[s][k])) :
              mem[c] = - sent[s][k]
    /\ \A c \in DOMAIN mem : mem[c] # Zero =>
          \E s \in Servers : \E i \in 0 .. rmeta_tail(s) - head[s] - 1 :
              c = ring(s) + ((head[s] + i) % RbfSz)

\* recv() and tryrecv() return the oldest message of the ring, byte for byte.
FetchedExact ==
    [][\A s \in Servers : Len(sent'[s]) < Len(sent[s]) =>
          from' = s /\ result' = Data(Head(sent[s]))]_vars

\* "each thread uses a round-robin strategy to check its physical-queues":
\* with recv() no server has to wait for ever, however much others send.  The
\* loop of tryrecv() starts at server 0 every time and does not have this
\* property.
Served == \A s \in Servers : blocking /\ sent[s] # <<>> ~> from = s
=============================================================================
