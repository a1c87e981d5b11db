----------------------------- MODULE RingBuffer -----------------------------
(***************************************************************************)
(* One physical queue of the RDMA-based adaptor (core/rdma_adaptor.hpp):   *)
(* a ring of 8-byte words in the reader's memory, written by the threads   *)
(* of one server (a memcpy when that is the reader's own server, one or    *)
(* two RDMA WRITEs otherwise) and polled by the receiving thread.          *)
(*                                                                         *)
(* Offsets (tail, head, off) are absolute and only grow; a word lives in   *)
(* cell "offset % RbfSz".  All sizes are in words: send() and fetch() both *)
(* round the data up to whole words (ceil), see Adaptor for the bytes.     *)
(*                                                                         *)
(* A message occupies [size | data | size].  A writer reserves its range   *)
(* under rmeta.lock and fills it after releasing the lock, lowest address  *)
(* first: local stores are in program order (header, data, footer) and an  *)
(* RDMA WRITE is placed in increasing address order, which is what         *)
(* fetch()'s spin on the footer relies on.                                 *)
(***************************************************************************)
EXTENDS Integers, Sequences, FiniteSets

CONSTANTS
    Writers,    \* threads of the sending server
    Readers,    \* threads that call tryrecv on this queue: its owner, and
                \* under work stealing also the owner's neighbour
    Messages,   \* the payloads: non-empty sequences of words
    RbfSz,      \* mem->ring_size(), in words
    HeadFrac,   \* the head is published when it is RbfSz / HeadFrac ahead
                \* (8 in the code)
    MaxSends    \* bound: the number of messages sent in a behaviour

ASSUME RingAssumption ==
    /\ RbfSz \in Nat \ {0}
    /\ HeadFrac \in Nat \ {0}
    /\ MaxSends \in Nat
    /\ Messages \subseteq Seq(Nat)
    /\ \A m \in Messages : Len(m) > 0

VARIABLES
    ring,       \* the words of the ring buffer
    tail,       \* rmeta.tail, guarded by rmeta.lock
    head,       \* lmeta.head
    lhead,      \* local_ring_head: the last head the reader published
    rhead,      \* remote_ring_head: the published head, at the writers
    wpc,        \* where each writer is in send()
    msg,        \* the message each writer is sending
    off,        \* where each writer's reservation starts
    cnt,        \* how many words of its reservation a writer has written
    rpc,        \* where each reader is in tryrecv()
    dataSz,     \* fetch()'s data_sz
    result,     \* fetch()'s result
    log,        \* history: the reservations [off, data], oldest first
    got         \* history: the messages returned by fetch()

writerVars == <<wpc, msg, off, cnt>>
readerVars == <<rpc, dataSz, result>>
vars == <<ring, tail, head, lhead, rhead, writerVars, readerVars, log, got>>

Cells == 0 .. RbfSz - 1

\* msg_sz: the words a message with n words of data occupies.
MsgSz(n) == n + 2

\* The word that send() puts i words behind the start of message m.
Word(m, i) == IF i \in 1 .. Len(m) THEN m[i] ELSE Len(m)

Init ==
    /\ ring = [c \in Cells |-> 0]
    /\ tail = 0 /\ head = 0 /\ lhead = 0 /\ rhead = 0
    /\ wpc = [w \in Writers |-> "idle"]
    /\ msg = [w \in Writers |-> <<>>]
    /\ off = [w \in Writers |-> 0]
    /\ cnt = [w \in Writers |-> 0]
    /\ rpc = [r \in Readers |-> "idle"]
    /\ dataSz = [r \in Readers |-> 0]
    /\ result = [r \in Readers |-> <<>>]
    /\ log = <<>>
    /\ got = <<>>

-----------------------------------------------------------------------------
(* send() and the retries of its callers.                                  *)

\* A thread calls send(); the message passes ASSERT(msg_sz < rbf_sz).
Send(w, m) ==
    /\ wpc[w] = "idle"
    /\ MsgSz(Len(m)) < RbfSz
    /\ Len(log) + Cardinality({x \in Writers : wpc[x] \in {"send", "pending"}}) < MaxSends
    /\ wpc' = [wpc EXCEPT ![w] = "send"]
    /\ msg' = [msg EXCEPT ![w] = m]
    /\ UNCHANGED <<ring, tail, head, lhead, rhead, off, cnt, readerVars, log, got>>

\* Mutant of rbf_full: the size of the new message is forgotten.
rbf_full_NoSize(n) == RbfSz <= tail - rhead

rbf_full(n) == RbfSz < tail - rhead + MsgSz(n)

\* The critical section of send() that succeeds.
Reserve(w) ==
    /\ wpc[w] = "send"
    /\ ~ rbf_full(Len(msg[w]))
    /\ off' = [off EXCEPT ![w] = tail]
    /\ cnt' = [cnt EXCEPT ![w] = 0]
    /\ tail' = tail + MsgSz(Len(msg[w]))
    /\ wpc' = [wpc EXCEPT ![w] = "write"]
    /\ log' = Append(log, [off |-> tail, data |-> msg[w]])
    /\ UNCHANGED <<ring, head, lhead, rhead, msg, readerVars, got>>

\* The critical section that finds the ring full: send() returns false and
\* the caller keeps the message in its pending_msgs.
Full(w) ==
    /\ wpc[w] = "send"
    /\ rbf_full(Len(msg[w]))
    /\ wpc' = [wpc EXCEPT ![w] = "pending"]
    /\ UNCHANGED <<ring, tail, head, lhead, rhead, msg, off, cnt, readerVars, log, got>>

\* sweep_msgs() of the caller sends the pending message again.
Retry(w) ==
    /\ wpc[w] = "pending"
    /\ wpc' = [wpc EXCEPT ![w] = "send"]
    /\ UNCHANGED <<ring, tail, head, lhead, rhead, msg, off, cnt, readerVars, log, got>>

\* The next word of the message reaches the ring; send() returns true after
\* the footer.
WriteWord(w) ==
    /\ wpc[w] = "write"
    /\ ring' = [ring EXCEPT ![(off[w] + cnt[w]) % RbfSz] = Word(msg[w], cnt[w])]
    /\ cnt' = [cnt EXCEPT ![w] = @ + 1]
    /\ wpc' = [wpc EXCEPT ![w] = IF cnt'[w] = MsgSz(Len(msg[w])) THEN "idle" ELSE "write"]
    /\ UNCHANGED <<tail, head, lhead, rhead, msg, off, readerVars, log, got>>

-----------------------------------------------------------------------------
(* tryrecv(): check() and, when it finds a header, fetch().                *)

check(r) ==
    /\ rpc[r] = "idle"
    /\ ring[head % RbfSz] # 0
    /\ rpc' = [rpc EXCEPT ![r] = "header"]
    /\ UNCHANGED <<ring, tail, head, lhead, rhead, writerVars, dataSz, result, log, got>>

ReadHeader(r) ==
    /\ rpc[r] = "header"
    /\ dataSz' = [dataSz EXCEPT ![r] = ring[head % RbfSz]]
    /\ rpc' = [rpc EXCEPT ![r] = "cleanHeader"]
    /\ UNCHANGED <<ring, tail, head, lhead, rhead, writerVars, result, log, got>>

CleanHeader(r) ==
    /\ rpc[r] = "cleanHeader"
    /\ ring' = [ring EXCEPT ![head % RbfSz] = 0]
    /\ rpc' = [rpc EXCEPT ![r] = "footer"]
    /\ UNCHANGED <<tail, head, lhead, rhead, writerVars, dataSz, result, log, got>>

Footer(r) == ring[(head + 1 + dataSz[r]) % RbfSz]

\* Mutant of WaitFooter: fetch() does not wait for the footer.
WaitFooter_NoSpin(r) ==
    /\ rpc[r] = "footer"
    /\ rpc' = [rpc EXCEPT ![r] = "cleanFooter"]
    /\ UNCHANGED <<ring, tail, head, lhead, rhead, writerVars, dataSz, result, log, got>>

\* The end of the spin on the footer (its assertion is FooterAssertion).
WaitFooter(r) ==
    /\ rpc[r] = "footer"
    /\ Footer(r) = dataSz[r]
    /\ rpc' = [rpc EXCEPT ![r] = "cleanFooter"]
    /\ UNCHANGED <<ring, tail, head, lhead, rhead, writerVars, dataSz, result, log, got>>

CleanFooter(r) ==
    /\ rpc[r] = "cleanFooter"
    /\ ring' = [ring EXCEPT ![(head + 1 + dataSz[r]) % RbfSz] = 0]
    /\ rpc' = [rpc EXCEPT ![r] = "copy"]
    /\ UNCHANGED <<tail, head, lhead, rhead, writerVars, dataSz, result, log, got>>

\* Mutant of DataCells: fetch() leaves the data in the ring.
DataCells_None(r) == {}

\* The cells of the data of the message being fetched.
DataCells(r) == {(head + i) % RbfSz : i \in 1 .. dataSz[r]}

\* Copy the data and clean it.
CopyData(r) ==
    /\ rpc[r] = "copy"
    /\ result' = [result EXCEPT ![r] = [i \in 1 .. dataSz[r] |-> ring[(head + i) % RbfSz]]]
    /\ ring' = [c \in Cells |-> IF c \in DataCells(r) THEN 0 ELSE ring[c]]
    /\ rpc' = [rpc EXCEPT ![r] = "advance"]
    /\ UNCHANGED <<tail, head, lhead, rhead, writerVars, dataSz, log, got>>

\* Mutant of PublishLag: the head is published once per ring.
PublishLag_Ring == RbfSz

\* How far the head may run ahead of the published one.
PublishLag == RbfSz \div HeadFrac

\* Advance the head by n words and decide whether to publish it.
AdvanceBy(r, n) ==
    /\ rpc[r] = "advance"
    /\ head' = head + n
    /\ got' = Append(got, result[r])
    /\ IF head' - lhead > PublishLag
       THEN /\ lhead' = head'
            /\ rpc' = [rpc EXCEPT ![r] = "publish"]
       ELSE /\ rpc' = [rpc EXCEPT ![r] = "idle"]
            /\ UNCHANGED lhead
    /\ UNCHANGED <<ring, tail, rhead, writerVars, dataSz, result, log>>

\* Mutant of Advance: the head moves past one word too many.
Advance_PastFooter(r) == AdvanceBy(r, MsgSz(dataSz[r]) + 1)

Advance(r) == AdvanceBy(r, MsgSz(dataSz[r]))

\* The published head reaches the writers (RDMA WRITE or store).
Publish(r) ==
    /\ rpc[r] = "publish"
    /\ rhead' = lhead
    /\ rpc' = [rpc EXCEPT ![r] = "idle"]
    /\ UNCHANGED <<ring, tail, head, lhead, writerVars, dataSz, result, log, got>>

-----------------------------------------------------------------------------
Writer(w) == Reserve(w) \/ Full(w) \/ Retry(w) \/ WriteWord(w)

Fetch(r) ==
    \/ check(r) \/ ReadHeader(r) \/ CleanHeader(r) \/ WaitFooter(r)
    \/ CleanFooter(r) \/ CopyData(r) \/ Advance(r) \/ Publish(r)

Next ==
    \/ \E w \in Writers : (\E m \in Messages : Send(w, m)) \/ Writer(w)
    \/ \E r \in Readers : Fetch(r)

Spec == Init /\ [][Next]_vars

(* Every thread keeps running: a sweep retries a pending message in each   *)
(* round of the engine loop, and the owner of the queue keeps polling.     *)
Fairness ==
    /\ \A w \in Writers : WF_vars(Writer(w))
    /\ \A r \in Readers : WF_vars(Fetch(r))

FairSpec == Spec /\ Fairness

-----------------------------------------------------------------------------
(* Properties.                                                             *)

TypeOK ==
    /\ ring \in [Cells -> Nat]
    /\ tail \in Nat
    /\ head \in 0 .. tail
    /\ lhead \in 0 .. head
    /\ rhead \in 0 .. lhead
    /\ wpc \in [Writers -> {"idle", "send", "pending", "write"}]
    /\ msg \in [Writers -> Messages \cup {<<>>}]
    /\ off \in [Writers -> Nat]
    /\ cnt \in [Writers -> Nat]
    /\ rpc \in [Readers -> {"idle", "header", "cleanHeader", "footer", "cleanFooter",
                            "copy", "advance", "publish"}]
    /\ dataSz \in [Readers -> Nat]
    /\ result \in [Readers -> Seq(Nat)]
    /\ log \in Seq([off : Nat, data : Messages])
    /\ got \in Seq(Seq(Nat))

\* Whatever a writer still has to write falls into cells that hold nothing:
\* no unread word of another message is overwritten, although rbf_full()
\* works with an old head and writers fill their ranges concurrently, and
\* fetch() has cleaned everything it consumed.
NoOverwrite ==
    \A w \in Writers : wpc[w] = "write" =>
        \A i \in cnt[w] .. MsgSz(Len(msg[w])) - 1 : ring[(off[w] + i) % RbfSz] = 0

\* fetch() returns the messages complete, unmodified, once each and in the
\* order of their reservations, even if a later reservation was filled
\* first and whatever the data words contain.
InOrder ==
    /\ Len(got) <= Len(log)
    /\ \A i \in 1 .. Len(got) : got[i] = log[i].data

\* ASSERT(*footer == 0 || *footer == data_sz): while fetch() spins, the
\* footer cell never shows anything but zero or the message's own size.
FooterAssertion ==
    \A r \in Readers : rpc[r] = "footer" => Footer(r) \in {0, dataSz[r]}

\* A message that leaves room for the unpublished part of the head (an
\* RbfSz / HeadFrac share of the ring) is never refused for ever.
FitsBehindHead(n) == MsgSz(n) <= RbfSz - RbfSz \div HeadFrac

PendingIsSent ==
    \A w \in Writers :
        (wpc[w] = "pending" /\ FitsBehindHead(Len(msg[w]))) ~> wpc[w] = "write"

\* The queue implements a reliable FIFO channel, and under fairness delivers
\* everything that was reserved.
Chan == INSTANCE Channel
        WITH sent <- [i \in 1 .. Len(log) |-> log[i].data], received <- got
ImplementsChannel == Chan!FairSpec
=============================================================================
