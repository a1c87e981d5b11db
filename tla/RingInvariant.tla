--------------------------- MODULE RingInvariant ----------------------------
(***************************************************************************)
(* The inductive invariant of RingBuffer.                                  *)
(***************************************************************************)
EXTENDS RingBuffer

\* Where reservation k starts; one past the last one, the tail.
Start(k) == IF k <= Len(log) THEN log[k].off ELSE tail

Size(k) == MsgSz(Len(log[k].data))

\* The first reservation that fetch() has not returned yet.
First == Len(got) + 1

Live == First .. Len(log)

\* The reservations tile the offsets up to the tail, in order; the reader's
\* head is at the first one it has not returned, and all that lies between
\* the head that the writers know and the tail fits into the ring.
LogInv ==
    /\ \A k \in 1 .. Len(log) : Start(k + 1) = Start(k) + Size(k)
    /\ \A i, j \in 1 .. Len(log) + 1 : i < j => Start(i) < Start(j)
    /\ Len(got) <= Len(log)
    /\ head = Start(First)
    /\ tail - rhead <= RbfSz

\* Each writer at work fills its own reservation, which is still live.
WriterInv ==
    /\ \A w \in Writers : wpc[w] # "idle" => msg[w] \in Messages
    /\ \A w \in Writers : wpc[w] = "write" =>
          /\ cnt[w] < MsgSz(Len(msg[w]))
          /\ \E i \in Live : log[i].off = off[w] /\ log[i].data = msg[w]
    /\ \A v, w \in Writers : wpc[v] = "write" /\ wpc[w] = "write" /\ v # w => off[v] # off[w]

\* Word k of reservation i has not been written yet.
Unwritten(i, k) ==
    \E w \in Writers : wpc[w] = "write" /\ off[w] = log[i].off /\ cnt[w] <= k

\* Word k of reservation i has been cleaned by the fetch() under way.
Cleaned(i, k) ==
    /\ i = First
    /\ \E r \in Readers :
          \/ k = 0 /\ rpc[r] \in {"footer", "cleanFooter", "copy", "advance"}
          \/ k = Size(i) - 1 /\ rpc[r] \in {"copy", "advance"}
          \/ k \in 1 .. Size(i) - 2 /\ rpc[r] = "advance"

\* What is in the ring: live reservations hold the words written and not
\* cleaned, all else is zero.
RingInv ==
    /\ \A i \in Live : \A k \in 0 .. Size(i) - 1 :
          ring[(log[i].off + k) % RbfSz] =
              IF Unwritten(i, k) \/ Cleaned(i, k) THEN 0 ELSE Word(log[i].data, k)
    /\ \A p \in tail .. head + RbfSz - 1 : ring[p % RbfSz] = 0

\* A fetch() under way works on the first live reservation, whose header,
\* and after the spin all of it, has been written.
ReaderInv ==
    \A r \in Readers :
        /\ rpc[r] \notin {"idle", "publish"} => First \in Live /\ ~ Unwritten(First, 0)
        /\ rpc[r] \in {"cleanHeader", "footer", "cleanFooter", "copy", "advance"} =>
              dataSz[r] = Len(log[First].data)
        /\ rpc[r] \in {"cleanFooter", "copy", "advance"} =>
              \A w \in Writers : wpc[w] = "write" => off[w] # log[First].off
        /\ rpc[r] = "advance" => result[r] = log[First].data

Inv ==
    /\ TypeOK
    /\ InOrder
    /\ LogInv
    /\ WriterInv
    /\ RingInv
    /\ ReaderInv

=============================================================================
