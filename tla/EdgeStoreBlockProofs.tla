------------------------ MODULE EdgeStoreBlockProofs ------------------------
(***************************************************************************)
(* Proofs about EdgeStore, for any number of keys, readers, edges, cells   *)
(* and ticks: types, the effect of each step, owners and content of blocks.*)
(***************************************************************************)
EXTENDS EdgeStoreInvariant, NaturalsInduction, WellFoundedInduction, TLAPS

-----------------------------------------------------------------------------
(* Sizes of blocks.                                                        *)

\* The bounds are positive numbers.
LEMMA ConstFacts == Lease \in Nat /\ Lease >= 1 /\ MaxSize \in Nat /\ MaxSize >= 1 /\ MemSize \in Nat /\ MemSize >= 1
BY EdgeStoreAssumption

\* A non-empty set of numbers has a least one, which is its Min.
LEMMA MinFacts ==
    ASSUME NEW T, T \subseteq Nat, T # {}
    PROVE  Min(T) \in T /\ \A j \in T : Min(T) <= j
<1> DEFINE R == {ss \in Nat \X Nat : ss[1] < ss[2]}
<1>1. IsWellFoundedOn(R, Nat)
  BY NatLessThanWellFounded DEF OpToRel
<1> HIDE DEF R
<1>2. \E i \in T : \A j \in T : ~ (<<j, i>> \in R)
  BY <1>1, WFMin, Zenon
<1>3. \A i, j \in Nat : ~ (<<j, i>> \in R) => i <= j
  BY DEF R
<1>4. \E i \in T : \A j \in T : i <= j
  BY <1>2, <1>3, Zenon
<1> QED
  BY <1>4, Zenon DEF Min

\* The exponents that blksz chooses from.
Exponents(sz) == {k \in 1 .. MaxSize : 2^k >= sz}

\* blksz finds an exponent.
LEMMA ExponentFacts ==
    ASSUME NEW n \in 0 .. MaxSize
    PROVE  /\ MaxSize \in Nat \ {0} /\ Min(Exponents(n + 1)) \in Exponents(n + 1)
           /\ \A j \in Exponents(n + 1) : Min(Exponents(n + 1)) <= j
           /\ blksz(n + 1) = 2 ^ Min(Exponents(n + 1))
<1>1. MaxSize \in Nat \ {0}
  BY EdgeStoreAssumption
<1>2. MaxSize \in 1 .. MaxSize /\ 2^MaxSize \in Nat /\ 2^MaxSize > MaxSize
  BY <1>1, PowerAssumption
<1>3. 2^MaxSize >= n + 1
  BY <1>1, <1>2
<1>4. MaxSize \in Exponents(n + 1) /\ Exponents(n + 1) \subseteq Nat
  BY <1>2, <1>3 DEF Exponents
<1>5. blksz(n + 1) = 2 ^ Min(Exponents(n + 1))
  BY DEF blksz, Exponents
<1> QED
  BY <1>1, <1>4, <1>5, MinFacts

\* A block for n edges and a flag has that many cells.
LEMMA BlockSize ==
    ASSUME NEW n \in 0 .. MaxSize
    PROVE  blksz(n + 1) \in Nat /\ blksz(n + 1) >= n + 1
BY ExponentFacts, PowerAssumption, Zenon DEF Exponents

\* If there is room for one more edge, the block for it has the same size.
LEMMA RoomSame ==
    ASSUME NEW n \in Nat, n + 1 <= MaxSize, blksz(n + 1) - 1 >= n + 1
    PROVE  blksz(n + 2) = blksz(n + 1)
<1> DEFINE m == Min(Exponents(n + 1))
           l == Min(Exponents((n + 1) + 1))
<1>0. MaxSize \in Nat /\ n \in 0 .. MaxSize /\ n + 1 \in 0 .. MaxSize /\ n + 2 = (n + 1) + 1
  BY EdgeStoreAssumption
<1>1. m \in Exponents(n + 1) /\ (\A j \in Exponents(n + 1) : m <= j) /\ blksz(n + 1) = 2^m
  BY <1>0, ExponentFacts
<1>2. l \in Exponents((n + 1) + 1) /\ (\A j \in Exponents((n + 1) + 1) : l <= j) /\ blksz((n + 1) + 1) = 2^l
  BY ONLY <1>0, ExponentFacts, Zenon
<1> HIDE DEF m, l
<1>3. m \in 1 .. MaxSize /\ l \in 1 .. MaxSize /\ 2^m \in Nat /\ 2^l \in Nat /\ 2^l >= n + 2
  BY <1>0, <1>1, <1>2, PowerAssumption DEF Exponents
<1>4. m \in Exponents((n + 1) + 1)
  BY <1>0, <1>1, <1>3 DEF Exponents
<1>5. l \in Exponents(n + 1)
  BY <1>0, <1>3 DEF Exponents
<1>6. m = l
  BY <1>1, <1>2, <1>3, <1>4, <1>5
<1> QED
  BY <1>0, <1>1, <1>2, <1>6

\* The blocks of the loaded keys.
LEMMA BlockTwo == blksz(2) = 2
<1>1. MaxSize \in Nat \ {0} /\ 1 \in 0 .. MaxSize /\ 1 + 1 = 2
  BY EdgeStoreAssumption
<1>2. 1 \in Exponents(2)
  BY <1>1, PowerAssumption DEF Exponents
<1>3. Min(Exponents(2)) \in Exponents(2) /\ (\A j \in Exponents(2) : Min(Exponents(2)) <= j)
      /\ blksz(2) = 2 ^ Min(Exponents(2))
  BY <1>1, ExponentFacts, Zenon
<1>4. Min(Exponents(2)) <= 1 /\ Min(Exponents(2)) \in 1 .. MaxSize
  BY <1>2, <1>3, Zenon DEF Exponents
<1>5. Min(Exponents(2)) = 1
  BY ONLY <1>1, <1>4
<1> QED
  BY <1>3, <1>5, PowerAssumption, Zenon

-----------------------------------------------------------------------------
(* Types.                                                                  *)

\* sweep_free takes blocks whose lease has ended from the front of the queue.
LEMMA SweptFacts ==
    ASSUME TypeOK
    PROVE  \E d \in 0 .. Len(free_queue) :
              /\ Swept \in Seq(Pending) /\ Len(Swept) = Len(free_queue) - d
              /\ \A i \in 1 .. Len(Swept) : Swept[i] = free_queue[i + d]
              /\ \A i \in 1 .. d : ~ (now < free_queue[i].expire)
<1> DEFINE E == Pending
           live == {i \in DOMAIN free_queue : now < free_queue[i].expire}
           q == free_queue
<1>0. q \in Seq(E) /\ Len(q) \in Nat /\ DOMAIN q = 1 .. Len(q)
  BY DEF TypeOK
<1>1. CASE live = {}
  <2>1. Swept = <<>>
    BY <1>1 DEF Swept
  <2>2. \A i \in 1 .. Len(q) : ~ (now < q[i].expire)
    BY <1>0, <1>1
  <2>3. <<>> \in Seq(E) /\ Len(<<>>) = 0 /\ Len(q) \in 0 .. Len(q)
    BY <1>0
  <2> HIDE DEF q, E
  <2>4. /\ Swept \in Seq(E) /\ Len(Swept) = Len(q) - Len(q)
        /\ \A i \in 1 .. Len(Swept) : Swept[i] = q[i + Len(q)]
    BY <1>0, <2>1, <2>3
  <2> QED
    BY <2>2, <2>3, <2>4 DEF q, E
<1>2. CASE live # {}
  <2> DEFINE m == Min(live)
  <2>1. Swept = SubSeq(q, m, Len(q))
    BY <1>2, Zenon DEF Swept
  <2>2. live \subseteq Nat
    BY <1>0
  <2>3. m \in live /\ \A j \in live : m <= j
    BY ONLY <1>2, <2>2, MinFacts
  <2>4. m \in 1 .. Len(q)
    BY <1>0, <2>3
  <2> HIDE DEF m
  <2>5. ASSUME NEW i \in 1 .. m - 1, now < q[i].expire PROVE FALSE
    <3>1. i \in live
      BY <1>0, <2>4, <2>5
    <3> QED
      BY <2>3, <2>4, <2>5, <3>1
  <2> HIDE DEF q, E, live
  <2>6. /\ SubSeq(q, m, Len(q)) \in Seq(E) /\ Len(SubSeq(q, m, Len(q))) = Len(q) - (m - 1)
        /\ \A i \in 1 .. Len(q) - (m - 1) : SubSeq(q, m, Len(q))[i] = q[i + (m - 1)]
    BY <1>0, <2>4
  <2>7. m - 1 \in 0 .. Len(q)
    BY <1>0, <2>4
  <2> QED
    BY <1>0, <2>1, <2>5, <2>6, <2>7, Zenon DEF q, E
<1> QED
  BY <1>1, <1>2

\* Sizes that occur, and the blocks of the keys.
LEMMA SizeFacts ==
    ASSUME TypeOK, NEW k \in Keys
    PROVE  /\ MaxSize \in Nat /\ ptr[k] \in Ptrs /\ ptr[k].size \in 0 .. MaxSize /\ ptr[k].off \in Nat
           /\ blksz(ptr[k].size + 1) \in Nat /\ blksz(ptr[k].size + 1) >= ptr[k].size + 1
           /\ BlockOf(ptr[k]) \in Nat \X Nat
<1>0. ptr[k] \in Ptrs /\ ptr[k].size <= MaxSize
  BY DEF TypeOK
<1>1. MaxSize \in Nat /\ ptr[k] \in Ptrs /\ ptr[k].size \in 0 .. MaxSize /\ ptr[k].off \in Nat
  BY ONLY <1>0, ConstFacts DEF Ptrs
<1>2. blksz(ptr[k].size + 1) \in Nat /\ blksz(ptr[k].size + 1) >= ptr[k].size + 1
  BY <1>1, BlockSize
<1> QED
  BY <1>1, <1>2 DEF BlockOf

\* A key that gets another edge has fewer than the most.
LEMMA BusySize ==
    ASSUME TypeOK, WriterInv, NEW k \in Keys, wpc[k] # "idle"
    PROVE  /\ MaxSize \in Nat /\ ptr[k].size \in Nat /\ ptr[k].size < MaxSize
           /\ ptr[k].size + 1 <= MaxSize
<1>1. ptr[k].size \in Nat /\ MaxSize \in Nat
  BY SizeFacts
<1>2. ptr[k].size < MaxSize
  BY DEF WriterInv
<1> QED
  BY ONLY <1>1, <1>2

\* Insertions keep the types.
LEMMA TypeWriter ==
    ASSUME TypeOK, WriterInv, NEW k \in Keys, InsertKey(k) \/ InsertStep(k)
    PROVE  TypeOK'
<1>0. /\ mem = [c \in Cells |-> mem[c]] /\ exists \in [Keys -> BOOLEAN] /\ ptr \in [Keys -> Ptrs]
      /\ wpc \in [Keys -> {"idle", "locked", "invalidate", "publish", "value", "size"}] /\ new \in [Keys -> Nat]
      /\ \A j \in Keys : ptr[j].size <= MaxSize
  BY DEF TypeOK
<1>1. CASE InsertKey(k)
  BY <1>1 DEF InsertKey, TypeOK
<1>2. CASE NewBlock(k)
  <2>1. UNCHANGED <<exists, ptr, cache, rd, now>> /\ mem' = [c \in Cells |-> mem'[c]]
    BY <1>2 DEF NewBlock
  <2>2. PICK off \in Cells : new' = [new EXCEPT ![k] = off]
    BY <1>2, Zenon DEF NewBlock, Places
  <2>3. new' \in [Keys -> Nat]
    BY <1>0, <2>2, EdgeStoreAssumption DEF Cells
  <2>4. free_queue' \in Seq(Pending)
    BY <1>2, SweptFacts DEF NewBlock
  <2>5. wpc' \in [Keys -> {"idle", "locked", "invalidate", "publish", "value", "size"}]
    BY <1>0, <1>2 DEF NewBlock
  <2> QED
    BY <2>1, <2>3, <2>4, <2>5 DEF TypeOK
<1>3. CASE InvalidateOld(k) \/ InPlaceFlag(k) \/ InPlaceValue(k)
  <2>1. UNCHANGED <<exists, ptr, free_queue, new, cache, rd, now>>
    BY <1>3 DEF InvalidateOld, InPlaceFlag, InPlaceValue
  <2>2. mem' = [c \in Cells |-> mem'[c]]
    BY <1>0, <1>3 DEF InvalidateOld, InPlaceFlag, InPlaceValue
  <2>3. wpc' \in [Keys -> {"idle", "locked", "invalidate", "publish", "value", "size"}]
    BY <1>0, <1>3 DEF InvalidateOld, InPlaceFlag, InPlaceValue
  <2> QED
    BY <2>1, <2>2, <2>3 DEF TypeOK
<1>4. CASE Publish(k)
  <2>0. /\ ptr[k].size \in Nat /\ ptr[k].size + 1 <= MaxSize /\ new[k] \in Nat /\ now \in Nat /\ Lease \in Nat
        /\ BlockOf(ptr[k]) \in Nat \X Nat /\ free_queue \in Seq(Pending)
    <3>1. new[k] \in Nat /\ now \in Nat /\ free_queue \in Seq(Pending)
      BY DEF TypeOK
    <3>2. ptr[k].size < MaxSize
      BY <1>4 DEF Publish, WriterInv
    <3> QED
      BY <3>1, <3>2, SizeFacts, ConstFacts
  <2>1. UNCHANGED <<mem, exists, new, cache, rd, now>>
    BY <1>4 DEF Publish
  <2>2. ptr' = [ptr EXCEPT ![k] = [size |-> ptr[k].size + 1, off |-> new[k]]]
    BY <1>4 DEF Publish
  <2>3. ptr' \in [Keys -> Ptrs] /\ \A j \in Keys : ptr'[j].size <= MaxSize
    BY <1>0, <2>0, <2>2 DEF Ptrs
  <2>4. free_queue' \in Seq(Pending)
    <3>1. [blk |-> BlockOf(ptr[k]), expire |-> now + Lease] \in Pending
      BY <2>0 DEF Pending
    <3>2. \/ free_queue' = free_queue
          \/ free_queue' = Append(free_queue, [blk |-> BlockOf(ptr[k]), expire |-> now + Lease])
      BY <1>4 DEF Publish
    <3> QED
      BY ONLY <2>0, <3>1, <3>2, SMTT(30)
  <2>5. wpc' \in [Keys -> {"idle", "locked", "invalidate", "publish", "value", "size"}]
    BY <1>0, <1>4 DEF Publish
  <2> QED
    BY <2>1, <2>3, <2>4, <2>5 DEF TypeOK
<1>5. CASE InPlaceSize(k)
  <2>0. ptr[k] \in Ptrs /\ ptr[k].size \in Nat /\ ptr[k].size + 1 <= MaxSize
    <3>1. wpc[k] # "idle"
      BY <1>5 DEF InPlaceSize
    <3> QED
      BY <3>1, BusySize, SizeFacts
  <2>1. UNCHANGED <<mem, exists, free_queue, new, cache, rd, now>>
    BY <1>5 DEF InPlaceSize
  <2>2. ptr' = [ptr EXCEPT ![k].size = @ + 1]
    BY <1>5 DEF InPlaceSize
  <2>3. ptr' \in [Keys -> Ptrs] /\ \A j \in Keys : ptr'[j].size <= MaxSize
    BY <1>0, <2>0, <2>2 DEF Ptrs
  <2>4. wpc' \in [Keys -> {"idle", "locked", "invalidate", "publish", "value", "size"}]
    BY <1>0, <1>5 DEF InPlaceSize
  <2> QED
    BY <2>1, <2>3, <2>4 DEF TypeOK
<1> QED
  BY <1>1, <1>2, <1>3, <1>4, <1>5 DEF InsertStep

\* The reader r alone goes on, and the rest of the state stays.
ReadsOnly(r) ==
    /\ UNCHANGED <<store, wpc, new, now>> /\ DOMAIN rd' = Readers
    /\ \A q \in Readers \ {r} : rd'[q] = rd[q]
    /\ rd'[r] \in ReaderStates(rd'[r].data)

\* The fields of a reader.
LEMMA ReaderRecord ==
    ASSUME TypeOK, NEW r \in Readers
    PROVE  /\ DOMAIN rd = Readers /\ rd[r] \in ReaderStates(rd[r].data)
           /\ rd[r].pc \in ReadPcs /\ rd[r].key \in Keys /\ rd[r].v \in Ptrs
           /\ rd[r].from \in Nat /\ rd[r].born \in Nat
<1>1. DOMAIN rd = Readers /\ rd[r] \in ReaderStates(rd[r].data)
  BY DEF TypeOK
<1> QED
  BY <1>1 DEF ReaderStates

\* The new state x of a reader.
LEMMA SetReader ==
    ASSUME TypeOK, NEW r \in Readers, NEW x, x \in ReaderStates(x.data), rd' = [rd EXCEPT ![r] = x],
           UNCHANGED <<store, wpc, new, now>>
    PROVE  ReadsOnly(r) /\ rd'[r] = x
<1>1. rd'[r] = x /\ DOMAIN rd' = Readers /\ \A q \in Readers \ {r} : rd'[q] = rd[q]
  BY ReaderRecord
<1> QED
  BY <1>1 DEF ReadsOnly

\* A step that changes only where a reader is.
LEMMA GoReads ==
    ASSUME TypeOK, NEW r \in Readers, NEW l \in ReadPcs, Go(r, l), UNCHANGED <<store, wpc, new, now>>
    PROVE  /\ ReadsOnly(r) /\ rd'[r].pc = l /\ rd'[r].key = rd[r].key /\ rd'[r].from = rd[r].from
           /\ rd'[r].v = rd[r].v /\ rd'[r].data = rd[r].data /\ rd'[r].born = rd[r].born
<1> DEFINE x == [rd[r] EXCEPT !.pc = l]
<1>1. rd' = [rd EXCEPT ![r] = x]
  BY DEF Go
<1>2. /\ x \in ReaderStates(x.data) /\ x.pc = l /\ x.key = rd[r].key /\ x.from = rd[r].from
      /\ x.v = rd[r].v /\ x.data = rd[r].data /\ x.born = rd[r].born
  BY ReaderRecord DEF ReaderStates
<1> HIDE DEF x
<1>3. ReadsOnly(r) /\ rd'[r] = x
  BY <1>1, <1>2, SetReader, Zenon
<1> QED
  BY <1>2, <1>3

\* What the steps of a reader do to its state.
LEMMA BeginEffect ==
    ASSUME TypeOK, NEW r \in Readers, NEW k \in Keys, Begin(r, k)
    PROVE  /\ ReadsOnly(r) /\ cache' = cache /\ rd[r].pc = "idle" /\ rd'[r].pc \in {"lookup", "vertex"}
           /\ rd'[r].key = k /\ rd'[r].from = ptr[k].size /\ rd'[r].born = 0
           /\ (rd'[r].pc = "lookup" => r \in Remote)
<1> DEFINE x == [pc |-> IF r \in Remote THEN "lookup" ELSE "vertex", key |-> k, v |-> NoPtr,
                 data |-> <<>>, from |-> ptr[k].size, born |-> 0]
<1>0. ptr[k].size \in Nat /\ NoPtr \in Ptrs
  BY SizeFacts DEF NoPtr, Ptrs
<1>1. rd' = [rd EXCEPT ![r] = x] /\ UNCHANGED <<store, wpc, new, cache, now>> /\ rd[r].pc = "idle"
  BY DEF Begin
<1>2. x.pc \in {"lookup", "vertex"} /\ (x.pc = "lookup" => r \in Remote) /\ x.key = k
      /\ x.from = ptr[k].size /\ x.born = 0 /\ x \in ReaderStates(x.data)
  BY <1>0 DEF ReaderStates, ReadPcs
<1> HIDE DEF x
<1>3. ReadsOnly(r) /\ rd'[r] = x
  BY <1>1, <1>2, SetReader, Zenon
<1> QED
  BY <1>1, <1>2, <1>3

LEMMA LookupEffect ==
    ASSUME TypeOK, Caching, NEW r \in Readers, Lookup(r)
    PROVE  /\ ReadsOnly(r) /\ cache' = cache /\ rd[r].pc = "lookup"
           /\ rd'[r].key = rd[r].key /\ rd'[r].from = rd[r].from
           /\ \/ rd'[r].pc = "vertex" /\ rd'[r].born = rd[r].born
              \/ /\ now < cache[rd[r].key].expire
                 /\ rd'[r].pc = "edges" /\ rd'[r].v = cache[rd[r].key].v /\ rd'[r].born = cache[rd[r].key].born
<1> DEFINE item == cache[rd[r].key]
           x == [rd[r] EXCEPT !.v = item.v, !.born = item.born, !.pc = "edges"]
<1>0. rd[r].pc = "lookup" /\ UNCHANGED <<store, wpc, new, cache, now>>
  BY DEF Lookup
<1>1. CASE now < item.expire
  <2>1. rd' = [rd EXCEPT ![r] = x]
    BY <1>1, Zenon DEF Lookup
  <2>2. item.v \in Ptrs /\ item.born \in Nat
    <3>1. item \in Items
      BY ReaderRecord DEF TypeOK
    <3> QED
      BY <3>1 DEF Items
  <2> HIDE DEF item
  <2>3. /\ x \in ReaderStates(x.data) /\ x.pc = "edges" /\ x.key = rd[r].key /\ x.from = rd[r].from
        /\ x.v = item.v /\ x.born = item.born
    BY <2>2, ReaderRecord, Zenon DEF ReaderStates, ReadPcs
  <2> HIDE DEF x
  <2>4. ReadsOnly(r) /\ rd'[r] = x
    BY <1>0, <2>1, <2>3, SetReader, Zenon
  <2> QED
    BY <1>0, <1>1, <2>3, <2>4 DEF item
<1>2. CASE ~ (now < item.expire)
  <2>1. Go(r, "vertex") /\ "vertex" \in ReadPcs
    BY <1>2 DEF Lookup, ReadPcs
  <2> QED
    BY <1>0, <2>1, GoReads
<1> QED
  BY <1>1, <1>2

LEMMA VertexEffect ==
    ASSUME TypeOK, Caching, NEW r \in Readers, ReadVertex(r)
    PROVE  /\ ReadsOnly(r) /\ cache' = cache /\ rd[r].pc = "vertex"
           /\ rd'[r].key = rd[r].key /\ rd'[r].from = rd[r].from
           /\ rd'[r].born = now
           /\ \/ ~ exists[rd[r].key] /\ rd'[r].pc = "done" /\ rd'[r].v = NoPtr /\ rd'[r].data = <<>>
              \/ rd'[r].v = ptr[rd[r].key] /\ rd'[r].pc = IF r \in Remote THEN "cache" ELSE "edges"
<1> DEFINE k == rd[r].key
           l == IF r \in Remote THEN "cache" ELSE "edges"
           x == [rd[r] EXCEPT !.v = ptr[k], !.born = now, !.pc = l]
           y == [rd[r] EXCEPT !.v = NoPtr, !.born = now, !.data = <<>>, !.pc = "done"]
<1>0. rd[r].pc = "vertex" /\ UNCHANGED <<store, wpc, new, cache, now>> /\ now \in Nat
  BY DEF ReadVertex, TypeOK
<1>1. CASE exists[k]
  <2>1. rd' = [rd EXCEPT ![r] = x]
    BY <1>1, Zenon DEF ReadVertex
  <2>2. ptr[k] \in Ptrs /\ l \in ReadPcs
    BY ReaderRecord, SizeFacts DEF ReadPcs
  <2> HIDE DEF k, l
  <2>3. /\ x \in ReaderStates(x.data) /\ x.pc = l /\ x.key = rd[r].key /\ x.from = rd[r].from
        /\ x.v = ptr[k] /\ x.born = now
    BY <1>0, <2>2, ReaderRecord, Zenon DEF ReaderStates
  <2> HIDE DEF x
  <2>4. ReadsOnly(r) /\ rd'[r] = x
    BY <1>0, <2>1, <2>3, SetReader, Zenon
  <2> QED
    BY <1>0, <2>3, <2>4 DEF k, l
<1>2. CASE ~ exists[k]
  <2>1. rd' = [rd EXCEPT ![r] = y]
    BY <1>2, Zenon DEF ReadVertex
  <2>2. NoPtr \in Ptrs /\ "done" \in ReadPcs
    BY DEF NoPtr, Ptrs, ReadPcs
  <2>3. /\ y \in ReaderStates(y.data) /\ y.pc = "done" /\ y.key = rd[r].key /\ y.from = rd[r].from
        /\ y.v = NoPtr /\ y.data = <<>> /\ y.born = now
    BY <1>0, <2>2, ReaderRecord, Zenon DEF ReaderStates
  <2> HIDE DEF y
  <2>4. ReadsOnly(r) /\ rd'[r] = y
    BY <1>0, <2>1, <2>3, SetReader, Zenon
  <2> QED
    BY <1>0, <1>2, <2>3, <2>4
<1> QED
  BY <1>1, <1>2

LEMMA InsertCacheEffect ==
    ASSUME TypeOK, NEW r \in Readers, InsertCache(r)
    PROVE  /\ ReadsOnly(r) /\ rd[r].pc = "cache" /\ rd'[r].pc = "edges"
           /\ cache' = [cache EXCEPT ![rd[r].key] = [v |-> rd[r].v, expire |-> now + Lease, born |-> rd[r].born]]
           /\ rd'[r].key = rd[r].key /\ rd'[r].from = rd[r].from /\ rd'[r].v = rd[r].v /\ rd'[r].born = rd[r].born
BY GoReads DEF InsertCache, ReadPcs

LEMMA EdgesEffect ==
    ASSUME TypeOK, NEW r \in Readers, ReadEdges(r)
    PROVE  /\ ReadsOnly(r) /\ cache' = cache /\ rd[r].pc = "edges"
           /\ rd'[r].pc = IF r \in Remote THEN "flag" ELSE "done"
           /\ rd'[r].data = [i \in 1 .. rd[r].v.size |-> mem[rd[r].v.off + i - 1]]
           /\ rd'[r].key = rd[r].key /\ rd'[r].from = rd[r].from /\ rd'[r].v = rd[r].v /\ rd'[r].born = rd[r].born
<1> DEFINE d == [i \in 1 .. rd[r].v.size |-> mem[rd[r].v.off + i - 1]]
           l == IF r \in Remote THEN "flag" ELSE "done"
           x == [rd[r] EXCEPT !.data = d, !.pc = l]
<1>0. rd[r].pc = "edges" /\ UNCHANGED <<store, wpc, new, cache, now>> /\ rd' = [rd EXCEPT ![r] = x]
  BY Zenon DEF ReadEdges
<1>1. l \in ReadPcs
  BY DEF ReadPcs
<1> HIDE DEF d, l
<1>2. /\ x \in ReaderStates(x.data) /\ x.pc = l /\ x.data = d /\ x.key = rd[r].key /\ x.from = rd[r].from
      /\ x.v = rd[r].v /\ x.born = rd[r].born
  BY <1>1, ReaderRecord, Zenon DEF ReaderStates
<1> HIDE DEF x
<1>3. ReadsOnly(r) /\ rd'[r] = x
  BY <1>0, <1>2, SetReader, Zenon
<1> QED
  BY <1>0, <1>2, <1>3 DEF d, l

LEMMA FlagEffect ==
    ASSUME TypeOK, NEW r \in Readers, ReadFlag(r)
    PROVE  /\ ReadsOnly(r) /\ cache' = cache /\ rd[r].pc = "flag"
           /\ rd'[r].pc = IF edge_is_valid(rd[r].v) THEN "done" ELSE "invalid"
           /\ rd'[r].key = rd[r].key /\ rd'[r].from = rd[r].from /\ rd'[r].v = rd[r].v
           /\ rd'[r].data = rd[r].data /\ rd'[r].born = rd[r].born
<1> DEFINE l == IF edge_is_valid(rd[r].v) THEN "done" ELSE "invalid"
<1>1. Go(r, l) /\ l \in ReadPcs /\ rd[r].pc = "flag" /\ UNCHANGED <<store, wpc, new, cache, now>>
  BY DEF ReadFlag, ReadPcs
<1> HIDE DEF l
<1>2. /\ ReadsOnly(r) /\ rd'[r].pc = l /\ rd'[r].key = rd[r].key /\ rd'[r].from = rd[r].from
      /\ rd'[r].v = rd[r].v /\ rd'[r].data = rd[r].data /\ rd'[r].born = rd[r].born
  BY <1>1, GoReads
<1> QED
  BY <1>1, <1>2 DEF l

LEMMA InvalidateEffect ==
    ASSUME TypeOK, NEW r \in Readers, Invalidate(r)
    PROVE  /\ ReadsOnly(r) /\ cache' = [cache EXCEPT ![rd[r].key] = NoItem] /\ rd[r].pc = "invalid"
           /\ rd'[r].pc = "lookup" /\ rd'[r].key = rd[r].key /\ rd'[r].from = rd[r].from /\ rd'[r].born = 0
<1> DEFINE x == [rd[r] EXCEPT !.v = NoPtr, !.data = <<>>, !.born = 0, !.pc = "lookup"]
<1>1. /\ rd' = [rd EXCEPT ![r] = x] /\ UNCHANGED <<store, wpc, new, now>> /\ rd[r].pc = "invalid"
      /\ cache' = [cache EXCEPT ![rd[r].key] = NoItem]
  BY Zenon DEF Invalidate
<1>2. NoPtr \in Ptrs /\ "lookup" \in ReadPcs /\ 0 \in Nat
  BY DEF NoPtr, Ptrs, ReadPcs
<1>3. x \in ReaderStates(x.data) /\ x.pc = "lookup" /\ x.key = rd[r].key /\ x.from = rd[r].from /\ x.born = 0
  BY <1>2, ReaderRecord, Zenon DEF ReaderStates
<1> HIDE DEF x
<1>4. ReadsOnly(r) /\ rd'[r] = x
  BY <1>1, <1>3, SetReader, Zenon
<1> QED
  BY <1>1, <1>3, <1>4

LEMMA ReturnEffect ==
    ASSUME TypeOK, NEW r \in Readers, Return(r)
    PROVE  ReadsOnly(r) /\ cache' = cache /\ rd'[r].pc = "idle" /\ rd'[r].born = 0
<1>1. IdleReader.pc = "idle" /\ IdleReader.born = 0 /\ IdleReader \in ReaderStates(IdleReader.data)
  BY EdgeStoreAssumption DEF IdleReader, ReaderStates, ReadPcs, NoPtr, Ptrs
<1>2. rd' = [rd EXCEPT ![r] = IdleReader] /\ UNCHANGED <<store, wpc, new, cache, now>>
  BY DEF Return
<1> QED
  BY <1>1, <1>2, SetReader, Zenon

\* Readers keep the types.
LEMMA TypeReader ==
    ASSUME TypeOK, NEW r \in Readers, ReadsOnly(r), cache' \in [Keys -> Items]
    PROVE  TypeOK'
<1>1. UNCHANGED <<mem, exists, ptr, used, free_queue, wpc, new, now>>
  BY DEF ReadsOnly, store
<1>2. DOMAIN rd' = Readers /\ \A q \in Readers : rd'[q] \in ReaderStates(rd'[q].data)
  BY ReaderRecord DEF ReadsOnly
<1> QED
  BY <1>1, <1>2 DEF TypeOK

\* Every step of a reader is one of a reader alone.
LEMMA TypeCache ==
    ASSUME TypeOK, Caching, NEW r \in Readers, ReadStep(r) \/ \E k \in Keys : Begin(r, k)
    PROVE  ReadsOnly(r) /\ cache' \in [Keys -> Items]
<1>0. cache \in [Keys -> Items] /\ rd[r].key \in Keys /\ rd[r].v \in Ptrs /\ now + Lease \in Nat /\ rd[r].born \in Nat
  BY ReaderRecord, ConstFacts DEF TypeOK
<1>1. CASE \/ \E k \in Keys : Begin(r, k)
           \/ Lookup(r) \/ ReadVertex(r) \/ ReadEdges(r) \/ ReadFlag(r) \/ Return(r)
  BY <1>0, <1>1, BeginEffect, LookupEffect, VertexEffect, EdgesEffect, FlagEffect, ReturnEffect, Zenon
<1>2. CASE InsertCache(r)
  <2>1. [v |-> rd[r].v, expire |-> now + Lease, born |-> rd[r].born] \in Items
    BY <1>0 DEF Items
  <2> QED
    BY <1>0, <1>2, <2>1, InsertCacheEffect, Zenon
<1>3. CASE Invalidate(r)
  <2>1. NoItem \in Items
    BY DEF NoItem, NoPtr, Ptrs, Items
  <2> QED
    BY <1>0, <1>3, <2>1, InvalidateEffect
<1> QED
  BY <1>1, <1>2, <1>3 DEF ReadStep

\* An insertion goes on only where there is room, or with a new block.
LEMMA WriterStep ==
    ASSUME TypeOK, WriterInv, NEW k \in Keys, InsertKey(k) \/ InsertStep(k)
    PROVE  WriterInv'
<1>0. /\ wpc \in [Keys -> {"idle", "locked", "invalidate", "publish", "value", "size"}] /\ ptr \in [Keys -> Ptrs]
      /\ exists \in [Keys -> BOOLEAN] /\ Loaded \subseteq Keys
  BY EdgeStoreAssumption DEF TypeOK
<1>1. \A j \in Keys : j # k => wpc'[j] = wpc[j] /\ ptr'[j] = ptr[j] /\ exists'[j] = exists[j]
  BY <1>0 DEF InsertKey, InsertStep, NewBlock, InvalidateOld, Publish, InPlaceFlag, InPlaceValue, InPlaceSize
<1>2. \A j \in Keys : j # k => (Room(j)' <=> Room(j))
  BY <1>1 DEF Room
<1>3. CASE InsertKey(k)
  BY <1>0, <1>1, <1>2, <1>3 DEF WriterInv, InsertKey
<1>4. CASE NewBlock(k)
  <2>1. wpc'[k] = (IF ptr[k].size = 0 THEN "publish" ELSE "invalidate") /\ UNCHANGED <<ptr, exists>> /\ wpc[k] = "locked"
    BY <1>0, <1>4 DEF NewBlock
  <2> QED
    BY <1>0, <1>1, <1>2, <2>1 DEF WriterInv
<1>5. CASE InvalidateOld(k)
  BY <1>0, <1>1, <1>2, <1>5 DEF WriterInv, InvalidateOld
<1>6. CASE InPlaceFlag(k) \/ InPlaceValue(k)
  <2>1. /\ wpc'[k] \in {"value", "size"} /\ wpc[k] \in {"locked", "value"} /\ (wpc[k] = "locked" => Room(k))
        /\ UNCHANGED <<ptr, exists>>
    BY <1>0, <1>6 DEF InPlaceFlag, InPlaceValue
  <2>2. Room(k) /\ (Room(k)' <=> Room(k))
    BY <2>1 DEF WriterInv, Room
  <2> QED
    BY <1>0, <1>1, <1>2, <2>1, <2>2 DEF WriterInv
<1>7. CASE Publish(k) \/ InPlaceSize(k)
  <2>1. wpc'[k] = "idle" /\ exists' = exists
    BY <1>0, <1>7 DEF Publish, InPlaceSize
  <2>2. ptr[k].size \in Nat /\ ptr[k] \in Ptrs
    BY SizeFacts
  <2>3. ptr'[k].size = ptr[k].size + 1
    BY <1>0, <1>7, <2>2 DEF Publish, InPlaceSize, Ptrs
  <2>4. ptr'[k].size # 0
    BY <2>2, <2>3
  <2> QED
    BY <1>0, <1>1, <1>2, <2>1, <2>4 DEF WriterInv
<1> QED
  BY <1>3, <1>4, <1>5, <1>6, <1>7 DEF InsertStep

\* An insertion goes on only for a key that insert_key has published.
LEMMA KeyStep ==
    ASSUME TypeOK, KeyInv, NEW k \in Keys, InsertKey(k) \/ InsertStep(k)
    PROVE  KeyInv'
<1>0. /\ wpc \in [Keys -> {"idle", "locked", "invalidate", "publish", "value", "size"}] /\ ptr \in [Keys -> Ptrs]
      /\ exists \in [Keys -> BOOLEAN]
  BY DEF TypeOK
<1>1. \A j \in Keys : j # k => wpc'[j] = wpc[j] /\ ptr'[j] = ptr[j] /\ exists'[j] = exists[j]
  BY <1>0 DEF InsertKey, InsertStep, NewBlock, InvalidateOld, Publish, InPlaceFlag, InPlaceValue, InPlaceSize
<1>2. exists'[k]
  <2>1. CASE InsertKey(k)
    BY <1>0, <2>1 DEF InsertKey
  <2>2. CASE InsertStep(k)
    <3>1. wpc[k] \in {"locked", "invalidate", "publish", "value", "size"} /\ exists' = exists
      BY <2>2, Zenon DEF InsertStep, NewBlock, InvalidateOld, Publish, InPlaceFlag, InPlaceValue, InPlaceSize
    <3> QED
      BY <3>1 DEF KeyInv
  <2> QED
    BY <2>1, <2>2
<1> QED
  BY <1>1, <1>2 DEF KeyInv

-----------------------------------------------------------------------------
(* Blocks.                                                                 *)

\* The owners and their blocks, one kind at a time.
OwnerKinds ==
    /\ \A k \in Keys : (<<"key", k>> \in Owners <=> ptr[k].size # 0) /\ Blk(<<"key", k>>) = BlockOf(ptr[k])
    /\ \A k \in Keys : (<<"new", k>> \in Owners <=> Filling(k)) /\ Blk(<<"new", k>>) = NewBlk(k)
    /\ \A i \in DOMAIN free_queue : <<"queue", i>> \in Owners /\ Blk(<<"queue", i>>) = free_queue[i].blk
    /\ \A o \in Owners : \/ \E k \in Keys : o = <<"key", k>> /\ ptr[k].size # 0
                         \/ \E k \in Keys : o = <<"new", k>> /\ Filling(k)
                         \/ \E i \in DOMAIN free_queue : o = <<"queue", i>>

\* The owners by kind, now and after a step.
LEMMA OwnerForms == OwnerKinds /\ OwnerKinds'
<1>1. OwnerKinds
  BY DEF OwnerKinds, Owners, Blk
<1>2. OwnerKinds'
  BY DEF OwnerKinds, Owners, Blk
<1> QED
  BY <1>1, <1>2

\* The steps that move no block.
LEMMA OwnersStay ==
    ASSUME TypeOK, WriterInv, NEW k \in Keys,
           InsertKey(k) \/ InvalidateOld(k) \/ InPlaceFlag(k) \/ InPlaceValue(k) \/ InPlaceSize(k)
    PROVE  Owners' = Owners /\ (\A o \in Owners : Blk(o)' = Blk(o)) /\ UNCHANGED <<used, free_queue, new>>
<1>0. /\ wpc \in [Keys -> {"idle", "locked", "invalidate", "publish", "value", "size"}] /\ ptr \in [Keys -> Ptrs]
      /\ UNCHANGED <<used, free_queue, new>>
  BY DEF TypeOK, InsertKey, InvalidateOld, InPlaceFlag, InPlaceValue, InPlaceSize
<1>1. \A j \in Keys : Filling(j)' <=> Filling(j)
  BY <1>0 DEF InsertKey, InvalidateOld, InPlaceFlag, InPlaceValue, InPlaceSize, Filling
<1>2. \A j \in Keys : (ptr'[j].size # 0 <=> ptr[j].size # 0) /\ BlockOf(ptr[j])' = BlockOf(ptr[j])
  <2>1. CASE InPlaceSize(k)
    <3>1. /\ ptr[k].size \in Nat /\ ptr[k].size # 0 /\ ptr[k].size + 1 <= MaxSize
          /\ blksz(ptr[k].size + 1) - 1 >= ptr[k].size + 1
      <4>1. wpc[k] = "size"
        BY <2>1 DEF InPlaceSize
      <4>2. Room(k)
        BY <4>1 DEF WriterInv
      <4> QED
        BY <4>1, <4>2, BusySize DEF Room
    <3>2. ptr'[k].size = ptr[k].size + 1 /\ ptr'[k].off = ptr[k].off /\ \A j \in Keys : j # k => ptr'[j] = ptr[j]
      BY <1>0, <2>1 DEF InPlaceSize, Ptrs
    <3>3. blksz(ptr[k].size + 2) = blksz(ptr[k].size + 1)
      BY <3>1, RoomSame
    <3>4. ptr'[k].size + 1 = ptr[k].size + 2 /\ ptr'[k].size # 0
      BY <3>1, <3>2
    <3> QED
      BY <3>1, <3>2, <3>3, <3>4 DEF BlockOf
  <2>2. CASE ~ InPlaceSize(k)
    BY <2>2 DEF InsertKey, InvalidateOld, InPlaceFlag, InPlaceValue, BlockOf
  <2> QED
    BY <2>1, <2>2
<1>3. \A j \in Keys : Filling(j) => NewBlk(j)' = NewBlk(j)
  <2>1. \A j \in Keys : Filling(j) => ptr'[j] = ptr[j]
    BY <1>0 DEF InsertKey, InvalidateOld, InPlaceFlag, InPlaceValue, InPlaceSize, Filling
  <2> QED
    BY <1>0, <2>1 DEF NewBlk
<1>4. Owners' = Owners
  BY <1>0, <1>1, <1>2, Zenon DEF Owners
<1>5. ASSUME NEW o \in Owners PROVE Blk(o)' = Blk(o)
  <2>1. CASE \E j \in Keys : o = <<"key", j>> /\ ptr[j].size # 0
    BY <1>2, <2>1, OwnerForms DEF OwnerKinds
  <2>2. CASE \E j \in Keys : o = <<"new", j>> /\ Filling(j)
    BY <1>3, <2>2, OwnerForms, ZenonT(30) DEF OwnerKinds
  <2>3. CASE \E i \in DOMAIN free_queue : o = <<"queue", i>>
    BY <1>0, <2>3, OwnerForms DEF OwnerKinds
  <2> QED
    BY <2>1, <2>2, <2>3, OwnerForms DEF OwnerKinds
<1> QED
  BY <1>0, <1>4, <1>5

\* The block of an insertion becomes that of the key, and the old one, if any,
\* goes to the queue.
LEMMA OwnersPublish ==
    ASSUME TypeOK, WriterInv, OwnerInv, Caching, NEW k \in Keys, Publish(k)
    PROVE  OwnerInv'
<1> DEFINE n == Len(free_queue)
           G(o) == IF o = <<"key", k>> THEN <<"new", k>>
                   ELSE IF o = <<"queue", n + 1>> THEN <<"key", k>> ELSE o
<1>0. /\ wpc \in [Keys -> {"idle", "locked", "invalidate", "publish", "value", "size"}] /\ ptr \in [Keys -> Ptrs]
      /\ free_queue \in Seq(Pending) /\ n \in Nat /\ DOMAIN free_queue = 1 .. n
      /\ UNCHANGED <<used, new>> /\ wpc[k] = "publish" /\ wpc' = [wpc EXCEPT ![k] = "idle"]
      /\ ptr' = [ptr EXCEPT ![k] = [size |-> ptr[k].size + 1, off |-> new[k]]]
  BY DEF TypeOK, Publish
<1>1. /\ \A j \in Keys : j # k => ptr'[j] = ptr[j] /\ (Filling(j)' <=> Filling(j)) /\ NewBlk(j)' = NewBlk(j)
      /\ Filling(k) /\ ~ Filling(k)'
  BY <1>0 DEF Filling, NewBlk
<1>2. ptr[k].size \in Nat /\ ptr'[k].size # 0 /\ BlockOf(ptr[k])' = NewBlk(k)
  <2>1. ptr[k].size \in Nat
    BY SizeFacts
  <2>2. ptr'[k].size = ptr[k].size + 1 /\ ptr'[k].off = new[k]
    BY <1>0
  <2>3. ptr'[k].size # 0 /\ ptr'[k].size + 1 = ptr[k].size + 2
    BY <2>1, <2>2
  <2> QED
    BY <2>1, <2>2, <2>3 DEF BlockOf, NewBlk
<1>3. /\ DOMAIN free_queue' = IF ptr[k].size # 0 THEN 1 .. n + 1 ELSE 1 .. n
      /\ \A i \in 1 .. n : free_queue'[i] = free_queue[i]
      /\ ptr[k].size # 0 => free_queue'[n + 1].blk = BlockOf(ptr[k])
  <2>1. CASE ptr[k].size = 0
    <3>1. free_queue' = free_queue
      BY <2>1 DEF Publish
    <3> QED
      BY <1>0, <2>1, <3>1
  <2>2. CASE ptr[k].size # 0
    <3> DEFINE e == [blk |-> BlockOf(ptr[k]), expire |-> now + Lease]
    <3>1. free_queue' = Append(free_queue, e)
      BY <2>2 DEF Publish
    <3>2. e \in Pending /\ e.blk = BlockOf(ptr[k])
      <4>1. now \in Nat
        BY Zenon DEF TypeOK
      <4>2. now + Lease \in Nat
        BY ONLY <4>1, ConstFacts
      <4>3. BlockOf(ptr[k]) \in Nat \X Nat
        BY SizeFacts, Zenon
      <4> QED
        BY ONLY <4>2, <4>3 DEF Pending
    <3> HIDE DEF e
    <3> QED
      BY <1>0, <2>2, <3>1, <3>2
  <2> QED
    BY <2>1, <2>2
<1>4. ASSUME NEW o \in Owners' PROVE G(o) \in Owners /\ Blk(o)' = Blk(G(o))
  <2>1. CASE \E j \in Keys : o = <<"key", j>> /\ ptr'[j].size # 0
    BY <1>1, <1>2, <2>1, OwnerForms DEF OwnerKinds
  <2>2. CASE \E j \in Keys : o = <<"new", j>> /\ Filling(j)'
    BY <1>1, <2>2, OwnerForms DEF OwnerKinds
  <2>3. CASE \E i \in DOMAIN free_queue' : o = <<"queue", i>>
    BY <1>0, <1>3, <2>3, OwnerForms, SMTT(30) DEF OwnerKinds
  <2> QED
    BY <2>1, <2>2, <2>3, OwnerForms DEF OwnerKinds
<1>5. ASSUME NEW o \in Owners', NEW p \in Owners', o # p PROVE G(o) # G(p)
  <2>1. <<"new", k>> \notin Owners'
    BY <1>1, OwnerForms DEF OwnerKinds
  <2> QED
    BY <1>5, <2>1, Zenon
<1> HIDE DEF G
<1> QED
  BY <1>0, <1>4, <1>5 DEF OwnerInv

\* A new block at off, when the first d blocks of the queue are freed.
Lasting(d) == {o \in Owners : ~ (o[1] = "queue" /\ o[2] \in 1 .. d)}
Size(k) == blksz(ptr[k].size + 2)
Moved(k, off, d) ==
    /\ UNCHANGED <<exists, ptr, cache, rd, now>> /\ new' = [new EXCEPT ![k] = off]
    /\ wpc[k] = "locked" /\ wpc' = [wpc EXCEPT ![k] = IF ptr[k].size = 0 THEN "publish" ELSE "invalidate"]
    /\ free_queue' \in Seq(Pending) /\ Len(free_queue') = Len(free_queue) - d
    /\ \A i \in 1 .. Len(free_queue') : free_queue'[i] = free_queue[i + d]
    /\ \A i \in 1 .. d : ~ (now < free_queue[i].expire)
    /\ Size(k) \in Nat /\ Size(k) >= ptr[k].size + 2 /\ off + Size(k) <= MemSize
    /\ \A o \in Lasting(d) : CellsOf(Blk(o)) \cap (off .. off + Size(k) - 1) = {}
    /\ \A o \in Lasting(d) : Blk(o) \in used'
    /\ <<off, Size(k)>> \in used'
    /\ mem' = [c \in Cells |->
                  IF c = off + Size(k) - 1 THEN Flag(ptr[k].size + 1)
                  ELSE IF c = off + ptr[k].size THEN Value(k)
                  ELSE IF c \in off .. off + ptr[k].size - 1 THEN mem[ptr[k].off + (c - off)]
                  ELSE mem[c]]

\* The allocator returns a block that no owner but the freed ones has.
LEMMA NewBlockEffect ==
    ASSUME TypeOK, WriterInv, OwnerInv, NEW k \in Keys, NewBlock(k)
    PROVE  \E off \in Cells, d \in 0 .. Len(free_queue) : Moved(k, off, d)
<1> DEFINE n == ptr[k].size + 1
           b == blksz(n + 1)
           freed == {q.blk : q \in Range(free_queue) \ Range(Swept)}
           taken == used \ freed
<1>0. /\ UNCHANGED <<exists, ptr, cache, rd, now>> /\ wpc[k] = "locked" /\ free_queue' = Swept
      /\ wpc' = [wpc EXCEPT ![k] = IF ptr[k].size = 0 THEN "publish" ELSE "invalidate"]
  BY DEF NewBlock
<1>1. PICK off \in Places(b, taken) :
         /\ mem' = [c \in Cells |->
                       IF c = FlagCell(n, off) THEN Flag(n)
                       ELSE IF c = off + n - 1 THEN Value(k)
                       ELSE IF c \in off .. off + n - 2 THEN mem[ptr[k].off + (c - off)]
                       ELSE mem[c]]
         /\ new' = [new EXCEPT ![k] = off] /\ used' = taken \cup {<<off, b>>}
  BY Zenon DEF NewBlock
<1>2. PICK d \in 0 .. Len(free_queue) :
         /\ Swept \in Seq(Pending) /\ Len(Swept) = Len(free_queue) - d
         /\ \A i \in 1 .. Len(Swept) : Swept[i] = free_queue[i + d]
         /\ \A i \in 1 .. d : ~ (now < free_queue[i].expire)
  BY SweptFacts, Zenon
<1>3. /\ ptr[k].size \in Nat /\ ptr[k].size + 1 <= MaxSize /\ n + 1 = ptr[k].size + 2 /\ off \in Cells /\ off \in Nat
      /\ n \in 0 .. MaxSize /\ n - 1 = ptr[k].size /\ free_queue \in Seq(Pending) /\ Len(free_queue) \in Nat
  <2>1. ptr[k].size \in Nat /\ ptr[k].size < MaxSize
    BY <1>0, BusySize
  <2>2. off \in Cells
    BY <1>1 DEF Places
  <2>3. free_queue \in Seq(Pending) /\ Len(free_queue) \in Nat
    BY DEF TypeOK
  <2>4. /\ ptr[k].size + 1 <= MaxSize /\ n + 1 = ptr[k].size + 2 /\ n \in 0 .. MaxSize
        /\ n - 1 = ptr[k].size /\ off \in Nat
    <3>1. off \in Nat
      BY ONLY <2>2, ConstFacts DEF Cells
    <3>2. \A m \in Nat : m < MaxSize => m + 1 <= MaxSize /\ m + 1 + 1 = m + 2 /\ m + 1 \in 0 .. MaxSize
                                       /\ (m + 1) - 1 = m
      BY ONLY ConstFacts
    <3> QED
      BY <2>1, <3>1, <3>2, Zenon DEF n
  <2> QED
    BY <2>1, <2>2, <2>3, <2>4, Zenon
<1>4. b = Size(k) /\ b \in Nat /\ b >= ptr[k].size + 2
  BY <1>3, BlockSize, Zenon DEF Size
<1>5. off + b <= MemSize /\ \A t \in taken : CellsOf(t) \cap (off .. off + b - 1) = {}
  BY <1>1, Zenon DEF Places
<1>6. ASSUME NEW o \in Lasting(d) PROVE Blk(o) \in taken
  <2>1. o \in Owners /\ Blk(o) \in used /\ CellsOf(Blk(o)) # {}
    BY DEF Lasting, OwnerInv
  <2>2. SUFFICES ASSUME NEW q \in Range(free_queue) \ Range(Swept), q.blk = Blk(o) PROVE FALSE
    BY <2>1
  <2>3. PICK i \in 1 .. Len(free_queue) : free_queue[i] = q
    BY <1>3 DEF Range
  <2>4. i \in 1 .. d
    <3>1. SUFFICES ASSUME i > d PROVE FALSE
      BY <2>3
    <3>2. i - d \in 1 .. Len(Swept) /\ (i - d) + d = i
      BY <1>2, <1>3, <3>1
    <3>3. Swept[i - d] = q
      BY <1>2, <2>3, <3>2
    <3>4. q \in Range(Swept)
      BY <1>2, <3>2, <3>3 DEF Range
    <3> QED
      BY <3>4
  <2>5. <<"queue", i>> \in Owners /\ Blk(<<"queue", i>>) = q.blk
    BY <1>3, <2>3, OwnerForms, SMTT(30) DEF OwnerKinds
  <2>6. o # <<"queue", i>>
    BY <2>4 DEF Lasting
  <2>7. CellsOf(Blk(o)) \cap CellsOf(Blk(<<"queue", i>>)) = {}
    BY <2>1, <2>5, <2>6, Zenon DEF OwnerInv
  <2> QED
    BY <2>1, <2>2, <2>5, <2>7
<1> HIDE DEF taken, b
<1>7. mem' = [c \in Cells |->
                  IF c = off + b - 1 THEN Flag(ptr[k].size + 1)
                  ELSE IF c = off + ptr[k].size THEN Value(k)
                  ELSE IF c \in off .. off + ptr[k].size - 1 THEN mem[ptr[k].off + (c - off)]
                  ELSE mem[c]]
  <2>1. off + n - 1 = off + ptr[k].size /\ off + n - 2 = off + ptr[k].size - 1
    BY <1>3
  <2>2. FlagCell(n, off) = off + b - 1
    BY DEF FlagCell, b
  <2> QED
    BY <1>1, <2>1, <2>2
<1>8. Moved(k, off, d)
  <2>1. \A o \in Lasting(d) : CellsOf(Blk(o)) \cap (off .. off + Size(k) - 1) = {}
    BY <1>4, <1>5, <1>6, Zenon
  <2>2. (\A o \in Lasting(d) : Blk(o) \in used') /\ <<off, Size(k)>> \in used'
    BY <1>1, <1>4, <1>6, Zenon
  <2>3. new' = [new EXCEPT ![k] = off]
    BY <1>1
  <2> QED
    BY <1>0, <1>2, <1>4, <1>5, <1>7, <2>1, <2>2, <2>3, Zenon DEF Moved
<1> QED
  BY <1>3, <1>8

\* The blocks that last and the new one are apart.
LEMMA OwnersMove ==
    ASSUME TypeOK, WriterInv, OwnerInv, NEW k \in Keys, NEW off \in Cells, NEW d \in 0 .. Len(free_queue),
           Moved(k, off, d)
    PROVE  OwnerInv'
<1> DEFINE F(o) == IF o[1] = "queue" THEN <<"queue", o[2] + d>> ELSE o
           mine == <<"new", k>>
<1>0. /\ wpc \in [Keys -> {"idle", "locked", "invalidate", "publish", "value", "size"}]
      /\ free_queue \in Seq(Pending) /\ Len(free_queue) \in Nat /\ DOMAIN free_queue = 1 .. Len(free_queue)
      /\ off \in Nat /\ MemSize \in Nat /\ new \in [Keys -> Nat]
  BY ConstFacts DEF TypeOK, Cells
<1>1. /\ UNCHANGED <<ptr>> /\ new' = [new EXCEPT ![k] = off] /\ wpc[k] = "locked"
      /\ wpc' = [wpc EXCEPT ![k] = IF ptr[k].size = 0 THEN "publish" ELSE "invalidate"]
      /\ Size(k) \in Nat /\ Size(k) >= ptr[k].size + 2 /\ off + Size(k) <= MemSize /\ ptr[k].size \in Nat
  BY SizeFacts, SMTT(30) DEF Moved
<1>2. DOMAIN free_queue' = 1 .. Len(free_queue) - d /\ \A i \in 1 .. Len(free_queue) - d : free_queue'[i] = free_queue[i + d]
  <2>1. free_queue' \in Seq(Pending) /\ Len(free_queue') = Len(free_queue) - d
        /\ \A i \in 1 .. Len(free_queue') : free_queue'[i] = free_queue[i + d]
    BY DEF Moved
  <2> QED
    BY <2>1
<1>3. \A j \in Keys : j # k => (Filling(j)' <=> Filling(j)) /\ NewBlk(j)' = NewBlk(j)
  BY <1>0, <1>1, Zenon DEF Filling, NewBlk
<1>4. ~ Filling(k) /\ mine \in Owners' /\ Blk(mine)' = <<off, Size(k)>>
  <2>1. Filling(k)' /\ ~ Filling(k)
    BY <1>0, <1>1 DEF Filling
  <2>2. NewBlk(k)' = <<off, Size(k)>>
    BY <1>0, <1>1, Zenon DEF NewBlk, Size
  <2> QED
    BY <2>1, <2>2, OwnerForms DEF OwnerKinds
<1>5. ASSUME NEW o \in Owners', o # mine PROVE F(o) \in Lasting(d) /\ Blk(o)' = Blk(F(o))
  <2>1. CASE \E j \in Keys : o = <<"key", j>> /\ ptr'[j].size # 0
    <3>1. PICK j \in Keys : o = <<"key", j>> /\ ptr[j].size # 0
      BY <1>1, <2>1, Zenon
    <3>2. F(o) = o /\ o \in Owners
      BY <3>1, OwnerForms, Zenon DEF OwnerKinds
    <3>3. Blk(o)' = Blk(o)
      BY <1>1, <3>1, OwnerForms DEF OwnerKinds, BlockOf
    <3> QED
      BY <3>1, <3>2, <3>3 DEF Lasting
  <2>2. CASE \E j \in Keys : o = <<"new", j>> /\ Filling(j)'
    <3>1. PICK j \in Keys : o = <<"new", j>> /\ Filling(j)'
      BY <2>2, Zenon
    <3>2. F(o) = o /\ o \in Owners /\ Blk(o)' = Blk(o)
      BY <1>3, <1>5, <3>1, OwnerForms DEF OwnerKinds
    <3> QED
      BY <3>1, <3>2 DEF Lasting
  <2>3. CASE \E i \in DOMAIN free_queue' : o = <<"queue", i>>
    <3>1. PICK i \in 1 .. Len(free_queue) - d : o = <<"queue", i>>
      BY <1>2, <2>3
    <3>2. i + d \in 1 .. Len(free_queue) /\ i + d \notin 1 .. d
      BY <1>0, <3>1
    <3>3. F(o) = <<"queue", i + d>> /\ F(o) \in Owners /\ Blk(F(o)) = free_queue[i + d].blk
      BY <1>0, <3>1, <3>2, OwnerForms, Zenon DEF OwnerKinds
    <3>4. Blk(o)' = free_queue'[i].blk
      BY <1>2, <3>1, OwnerForms, Zenon DEF OwnerKinds
    <3> QED
      BY <1>2, <3>2, <3>3, <3>4 DEF Lasting
  <2> QED
    BY <2>1, <2>2, <2>3, OwnerForms DEF OwnerKinds
<1>6. ASSUME NEW o \in Owners', NEW p \in Owners', o # p PROVE F(o) # F(p)
  <2>1. \A q \in Owners' : q = <<q[1], q[2]>> /\ (q[1] = "queue" => q[2] \in Nat)
    BY <1>0, <1>2, OwnerForms DEF OwnerKinds
  <2>2. CASE o[1] = "queue" /\ p[1] = "queue"
    BY <1>0, <1>6, <2>1, <2>2
  <2>3. CASE ~ (o[1] = "queue" /\ p[1] = "queue")
    BY <1>6, <2>1, <2>3
  <2> QED
    BY <2>2, <2>3
<1> HIDE DEF F
<1>7. CellsOf(<<off, Size(k)>>) = off .. off + Size(k) - 1
  BY DEF CellsOf
<1>8. ASSUME NEW o \in Owners'
      PROVE  Blk(o)' \in used' /\ CellsOf(Blk(o)') # {} /\ CellsOf(Blk(o)') \subseteq Cells
  <2>1. CASE o = mine
    <3>1. off \in off .. off + Size(k) - 1 /\ off .. off + Size(k) - 1 \subseteq Cells
      <4>1. Size(k) \in Nat /\ Size(k) >= 1 /\ off + Size(k) <= MemSize /\ off \in Nat /\ MemSize \in Nat
        BY <1>0, <1>1
      <4>2. \A c \in off .. off + Size(k) - 1 : c \in 0 .. MemSize - 1
        BY <4>1
      <4>3. off \in off .. off + Size(k) - 1
        BY <4>1
      <4> QED
        BY <4>2, <4>3 DEF Cells
    <3> QED
      BY <1>4, <1>7, <2>1, <3>1, Zenon DEF Moved
  <2>2. CASE o # mine
    <3>1. F(o) \in Lasting(d) /\ Blk(o)' = Blk(F(o))
      BY <1>5, <2>2, Zenon
    <3>2. F(o) \in Owners /\ Blk(F(o)) \in used'
      BY <3>1 DEF Lasting, Moved
    <3> QED
      BY <3>1, <3>2 DEF OwnerInv
  <2> QED
    BY <2>1, <2>2
<1>9. ASSUME NEW o \in Owners', NEW p \in Owners', o # p
      PROVE  CellsOf(Blk(o)') \cap CellsOf(Blk(p)') = {}
  <2>1. \A q \in Owners' : q # mine => CellsOf(Blk(q)') \cap CellsOf(Blk(mine)') = {}
    BY <1>4, <1>5, <1>7, Zenon DEF Moved
  <2>2. CASE o # mine /\ p # mine
    <3>1. F(o) \in Owners /\ F(p) \in Owners /\ F(o) # F(p) /\ Blk(o)' = Blk(F(o)) /\ Blk(p)' = Blk(F(p))
      BY <1>5, <1>6, <1>9, <2>2 DEF Lasting
    <3> QED
      BY <3>1 DEF OwnerInv
  <2> QED
    BY <1>9, <2>1, <2>2
<1> QED
  BY <1>8, <1>9 DEF OwnerInv, CellsOf

-----------------------------------------------------------------------------
(* What a writer leaves alone.                                             *)

\* The cells a pointer is about are in its block; the flag is the last one.
LEMMA PtrCells ==
    ASSUME NEW v \in Ptrs, v.size <= MaxSize
    PROVE  /\ v.size \in Nat /\ v.off \in Nat /\ blksz(v.size + 1) \in Nat /\ blksz(v.size + 1) >= v.size + 1
           /\ \A i \in 1 .. v.size : v.off + i - 1 \in CellsOf(BlockOf(v)) /\ v.off + i - 1 # FlagCell(v.size, v.off)
           /\ FlagCell(v.size, v.off) \in CellsOf(BlockOf(v))
<1>1. v.size \in 0 .. MaxSize /\ v.off \in Nat /\ v.size \in Nat
  BY ConstFacts DEF Ptrs
<1>2. blksz(v.size + 1) \in Nat /\ blksz(v.size + 1) >= v.size + 1
  BY <1>1, BlockSize
<1>3. CellsOf(BlockOf(v)) = v.off .. v.off + blksz(v.size + 1) - 1 /\ FlagCell(v.size, v.off) = v.off + blksz(v.size + 1) - 1
  BY Zenon DEF CellsOf, BlockOf, FlagCell
<1> QED
  BY <1>1, <1>2, <1>3

\* With room in the block of k, one more edge fits before the flag, which stays
\* where it is.
LEMMA RoomFlag ==
    ASSUME TypeOK, WriterInv, NEW k \in Keys, wpc[k] # "idle", Room(k)
    PROVE  /\ FlagCell(ptr[k].size + 1, ptr[k].off) = FlagCell(ptr[k].size, ptr[k].off)
           /\ ptr[k].off + ptr[k].size \in CellsOf(BlockOf(ptr[k]))
           /\ ptr[k].off + ptr[k].size # FlagCell(ptr[k].size, ptr[k].off)
           /\ blksz(ptr[k].size + 2) = blksz(ptr[k].size + 1)
<1>1. /\ ptr[k].size \in Nat /\ ptr[k].off \in Nat /\ ptr[k].size + 1 <= MaxSize
      /\ blksz(ptr[k].size + 1) \in Nat
  BY BusySize, SizeFacts
<1>2. blksz(ptr[k].size + 1) - 1 >= ptr[k].size + 1
  BY DEF Room
<1>3. blksz(ptr[k].size + 2) = blksz(ptr[k].size + 1) /\ ptr[k].size + 1 + 1 = ptr[k].size + 2
  BY <1>1, <1>2, RoomSame
<1>4. CellsOf(BlockOf(ptr[k])) = ptr[k].off .. ptr[k].off + blksz(ptr[k].size + 1) - 1
  BY DEF CellsOf, BlockOf
<1>5. FlagCell(ptr[k].size, ptr[k].off) = ptr[k].off + blksz(ptr[k].size + 1) - 1
  BY DEF FlagCell
<1>6. FlagCell(ptr[k].size + 1, ptr[k].off) = ptr[k].off + blksz(ptr[k].size + 1) - 1
  BY <1>3 DEF FlagCell
<1>7. ptr[k].off + ptr[k].size < ptr[k].off + blksz(ptr[k].size + 1) - 1
  BY <1>1, <1>2
<1>8. ptr[k].off + ptr[k].size \in CellsOf(BlockOf(ptr[k]))
  BY <1>1, <1>4, <1>7
<1>9. ptr[k].off + ptr[k].size # FlagCell(ptr[k].size, ptr[k].off)
  BY <1>1, <1>5, <1>7
<1> QED
  BY <1>3, <1>5, <1>6, <1>8, <1>9, Zenon

\* An insertion of k changes ptr, wpc and new of k only, and the sizes grow.
LEMMA OthersKept ==
    ASSUME TypeOK, NEW k \in Keys, InsertKey(k) \/ InsertStep(k)
    PROVE  /\ UNCHANGED <<cache, rd, now>>
           /\ \A j \in Keys \ {k} : ptr'[j] = ptr[j] /\ wpc'[j] = wpc[j] /\ new'[j] = new[j]
           /\ \A j \in Keys : ptr[j].size <= ptr'[j].size
<1>0. /\ wpc \in [Keys -> {"idle", "locked", "invalidate", "publish", "value", "size"}] /\ ptr \in [Keys -> Ptrs]
      /\ new \in [Keys -> Nat] /\ \A j \in Keys : ptr[j].size \in Nat
  BY SizeFacts DEF TypeOK
<1>1. UNCHANGED <<cache, rd, now>>
  BY DEF InsertKey, InsertStep, NewBlock, InvalidateOld, Publish, InPlaceFlag, InPlaceValue, InPlaceSize
<1>2. \A j \in Keys \ {k} : wpc'[j] = wpc[j]
  BY <1>0 DEF InsertKey, InsertStep, NewBlock, InvalidateOld, Publish, InPlaceFlag, InPlaceValue, InPlaceSize
<1>3. \A j \in Keys \ {k} : new'[j] = new[j]
  <2>1. CASE NewBlock(k)
    BY <1>0, <2>1 DEF NewBlock
  <2>2. CASE ~ NewBlock(k)
    BY <2>2, Zenon DEF InsertKey, InsertStep, InvalidateOld, Publish, InPlaceFlag, InPlaceValue, InPlaceSize
  <2> QED
    BY <2>1, <2>2, Zenon
<1>4. \A j \in Keys : (j # k => ptr'[j] = ptr[j]) /\ ptr[j].size <= ptr'[j].size
  <2>1. CASE Publish(k)
    BY <1>0, <2>1 DEF Publish
  <2>2. CASE InPlaceSize(k)
    BY <1>0, <2>2 DEF InPlaceSize, Ptrs
  <2>3. CASE ~ Publish(k) /\ ~ InPlaceSize(k)
    <3>1. ptr' = ptr
      BY <2>3, ZenonT(30) DEF InsertKey, InsertStep, NewBlock, InvalidateOld, InPlaceFlag, InPlaceValue
    <3> QED
      BY <1>0, <3>1
  <2> QED
    BY <2>1, <2>2, <2>3, Zenon
<1> QED
  BY <1>1, <1>2, <1>3, <1>4, Zenon

\* A block of the queue whose lease has not ended stays in the queue.
LEMMA QueueKept ==
    ASSUME TypeOK, WriterInv, OwnerInv, NEW k \in Keys, InsertKey(k) \/ InsertStep(k),
           NEW i \in DOMAIN free_queue, now < free_queue[i].expire
    PROVE  \E l \in DOMAIN free_queue' : free_queue'[l] = free_queue[i]
<1>0. free_queue \in Seq(Pending) /\ Len(free_queue) \in Nat /\ i \in 1 .. Len(free_queue)
  BY DEF TypeOK
<1>1. CASE NewBlock(k)
  <2>1. PICK off \in Cells, d \in 0 .. Len(free_queue) : Moved(k, off, d)
    BY <1>1, NewBlockEffect, Zenon
  <2>2. /\ free_queue' \in Seq(Pending) /\ Len(free_queue') = Len(free_queue) - d
        /\ \A l \in 1 .. Len(free_queue') : free_queue'[l] = free_queue[l + d]
        /\ i \notin 1 .. d
    BY <2>1 DEF Moved
  <2>3. i - d \in 1 .. Len(free_queue') /\ (i - d) + d = i
    BY <1>0, <2>2
  <2>4. i - d \in DOMAIN free_queue' /\ free_queue'[i - d] = free_queue[i]
    <3>1. DOMAIN free_queue' = 1 .. Len(free_queue')
      BY <2>2
    <3>2. PICK l : l = i - d
      OBVIOUS
    <3>3. l \in 1 .. Len(free_queue') /\ l + d = i
      BY <2>3, <3>2
    <3>4. free_queue'[l] = free_queue[i]
      BY <2>2, <3>3
    <3> QED
      BY <3>1, <3>2, <3>3, <3>4
  <2> QED
    BY <2>4
<1>2. CASE Publish(k)
  <2> DEFINE e == [blk |-> BlockOf(ptr[k]), expire |-> now + Lease]
  <2>1. free_queue' = free_queue \/ free_queue' = Append(free_queue, e)
    BY <1>2 DEF Publish
  <2>2. e \in Pending
    <3>1. now \in Nat
      BY DEF TypeOK
    <3> QED
      BY <3>1, SizeFacts, ConstFacts DEF Pending
  <2> HIDE DEF e
  <2> QED
    BY <1>0, <2>1, <2>2
<1>3. CASE ~ NewBlock(k) /\ ~ Publish(k)
  BY <1>3, Zenon DEF InsertKey, InsertStep, InvalidateOld, InPlaceFlag, InPlaceValue, InPlaceSize
<1> QED
  BY <1>1, <1>2, <1>3

\* The writes of an insertion in place, and of InvalidateOld, are to the block
\* of the key.
LEMMA WritesOwn ==
    ASSUME TypeOK, WriterInv, OwnerInv, NEW k \in Keys, InsertKey(k) \/ InsertStep(k), ~ NewBlock(k)
    PROVE  \A c \in Cells : mem'[c] = mem[c] \/ (<<"key", k>> \in Owners /\ c \in CellsOf(Blk(<<"key", k>>)))
<1>0. mem = [c \in Cells |-> mem[c]]
  BY DEF TypeOK
<1>1. CASE InsertKey(k) \/ Publish(k) \/ InPlaceSize(k)
  BY <1>1, Zenon DEF InsertKey, Publish, InPlaceSize
<1>2. CASE InvalidateOld(k) \/ InPlaceFlag(k) \/ InPlaceValue(k)
  <2>1. ptr[k].size # 0
    BY <1>2, ZenonT(30) DEF InvalidateOld, InPlaceFlag, InPlaceValue, WriterInv, Room
  <2>2. <<"key", k>> \in Owners /\ Blk(<<"key", k>>) = BlockOf(ptr[k])
    BY <2>1, OwnerForms, Zenon DEF OwnerKinds
  <2>3. PICK v \in Ptrs : v = ptr[k]
    BY SizeFacts
  <2>4. v.size <= MaxSize
    BY <2>3 DEF TypeOK
  <2>5. CASE InvalidateOld(k)
    <3>1. FlagCell(ptr[k].size, ptr[k].off) \in CellsOf(BlockOf(ptr[k]))
      BY <2>3, <2>4, PtrCells
    <3> QED
      BY <1>0, <2>2, <2>5, <3>1, Zenon DEF InvalidateOld
  <2>6. CASE InPlaceFlag(k)
    <3>1. FlagCell(ptr[k].size + 1, ptr[k].off) = FlagCell(ptr[k].size, ptr[k].off)
      BY <2>6, RoomFlag DEF InPlaceFlag
    <3>2. FlagCell(ptr[k].size, ptr[k].off) \in CellsOf(BlockOf(ptr[k]))
      BY <2>3, <2>4, PtrCells
    <3> QED
      BY <1>0, <2>2, <2>6, <3>1, <3>2, Zenon DEF InPlaceFlag
  <2>7. CASE InPlaceValue(k)
    <3>1. ptr[k].off + ptr[k].size \in CellsOf(BlockOf(ptr[k]))
      BY <2>7, RoomFlag, ZenonT(30) DEF InPlaceValue, WriterInv
    <3> QED
      BY <1>0, <2>2, <2>7, <3>1 DEF InPlaceValue
  <2> QED
    BY <1>2, <2>5, <2>6, <2>7
<1> QED
  BY <1>1, <1>2 DEF InsertStep

\* The new block is apart from the blocks that last.
LEMMA MovedKeeps ==
    ASSUME OwnerInv, NEW k \in Keys, NEW off, NEW d, Moved(k, off, d), NEW o \in Lasting(d), ptr[k].size \in Nat, off \in Nat
    PROVE  \A c \in CellsOf(Blk(o)) : mem'[c] = mem[c]
<1>1. /\ Size(k) \in Nat /\ Size(k) >= ptr[k].size + 2
      /\ CellsOf(Blk(o)) \cap (off .. off + Size(k) - 1) = {}
      /\ mem' = [c \in Cells |->
                  IF c = off + Size(k) - 1 THEN Flag(ptr[k].size + 1)
                  ELSE IF c = off + ptr[k].size THEN Value(k)
                  ELSE IF c \in off .. off + ptr[k].size - 1 THEN mem[ptr[k].off + (c - off)]
                  ELSE mem[c]]
  BY Zenon DEF Moved
<1>2. CellsOf(Blk(o)) \subseteq Cells
  BY DEF OwnerInv, Lasting
<1>3. ASSUME NEW c \in CellsOf(Blk(o)) PROVE c # off + Size(k) - 1 /\ c # off + ptr[k].size /\ c \notin off .. off + ptr[k].size - 1
  <2>1. c \notin off .. off + Size(k) - 1
    BY <1>1, Zenon
  <2>2. /\ off + Size(k) - 1 \in off .. off + Size(k) - 1 /\ off + ptr[k].size \in off .. off + Size(k) - 1
        /\ off .. off + ptr[k].size - 1 \subseteq off .. off + Size(k) - 1
    <3>1. PICK n \in Nat, z \in Nat : n = ptr[k].size /\ z = Size(k) /\ z >= n + 2
      BY <1>1, Zenon
    <3>2. off + z - 1 \in off .. off + z - 1 /\ off + n \in off .. off + z - 1
      BY ONLY <3>1, off \in Nat
    <3>3. off .. off + n - 1 \subseteq off .. off + z - 1
      BY ONLY <3>1, off \in Nat
    <3> QED
      BY <3>1, <3>2, <3>3, Zenon
  <2> QED
    BY <2>1, <2>2, Zenon
<1> QED
  BY <1>1, <1>2, <1>3, ZenonT(30)

\* No insertion writes in the block of another owner, unless its lease has
\* ended.
LEMMA CellsKept ==
    ASSUME TypeOK, WriterInv, OwnerInv, NEW k \in Keys, InsertKey(k) \/ InsertStep(k),
           NEW o \in Owners, o # <<"key", k>>, o[1] = "queue" => now < free_queue[o[2]].expire
    PROVE  \A c \in CellsOf(Blk(o)) : mem'[c] = mem[c]
<1>1. CASE NewBlock(k)
  <2>1. PICK off \in Cells, d \in 0 .. Len(free_queue) : Moved(k, off, d)
    BY <1>1, NewBlockEffect, Zenon
  <2>2. o \in Lasting(d)
    BY <2>1 DEF Lasting, Moved
  <2>3. ptr[k].size \in Nat /\ off \in Nat
    <3>1. ptr[k].size \in 0 .. MaxSize
      BY SizeFacts, Zenon
    <3> QED
      BY ONLY <3>1, ConstFacts, off \in Cells DEF Cells
  <2> QED
    BY <2>1, <2>2, <2>3, MovedKeeps, Zenon
<1>2. CASE ~ NewBlock(k)
  BY <1>2, WritesOwn, Zenon DEF OwnerInv
<1> QED
  BY <1>1, <1>2, Zenon

-----------------------------------------------------------------------------
(* What is in the blocks.                                                  *)

\* The edges of the other keys, and of their insertions.
LEMMA ContentOther ==
    ASSUME TypeOK, WriterInv, OwnerInv, ContentInv, NEW k \in Keys, InsertKey(k) \/ InsertStep(k),
           NEW j \in Keys, j # k
    PROVE  KeyAt(j)' /\ NewAt(j)'
<1>1. ptr'[j] = ptr[j] /\ wpc'[j] = wpc[j] /\ new'[j] = new[j]
  BY OthersKept
<1>2. KeyAt(j) /\ NewAt(j)
  BY Zenon DEF ContentInv
<1>3. PICK v \in Ptrs : v = ptr[j]
  BY SizeFacts
<1>4. v.size <= MaxSize
  BY <1>3 DEF TypeOK
<1>5. KeyAt(j)'
  <2>1. SUFFICES ASSUME v.size # 0
                 PROVE  /\ Holds(j, v.off, v.size)' /\ (wpc[j] = "size" => mem'[v.off + v.size] = <<j, v.size + 1>>)
                        /\ mem'[FlagCell(v.size, v.off)] = KeyFlag(j)
    <3>1. KeyFlag(j)' = KeyFlag(j) /\ Value(j)' = <<j, v.size + 1>> /\ ptr'[j] = v /\ wpc'[j] = wpc[j]
      BY <1>1, <1>3, ZenonT(30) DEF KeyFlag, Value
    <3> QED
      BY <3>1, Zenon DEF KeyAt, Holds
  <2>2. <<"key", j>> \in Owners /\ Blk(<<"key", j>>) = BlockOf(v) /\ <<"key", j>> # <<"key", k>>
    BY <1>3, <2>1, OwnerForms, Zenon DEF OwnerKinds
  <2>3. \A c \in CellsOf(BlockOf(v)) : mem'[c] = mem[c]
    BY <2>2, CellsKept, Zenon
  <2>4. /\ Holds(j, v.off, v.size) /\ (wpc[j] = "size" => mem[v.off + v.size] = <<j, v.size + 1>>)
        /\ mem[FlagCell(v.size, v.off)] = KeyFlag(j)
    BY <1>2, <1>3, <2>1, Zenon DEF KeyAt, Value
  <2>5. wpc[j] = "size" => v.off + v.size \in CellsOf(BlockOf(v))
    BY <1>3, RoomFlag, Zenon DEF WriterInv
  <2> QED
    BY <1>4, <2>3, <2>4, <2>5, PtrCells, Zenon DEF Holds
<1>6. NewAt(j)'
  <2>1. PICK w \in Ptrs : w = [size |-> v.size + 1, off |-> new[j]]
    <3>1. new[j] \in Nat
      BY DEF TypeOK
    <3>2. [size |-> v.size + 1, off |-> new[j]] \in Ptrs
      BY <3>1 DEF Ptrs
    <3> QED
      BY <3>2
  <2>2. SUFFICES ASSUME Filling(j)
                 PROVE  Holds(j, w.off, w.size)' /\ mem'[FlagCell(w.size, w.off)] = Flag(w.size)
    BY <1>1, <1>3, <2>1 DEF NewAt, Filling, Holds
  <2>3. w.size <= MaxSize
    <3>1. wpc[j] # "idle"
      BY <2>2, Zenon DEF Filling
    <3>2. ptr[j].size < MaxSize /\ ptr[j].size \in Nat /\ MaxSize \in Nat
      BY <3>1, BusySize
    <3>3. w.size = v.size + 1
      BY <2>1, Zenon
    <3> QED
      BY <1>3, <3>2, <3>3
  <2>4. <<"new", j>> \in Owners /\ Blk(<<"new", j>>) = NewBlk(j) /\ NewBlk(j) = BlockOf(w)
    <3>1. v.size + 1 + 1 = v.size + 2
      BY DEF Ptrs
    <3> QED
      BY <1>3, <2>1, <2>2, <3>1, OwnerForms, Zenon DEF OwnerKinds, NewBlk, BlockOf
  <2>5. \A c \in CellsOf(BlockOf(w)) : mem'[c] = mem[c]
    BY <2>4, CellsKept, Zenon
  <2>6. Holds(j, w.off, w.size) /\ mem[FlagCell(w.size, w.off)] = Flag(w.size)
    BY <1>2, <1>3, <2>1, <2>2, ZenonT(30) DEF NewAt
  <2> QED
    BY <2>3, <2>5, <2>6, PtrCells, Zenon DEF Holds
<1> QED
  BY <1>5, <1>6

\* The block of a key with edges.
LEMMA KeyBlock ==
    ASSUME OwnerInv, NEW k \in Keys, ptr[k].size # 0
    PROVE  /\ <<"key", k>> \in Owners /\ Blk(<<"key", k>>) = BlockOf(ptr[k])
           /\ CellsOf(BlockOf(ptr[k])) \subseteq Cells
<1>1. <<"key", k>> \in Owners /\ Blk(<<"key", k>>) = BlockOf(ptr[k])
  BY OwnerForms, ZenonT(30) DEF OwnerKinds
<1> QED
  BY <1>1, ZenonT(30) DEF OwnerInv

\* What KeyAt and NewAt say of a key whose pointer is v, now and after a step.
LEMMA ContentForms ==
    ASSUME NEW k \in Keys, NEW v \in Ptrs, v.size # 0
    PROVE  /\ ptr[k] = v => (KeyAt(k) <=> /\ Holds(k, v.off, v.size)
                                          /\ wpc[k] = "size" => mem[v.off + v.size] = <<k, v.size + 1>>
                                          /\ mem[FlagCell(v.size, v.off)] = KeyFlag(k))
           /\ ptr'[k] = v => (KeyAt(k)' <=> /\ Holds(k, v.off, v.size)'
                                            /\ wpc'[k] = "size" => mem'[v.off + v.size] = <<k, v.size + 1>>
                                            /\ mem'[FlagCell(v.size, v.off)] = KeyFlag(k)')
BY Zenon DEF KeyAt, Value, Holds

\* The key whose insertion takes a step, in its block ...
LEMMA ContentInPlace ==
    ASSUME TypeOK, WriterInv, OwnerInv, ContentInv, NEW k \in Keys,
           InsertKey(k) \/ InPlaceFlag(k) \/ InPlaceValue(k) \/ InPlaceSize(k)
    PROVE  KeyAt(k)' /\ NewAt(k)'
<1>0. /\ wpc \in [Keys -> {"idle", "locked", "invalidate", "publish", "value", "size"}]
      /\ mem = [c \in Cells |-> mem[c]] /\ ptr \in [Keys -> Ptrs]
  BY DEF TypeOK
<1>1. KeyAt(k)
  BY Zenon DEF ContentInv
<1>2. PICK v \in Ptrs : v = ptr[k]
  BY SizeFacts
<1>3. v.size <= MaxSize
  BY <1>2 DEF TypeOK
<1>4. NewAt(k)'
  <2>1. wpc'[k] \in {"idle", "locked", "value", "size"}
    BY <1>0 DEF InsertKey, InPlaceFlag, InPlaceValue, InPlaceSize
  <2> QED
    BY <2>1 DEF NewAt, Filling
<1>5. v.size # 0 => CellsOf(BlockOf(v)) \subseteq Cells
  BY <1>2, KeyBlock, Zenon
<1>6. KeyAt(k)'
  <2>1. CASE InsertKey(k)
    <3>1. mem' = mem /\ ptr'[k] = v /\ wpc[k] = "idle" /\ wpc'[k] = "locked"
      BY <1>0, <1>2, <2>1 DEF InsertKey
    <3>2. KeyFlag(k)' = Flag(v.size) /\ KeyFlag(k) = Flag(v.size)
      BY <1>2, <3>1, Zenon DEF KeyFlag
    <3> QED
      BY <1>1, <1>2, <3>1, <3>2, Zenon DEF KeyAt, Holds
  <2>2. CASE InPlaceFlag(k)
    <3>1. /\ wpc'[k] = "value" /\ ptr'[k] = v /\ v.size # 0
          /\ FlagCell(v.size + 1, v.off) = FlagCell(v.size, v.off)
      BY <1>0, <1>2, <2>2, RoomFlag DEF InPlaceFlag, Room
    <3>2. mem' = [mem EXCEPT ![FlagCell(v.size, v.off)] = Flag(v.size + 1)]
      BY <1>2, <2>2, <3>1, ZenonT(30) DEF InPlaceFlag
    <3>3. KeyFlag(k)' = Flag(v.size + 1)
      BY <3>1, ZenonT(30) DEF KeyFlag
    <3>4. Holds(k, v.off, v.size)
      BY <1>1, <1>2, <3>1, ContentForms, Zenon
    <3>5. FlagCell(v.size, v.off) \in Cells
      BY <1>3, <1>5, <3>1, PtrCells, Zenon
    <3>6. Holds(k, v.off, v.size)'
      BY <1>0, <1>3, <1>5, <3>1, <3>2, <3>4, PtrCells, ZenonT(30) DEF Holds
    <3> QED
      BY <1>0, <3>1, <3>2, <3>3, <3>5, <3>6, ContentForms, Zenon
  <2>3. CASE InPlaceValue(k)
    <3>1. /\ wpc[k] = "value" /\ wpc'[k] = "size" /\ ptr'[k] = v /\ v.size # 0
          /\ v.off + v.size \in CellsOf(BlockOf(v)) /\ v.off + v.size # FlagCell(v.size, v.off)
      BY <1>0, <1>2, <2>3, RoomFlag DEF InPlaceValue, Room, WriterInv
    <3>2. mem' = [mem EXCEPT ![v.off + v.size] = <<k, v.size + 1>>]
      BY <1>2, <2>3, ZenonT(30) DEF InPlaceValue, Value
    <3>3. KeyFlag(k)' = Flag(v.size + 1) /\ KeyFlag(k) = Flag(v.size + 1)
      BY <1>2, <3>1, ZenonT(30) DEF KeyFlag
    <3>4. Holds(k, v.off, v.size) /\ mem[FlagCell(v.size, v.off)] = Flag(v.size + 1)
      BY <1>1, <1>2, <3>1, <3>3, ContentForms, ZenonT(30)
    <3>5. /\ FlagCell(v.size, v.off) \in Cells /\ v.off + v.size \in Cells
          /\ v.size \in Nat /\ v.off \in Nat /\ \A i \in 1 .. v.size : v.off + i - 1 \in Cells
      BY <1>3, <1>5, <3>1, PtrCells, Zenon
    <3>6. \A i \in 1 .. v.size : v.off + i - 1 # v.off + v.size
      BY <3>5
    <3>7. Holds(k, v.off, v.size)'
      BY <1>0, <3>2, <3>4, <3>5, <3>6, ZenonT(30) DEF Holds
    <3>8. mem'[FlagCell(v.size, v.off)] = KeyFlag(k)' /\ mem'[v.off + v.size] = <<k, v.size + 1>>
      BY <1>0, <3>1, <3>2, <3>3, <3>4, <3>5
    <3> QED
      BY <3>1, <3>7, <3>8, ContentForms, Zenon
  <2>4. CASE InPlaceSize(k)
    <3>1. /\ wpc[k] = "size" /\ wpc'[k] = "idle" /\ mem' = mem /\ v.size # 0 /\ v.size \in Nat /\ v.off \in Nat
          /\ FlagCell(v.size + 1, v.off) = FlagCell(v.size, v.off)
      <4>1. wpc[k] = "size" /\ wpc'[k] = "idle" /\ mem' = mem
        BY <1>0, <2>4 DEF InPlaceSize
      <4>2. Room(k) /\ v.size # 0
        BY <1>2, <4>1, Zenon DEF WriterInv, Room
      <4> QED
        BY <1>2, <1>3, <4>1, <4>2, RoomFlag, PtrCells, Zenon
    <3>2. PICK w \in Ptrs : w = ptr'[k] /\ w.size = v.size + 1 /\ w.off = v.off
      BY <1>0, <1>2, <2>4 DEF InPlaceSize, Ptrs
    <3>3. KeyFlag(k)' = Flag(w.size) /\ KeyFlag(k) = Flag(w.size)
      BY <1>2, <3>1, <3>2, Zenon DEF KeyFlag
    <3>4. /\ Holds(k, v.off, v.size) /\ mem[FlagCell(v.size, v.off)] = Flag(w.size)
          /\ mem[v.off + v.size] = <<k, v.size + 1>>
      BY <1>1, <1>2, <3>1, <3>3, ContentForms, ZenonT(30)
    <3>5. Holds(k, w.off, w.size)'
      <4>1. SUFFICES ASSUME NEW i \in 1 .. v.size + 1 PROVE mem[v.off + i - 1] = <<k, i>>
        BY <3>1, <3>2, Zenon DEF Holds
      <4>2. i \in 1 .. v.size \/ (i = v.size + 1 /\ v.off + i - 1 = v.off + v.size)
        BY ONLY <3>1, <4>1
      <4> QED
        BY <3>4, <4>2, Zenon DEF Holds
    <3>6. w \in Ptrs /\ w.size # 0 /\ ptr'[k] = w /\ wpc'[k] # "size"
      <4>1. v.size \in Nat
        BY DEF Ptrs
      <4> QED
        BY <3>1, <3>2, <4>1
    <3>7. mem'[FlagCell(w.size, w.off)] = KeyFlag(k)'
      BY <3>1, <3>2, <3>3, <3>4, Zenon
    <3> QED
      BY <3>5, <3>6, <3>7, ContentForms, Zenon
  <2> QED
    BY <2>1, <2>2, <2>3, <2>4
<1> QED
  BY <1>4, <1>6

\* ... or with a new block.
LEMMA ContentNewBlock ==
    ASSUME TypeOK, WriterInv, OwnerInv, ContentInv, NEW k \in Keys, NewBlock(k)
    PROVE  KeyAt(k)' /\ NewAt(k)'
<1>0. wpc \in [Keys -> {"idle", "locked", "invalidate", "publish", "value", "size"}] /\ new \in [Keys -> Nat]
  BY DEF TypeOK
<1>1. PICK off \in Cells, d \in 0 .. Len(free_queue) : Moved(k, off, d)
  BY NewBlockEffect
<1>2. PICK v \in Ptrs : v = ptr[k]
  BY SizeFacts
<1>3. v.size <= MaxSize /\ v.size \in Nat /\ v.off \in Nat /\ off \in Nat
  BY <1>2, SizeFacts DEF Cells
<1>4. ptr'[k] = v /\ wpc[k] = "locked" /\ wpc'[k] = (IF v.size = 0 THEN "publish" ELSE "invalidate") /\ new'[k] = off
  BY <1>0, <1>1, <1>2 DEF Moved
<1>5. v.size # 0 => Holds(k, v.off, v.size) /\ mem[FlagCell(v.size, v.off)] = Flag(v.size)
  <2>1. SUFFICES ASSUME v.size # 0 PROVE Holds(k, v.off, v.size) /\ mem[FlagCell(v.size, v.off)] = Flag(v.size)
    OBVIOUS
  <2>2. KeyAt(k) /\ KeyFlag(k) = Flag(v.size)
    BY <1>2, <1>4, Zenon DEF ContentInv, KeyFlag
  <2> QED
    BY <1>2, <2>1, <2>2, ContentForms, Zenon
<1>6. KeyAt(k)'
  <2>1. SUFFICES ASSUME v.size # 0 PROVE KeyAt(k)'
    BY <1>4, ZenonT(30) DEF KeyAt
  <2>2. <<"key", k>> \in Lasting(d) /\ Blk(<<"key", k>>) = BlockOf(v)
    BY <1>2, <2>1, KeyBlock, Zenon DEF Lasting
  <2>3. \A c \in CellsOf(BlockOf(v)) : mem'[c] = mem[c]
    BY <1>1, <1>2, <1>3, <2>2, MovedKeeps, ZenonT(30)
  <2>4. KeyFlag(k)' = Flag(v.size)
    BY <1>4, <2>1, Zenon DEF KeyFlag
  <2>5. Holds(k, v.off, v.size)' /\ mem'[FlagCell(v.size, v.off)] = Flag(v.size)
    BY <1>3, <1>5, <2>1, <2>3, PtrCells, Zenon DEF Holds
  <2> QED
    BY <1>4, <2>1, <2>4, <2>5, ContentForms, ZenonT(30)
<1>7. NewAt(k)'
  <2>1. PICK z \in Nat : z = Size(k)
    BY <1>1, Zenon DEF Moved
  <2>2. /\ z >= v.size + 2 /\ off + z <= MemSize
        /\ mem' = [c \in Cells |->
                  IF c = off + z - 1 THEN Flag(v.size + 1)
                  ELSE IF c = off + v.size THEN <<k, v.size + 1>>
                  ELSE IF c \in off .. off + v.size - 1 THEN mem[v.off + (c - off)]
                  ELSE mem[c]]
    BY <1>1, <1>2, <2>1, Zenon DEF Moved, Value
  <2>3. \A i \in 1 .. v.size + 1 : off + i - 1 \in Cells /\ off + i - 1 # off + z - 1
    <3>1. z \in Nat /\ z >= v.size + 2 /\ off + z <= MemSize
      BY <2>1, <2>2
    <3>2. \A i \in 1 .. v.size + 1 : off + i - 1 \in 0 .. MemSize - 1 /\ off + i - 1 # off + z - 1
      BY <1>3, <3>1, ConstFacts
    <3> QED
      BY <3>2, Zenon DEF Cells
  <2>4. off + z - 1 \in Cells
    <3>1. z \in Nat /\ z >= v.size + 2 /\ off + z <= MemSize
      BY <2>1, <2>2
    <3>2. off + z - 1 \in 0 .. MemSize - 1
      BY <1>3, <3>1, ConstFacts
    <3> QED
      BY <3>2 DEF Cells
  <2>5. ASSUME NEW i \in 1 .. v.size + 1 PROVE mem'[off + i - 1] = <<k, i>>
    <3>1. CASE i = v.size + 1
      <4>1. off + i - 1 = off + v.size
        BY <1>3, <3>1
      <4> QED
        BY <2>2, <2>3, <3>1, <4>1
    <3>2. CASE i # v.size + 1
      <4>1. /\ i \in 1 .. v.size /\ off + i - 1 # off + v.size /\ off + i - 1 \in off .. off + v.size - 1
            /\ v.off + ((off + i - 1) - off) = v.off + i - 1 /\ v.size # 0
        BY <1>3, <3>2
      <4>2. mem'[off + i - 1] = mem[v.off + i - 1]
        BY <2>2, <2>3, <4>1, Zenon
      <4> QED
        BY <1>5, <4>1, <4>2 DEF Holds
    <3> QED
      BY <3>1, <3>2, Zenon
  <2>6. FlagCell(v.size + 1, off) = off + z - 1
    <3>1. v.size + 1 + 1 = v.size + 2
      BY <1>3
    <3> QED
      BY <1>2, <2>1, <3>1 DEF FlagCell, Size
  <2>7. Holds(k, off, v.size + 1)' /\ mem'[FlagCell(v.size + 1, off)] = Flag(v.size + 1)
    BY <2>2, <2>4, <2>5, <2>6, Zenon DEF Holds
  <2> QED
    BY <1>4, <2>7 DEF NewAt, Holds
<1> QED
  BY <1>6, <1>7

\* The old block gets its flag, and the new one becomes that of the key.
LEMMA ContentReplace ==
    ASSUME TypeOK, WriterInv, OwnerInv, ContentInv, NEW k \in Keys, InvalidateOld(k) \/ Publish(k)
    PROVE  KeyAt(k)' /\ NewAt(k)'
<1>0. /\ wpc \in [Keys -> {"idle", "locked", "invalidate", "publish", "value", "size"}] /\ new \in [Keys -> Nat]
      /\ mem = [c \in Cells |-> mem[c]] /\ ptr \in [Keys -> Ptrs] /\ KeyAt(k) /\ NewAt(k) /\ new[k] \in Nat
  BY DEF TypeOK, ContentInv
<1>1. PICK v \in Ptrs : v = ptr[k]
  BY SizeFacts
<1>2. PICK w \in Ptrs : w = [size |-> v.size + 1, off |-> new[k]]
  <2>1. [size |-> v.size + 1, off |-> new[k]] \in Ptrs
    BY <1>0 DEF Ptrs
  <2> QED
    BY <2>1
<1>3. wpc[k] \in {"invalidate", "publish"} /\ Filling(k)
  BY Zenon DEF InvalidateOld, Publish, Filling
<1>4. v.size <= MaxSize /\ v.size \in Nat /\ w.size <= MaxSize /\ w.size = v.size + 1 /\ w.off = new[k] /\ w.size # 0
  <2>1. v.size \in Nat /\ v.size < MaxSize
    <3>1. wpc[k] # "idle"
      BY <1>3
    <3>2. ptr[k].size < MaxSize /\ ptr[k].size \in Nat
      BY <3>1, BusySize, Zenon
    <3> QED
      BY <1>1, <3>2
  <2> QED
    BY <1>2, <2>1, ConstFacts
<1>5. Holds(k, w.off, w.size) /\ mem[FlagCell(w.size, w.off)] = Flag(w.size)
  BY <1>0, <1>1, <1>3, <1>4, Zenon DEF NewAt
<1>6. CASE InvalidateOld(k)
  <2>1. /\ ptr'[k] = v /\ new'[k] = new[k] /\ wpc[k] = "invalidate" /\ wpc'[k] = "publish" /\ v.size # 0
        /\ mem' = [mem EXCEPT ![FlagCell(v.size, v.off)] = INVALID_EDGES]
    BY <1>0, <1>1, <1>6 DEF InvalidateOld, WriterInv
  <2>2. FlagCell(v.size, v.off) \in Cells /\ \A i \in 1 .. v.size : v.off + i - 1 \in Cells /\ v.off + i - 1 # FlagCell(v.size, v.off)
    BY <1>1, <1>4, <2>1, PtrCells, KeyBlock, Zenon
  <2>3. Holds(k, v.off, v.size)
    BY <1>0, <1>1, <2>1, ContentForms
  <2>4. Holds(k, v.off, v.size)' /\ mem'[FlagCell(v.size, v.off)] = INVALID_EDGES
    BY <1>0, <2>1, <2>2, <2>3, ZenonT(30) DEF Holds
  <2>5. KeyAt(k)'
    BY <2>1, <2>4, ContentForms, Zenon DEF KeyFlag
  <2>6. <<"new", k>> \in Owners /\ Blk(<<"new", k>>) = BlockOf(w)
    <3>1. w.size + 1 = v.size + 2
      BY <1>4
    <3> QED
      BY <1>1, <1>3, <1>4, <3>1, OwnerForms, Zenon DEF OwnerKinds, NewBlk, BlockOf
  <2>7. \A c \in CellsOf(BlockOf(w)) : mem'[c] = mem[c]
    BY <1>6, <2>6, CellsKept, ZenonT(30) DEF InsertStep
  <2>8. Holds(k, w.off, w.size)' /\ mem'[FlagCell(w.size, w.off)] = Flag(w.size)
    BY <1>4, <1>5, <2>7, PtrCells, Zenon DEF Holds
  <2> QED
    BY <1>4, <2>1, <2>5, <2>8, Zenon DEF NewAt, Holds
<1>7. CASE Publish(k)
  <2>1. wpc'[k] = "idle" /\ mem' = mem
    BY <1>0, <1>7, Zenon DEF Publish
  <2>2. ptr'[k] = w
    BY <1>0, <1>1, <1>2, <1>7, Zenon DEF Publish
  <2>3. KeyFlag(k)' = Flag(w.size)
    BY <2>1, <2>2, Zenon DEF KeyFlag
  <2>4. Holds(k, w.off, w.size)' /\ mem'[FlagCell(w.size, w.off)] = Flag(w.size)
    BY <1>5, <2>1 DEF Holds
  <2> QED
    BY <1>4, <2>1, <2>2, <2>3, <2>4, ContentForms, ZenonT(30) DEF NewAt, Filling
<1> QED
  BY <1>6, <1>7

\* Every insertion keeps the contents of all blocks right.
LEMMA ContentStep ==
    ASSUME TypeOK, WriterInv, OwnerInv, ContentInv, NEW k \in Keys, InsertKey(k) \/ InsertStep(k)
    PROVE  ContentInv'
<1>1. \A j \in Keys : j # k => KeyAt(j)' /\ NewAt(j)'
  BY ContentOther
<1>2. KeyAt(k)' /\ NewAt(k)'
  BY ContentInPlace, ContentNewBlock, ContentReplace DEF InsertStep
<1> QED
  BY <1>1, <1>2 DEF ContentInv

=============================================================================
