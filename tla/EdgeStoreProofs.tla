-------------------------- MODULE EdgeStoreProofs ---------------------------
(***************************************************************************)
(* Proofs about EdgeStore, continued: the pointers of readers and of the   *)
(* cache, and the theorems.                                                *)
(***************************************************************************)
EXTENDS EdgeStoreBlockProofs

-----------------------------------------------------------------------------
(* Pointers of readers and of the cache.                                   *)

\* The pointer of a key after a step.
LEMMA SizePrime ==
    ASSUME TypeOK', NEW k \in Keys
    PROVE  ptr'[k] \in Ptrs /\ ptr'[k].size \in Nat
BY DEF TypeOK, Ptrs

\* A pointer that is safe until t, before the end of a lease that begins now,
\* stays safe when edges are inserted: a block that is replaced is pending
\* until then, and an insertion that needs cells does not sweep it.
LEMMA SafeStep ==
    ASSUME TypeOK, WriterInv, OwnerInv, ContentInv, Caching, NEW k \in Keys, InsertKey(k) \/ InsertStep(k),
           NEW j \in Keys, NEW v \in Ptrs, NEW t \in Nat, v.size # 0, now < t, t <= now + Lease, Safe(j, v, t)
    PROVE  Safe(j, v, t)'
<1>0. /\ v.size <= ptr'[j].size /\ v.size <= MaxSize /\ v.size \in Nat /\ ptr[j].size # 0 /\ now \in Nat
      /\ free_queue \in Seq(Pending) /\ Len(free_queue) \in Nat /\ DOMAIN free_queue = 1 .. Len(free_queue)
  <2>1. v.size <= ptr[j].size /\ v.size \in Nat /\ v.size # 0
    BY DEF Safe, Ptrs
  <2>2. ptr[j].size <= ptr'[j].size /\ ptr[j].size \in 0 .. MaxSize /\ MaxSize \in Nat
    BY OthersKept, SizeFacts
  <2>3. ptr'[j].size \in Nat
    BY TypeWriter, SizePrime
  <2>4. now \in Nat /\ free_queue \in Seq(Pending)
    BY DEF TypeOK
  <2>5. v.size <= ptr'[j].size /\ v.size <= MaxSize /\ ptr[j].size # 0
    BY ONLY <2>1, <2>2, <2>3
  <2>6. Len(free_queue) \in Nat /\ DOMAIN free_queue = 1 .. Len(free_queue)
    BY ONLY <2>4
  <2> QED
    BY <2>1, <2>4, <2>5, <2>6, Zenon
<1>1. CASE BlockOf(v) = BlockOf(ptr[j]) /\ ~ Publish(j)
  <2>1. BlockOf(ptr'[j]) = BlockOf(ptr[j])
    <3>1. CASE InPlaceSize(j)
      <4>1. ptr[j] \in Ptrs /\ ptr[j].size \in Nat
        BY SizeFacts
      <4>2. ptr'[j].off = ptr[j].off /\ ptr'[j].size = ptr[j].size + 1
        BY <3>1, <4>1 DEF InPlaceSize, TypeOK, Ptrs
      <4>3. blksz(ptr[j].size + 2) = blksz(ptr[j].size + 1) /\ ptr[j].size + 1 + 1 = ptr[j].size + 2
        BY <3>1, <4>1, RoomFlag DEF InPlaceSize, WriterInv
      <4> QED
        BY <4>2, <4>3 DEF BlockOf
    <3>2. CASE ~ InPlaceSize(j)
      <4>1. CASE j = k
        BY <1>1, <3>2, <4>1, ZenonT(30) DEF InsertKey, InsertStep, NewBlock, InvalidateOld, InPlaceFlag, InPlaceValue
      <4>2. CASE j # k
        BY <4>2, OthersKept, ZenonT(30)
      <4> QED
        BY <4>1, <4>2
    <3> QED
      BY <3>1, <3>2
  <2> QED
    BY <1>0, <1>1, <2>1 DEF Safe, BlockOf
<1>2. CASE BlockOf(v) = BlockOf(ptr[j]) /\ Publish(j)
  <2> DEFINE e == [blk |-> BlockOf(ptr[j]), expire |-> now + Lease]
             l == Len(free_queue) + 1
  <2>1. free_queue' = Append(free_queue, e) /\ mem' = mem /\ wpc[j] = "publish"
    BY <1>0, <1>2 DEF Publish
  <2>2. e \in Pending /\ e.blk = BlockOf(v) /\ e.expire >= t
    BY <1>0, <1>2, SizeFacts, ConstFacts, SMTT(30) DEF Pending
  <2> HIDE DEF e
  <2>3. l \in DOMAIN free_queue' /\ free_queue'[l] = e
    BY <1>0, <2>1, <2>2
  <2>4. PICK p \in Ptrs : p = ptr[j]
    BY SizeFacts
  <2>5. v.off = p.off /\ FlagCell(v.size, v.off) = FlagCell(p.size, p.off)
    BY <1>2, <2>4 DEF BlockOf, FlagCell
  <2>6. Holds(j, p.off, p.size) /\ mem[FlagCell(p.size, p.off)] = INVALID_EDGES
    BY <1>0, <2>1, <2>4, ContentForms, ZenonT(30) DEF ContentInv, KeyFlag
  <2>7. p.size \in Nat /\ v.size <= p.size
    BY <2>4, SizeFacts, SMTT(30) DEF Safe
  <2>8. Holds(j, v.off, v.size)' /\ mem'[FlagCell(v.size, v.off)] = INVALID_EDGES
    BY <1>0, <2>1, <2>5, <2>6, <2>7, SMTT(30) DEF Holds
  <2> QED
    BY <1>0, <2>2, <2>3, <2>8 DEF Safe
<1>3. CASE BlockOf(v) # BlockOf(ptr[j])
  <2>1. PICK i \in DOMAIN free_queue :
             /\ free_queue[i].blk = BlockOf(v) /\ free_queue[i].expire >= t
             /\ Holds(j, v.off, v.size)
             /\ mem[FlagCell(v.size, v.off)] = INVALID_EDGES
    BY <1>3 DEF Safe
  <2>2. now < free_queue[i].expire
    <3>1. free_queue[i] \in Pending
      BY <1>0, <2>1
    <3>2. free_queue[i].expire \in Nat
      BY <3>1 DEF Pending
    <3> QED
      BY <1>0, <2>1, <3>2, SMTT(30)
  <2>3. PICK l \in DOMAIN free_queue' : free_queue'[l] = free_queue[i]
    BY <2>2, QueueKept
  <2>4. <<"queue", i>> \in Owners /\ Blk(<<"queue", i>>) = BlockOf(v)
    BY <2>1, OwnerForms, ZenonT(30) DEF OwnerKinds
  <2>5. \A c \in CellsOf(BlockOf(v)) : mem'[c] = mem[c]
    BY <2>2, <2>4, CellsKept, ZenonT(30)
  <2>6. Holds(j, v.off, v.size)' /\ mem'[FlagCell(v.size, v.off)] = INVALID_EDGES
    BY <1>0, <2>1, <2>5, PtrCells, Zenon DEF Holds
  <2> QED
    BY <1>0, <2>1, <2>3, <2>6, ZenonT(30) DEF Safe
<1> QED
  BY <1>1, <1>2, <1>3

\* The cache and the readers while edges are inserted.
LEMMA PointersWriter ==
    ASSUME TypeOK, WriterInv, OwnerInv, ContentInv, CacheInv, ReaderInv, Caching,
           NEW k \in Keys, InsertKey(k) \/ InsertStep(k)
    PROVE  CacheInv' /\ ReaderInv'
<1>0. UNCHANGED <<cache, rd, now>> /\ now \in Nat /\ Lease \in Nat
  BY OthersKept, ConstFacts DEF TypeOK
<1>1. ASSUME NEW j \in Keys, NEW v \in Ptrs, NEW b \in Nat, b <= now, SafeFrom(j, v, b)
      PROVE  SafeFrom(j, v, b)'
  <2>1. SUFFICES ASSUME now < b + Lease, v.size # 0 PROVE Safe(j, v, b + Lease)'
    BY <1>0, Zenon DEF SafeFrom
  <2>2. b + Lease \in Nat /\ b + Lease <= now + Lease
    BY ONLY <1>0, <1>1
  <2>3. Safe(j, v, b + Lease)
    BY <1>1, <2>1 DEF SafeFrom
  <2>4. PICK t \in Nat : t = b + Lease
    BY <2>2
  <2>5. Safe(j, v, t)'
    BY <2>1, <2>2, <2>3, <2>4, SafeStep
  <2> QED
    BY <2>4, <2>5, Zenon DEF Safe, Holds
<1>2. CacheInv'
  <2>1. SUFFICES ASSUME NEW j \in Keys PROVE cache[j].born <= now /\ SafeFrom(j, cache[j].v, cache[j].born)'
    BY <1>0, Zenon DEF CacheInv, SafeFrom, Safe, Holds
  <2>2. cache[j] \in Items
    BY DEF TypeOK
  <2>3. PICK v \in Ptrs, b \in Nat : v = cache[j].v /\ b = cache[j].born
    BY <2>2 DEF Items
  <2>4. b <= now /\ SafeFrom(j, v, b)
    BY <2>3 DEF CacheInv
  <2>5. SafeFrom(j, v, b)'
    BY <1>1, <2>4
  <2>6. cache'[j].v = v /\ cache'[j].born = b
    BY <1>0, <2>3
  <2> QED
    BY <2>3, <2>4, <2>5, <2>6, Zenon DEF SafeFrom, Safe, Holds
<1>3. ReaderInv'
  <2>1. SUFFICES ASSUME NEW r \in Readers PROVE ReaderAt(r)'
    BY DEF ReaderInv
  <2>2. PICK j \in Keys, v \in Ptrs, b \in Nat : j = rd[r].key /\ v = rd[r].v /\ b = rd[r].born
    BY ReaderRecord, Zenon
  <2>3. b <= now /\ (rd[r].pc \in {"cache", "edges", "flag"} => SafeFrom(j, v, b))
    BY <2>2 DEF ReaderInv, ReaderAt
  <2>4. rd[r].pc \in {"cache", "edges", "flag"} => SafeFrom(j, v, b)'
    BY <1>1, <2>3
  <2>5. rd'[r] = rd[r]
    BY <1>0
  <2> QED
    BY <1>0, <2>2, <2>3, <2>4, <2>5, ZenonT(30) DEF ReaderAt, SafeFrom, Safe, Holds
<1> QED
  BY <1>2, <1>3

\* What readers have seen stays true when edges are inserted.
LEMMA SeenWriter ==
    ASSUME TypeOK, WriterInv, SeenInv, NEW k \in Keys, InsertKey(k) \/ InsertStep(k)
    PROVE  SeenInv'
<1>0. UNCHANGED <<cache, rd, now>>
  BY OthersKept
<1>1. ASSUME NEW r \in Readers PROVE SeenAt(r)'
  <2>1. rd[r].key \in Keys /\ rd[r].from \in Nat /\ rd[r].v.size \in Nat
    BY ReaderRecord DEF Ptrs
  <2>2. PICK j \in Keys : j = rd[r].key
    BY <2>1
  <2>3. ptr[j].size \in Nat /\ ptr'[j].size \in Nat /\ ptr[j].size <= ptr'[j].size
    BY SizeFacts, OthersKept, TypeWriter, SizePrime, SMTT(30)
  <2>4. rd'[r] = rd[r] /\ SeenAt(r)
    BY <1>0 DEF SeenInv
  <2>5. rd[r].from <= ptr[j].size => rd[r].from <= ptr'[j].size
    BY <2>1, <2>3
  <2>6. rd[r].v.size <= ptr[j].size => rd[r].v.size <= ptr'[j].size
    BY <2>1, <2>3
  <2> QED
    BY <1>0, <2>2, <2>4, <2>5, <2>6, Zenon DEF SeenAt, InTime, Edges
<1> QED
  BY <1>0, <1>1 DEF SeenInv

\* Every insertion keeps the blocks of owners apart.
LEMMA OwnerStep ==
    ASSUME TypeOK, WriterInv, OwnerInv, Caching, NEW k \in Keys, InsertKey(k) \/ InsertStep(k)
    PROVE  OwnerInv'
<1>1. CASE NewBlock(k)
  BY <1>1, NewBlockEffect, OwnersMove
<1>2. CASE Publish(k)
  BY <1>2, OwnersPublish
<1>3. CASE InsertKey(k) \/ InvalidateOld(k) \/ InPlaceFlag(k) \/ InPlaceValue(k) \/ InPlaceSize(k)
  BY <1>3, OwnersStay DEF OwnerInv, CellsOf
<1> QED
  BY <1>1, <1>2, <1>3 DEF InsertStep

-----------------------------------------------------------------------------
(* Steps of readers.                                                       *)

\* A reader changes nothing that the safety of a pointer depends on.
LEMMA ReadsKeep ==
    ASSUME NEW r \in Readers, ReadsOnly(r)
    PROVE  /\ UNCHANGED <<mem, exists, ptr, used, free_queue, wpc, new, now>>
           /\ \A j, v, b : SafeFrom(j, v, b)' <=> SafeFrom(j, v, b)
           /\ \A q \in Readers \ {r} : (ReaderAt(q) => ReaderAt(q)') /\ (SeenAt(q) => SeenAt(q)')
           /\ (WriterInv => WriterInv') /\ (KeyInv => KeyInv') /\ (OwnerInv => OwnerInv') /\ (ContentInv => ContentInv')
<1>1. UNCHANGED <<mem, exists, ptr, used, free_queue, wpc, new, now>> /\ \A q \in Readers \ {r} : rd'[q] = rd[q]
  BY DEF ReadsOnly, store
<1>2. \A j, v, b : SafeFrom(j, v, b)' <=> SafeFrom(j, v, b)
  <2>1. ASSUME NEW j, NEW v, NEW t PROVE Safe(j, v, t)' <=> Safe(j, v, t)
    <3>1. Holds(j, v.off, v.size)' <=> Holds(j, v.off, v.size)
      BY <1>1, Zenon DEF Holds
    <3>2. /\ mem' = mem /\ ptr' = ptr /\ free_queue' = free_queue /\ BlockOf(v)' = BlockOf(v)
          /\ BlockOf(ptr[j])' = BlockOf(ptr[j])
      BY <1>1, Zenon
    <3> QED
      BY <3>1, <3>2, Zenon DEF Safe
  <2> QED
    BY <1>1, <2>1, Zenon DEF SafeFrom
<1>3. ASSUME NEW q \in Readers \ {r} PROVE (ReaderAt(q) => ReaderAt(q)') /\ (SeenAt(q) => SeenAt(q)')
  <2>1. rd'[q] = rd[q] /\ now' = now /\ ptr' = ptr
    BY <1>1
  <2> QED
    BY <1>1, <2>1, Zenon DEF ReaderAt, SafeFrom, Safe, Holds, SeenAt, InTime, Edges
<1>4. (WriterInv => WriterInv') /\ (KeyInv => KeyInv')
  BY <1>1 DEF WriterInv, Room, KeyInv
<1>5. OwnerInv => OwnerInv'
  <2>1. Owners' = Owners
    BY <1>1 DEF Owners, Filling
  <2>2. \A o : Blk(o)' = Blk(o)
    BY <1>1 DEF Blk, NewBlk, BlockOf
  <2> QED
    BY <1>1, <2>1, <2>2 DEF OwnerInv, CellsOf
<1>6. ContentInv => ContentInv'
  BY <1>1, Zenon DEF ContentInv, KeyAt, NewAt, Holds, KeyFlag, Value, Filling
<1> QED
  BY <1>1, <1>2, <1>3, <1>4, <1>5, <1>6, Zenon

\* A pointer that comes from the header region is safe for a lease.
LEMMA FreshSafe ==
    ASSUME TypeOK, NEW k \in Keys, NEW b
    PROVE  SafeFrom(k, ptr[k], b)
BY SizeFacts, SMTT(30) DEF SafeFrom, Safe

\* The cache and the readers when a reader takes a step.
LEMMA PointersReader ==
    ASSUME TypeOK, CacheInv, ReaderInv, Caching, NEW r \in Readers, ReadStep(r) \/ \E k \in Keys : Begin(r, k)
    PROVE  CacheInv' /\ ReaderInv'
<1>0. ReadsOnly(r) /\ now \in Nat /\ now' = now
  BY TypeCache, ReadsKeep DEF TypeOK
<1>1. PICK k \in Keys, v \in Ptrs, b \in Nat : k = rd[r].key /\ v = rd[r].v /\ b = rd[r].born
  BY ReaderRecord
<1>2. b <= now /\ (rd[r].pc \in {"cache", "edges", "flag"} => SafeFrom(k, v, b))
  BY <1>1 DEF ReaderInv, ReaderAt
<1>3. cache \in [Keys -> Items] /\ cache[k].born <= now /\ SafeFrom(k, cache[k].v, cache[k].born)
  BY DEF TypeOK, CacheInv
<1>4. SUFFICES CacheInv' /\ ReaderAt(r)'
  BY <1>0, ReadsKeep DEF ReaderInv
<1>5. cache' = cache => CacheInv'
  BY <1>0, ReadsKeep, Zenon DEF CacheInv
<1>6. ASSUME NEW w, NEW c, rd'[r].v = w, rd'[r].born = c, rd'[r].key = k, c <= now, SafeFrom(k, w, c)
      PROVE  ReaderAt(r)'
  <2>1. SafeFrom(k, w, c)'
    BY <1>0, <1>6, ReadsKeep
  <2> QED
    BY <1>0, <1>6, <2>1, Zenon DEF ReaderAt, SafeFrom, Safe, Holds
<1>7. ASSUME rd'[r].pc \notin {"cache", "edges", "flag"}, rd'[r].born <= now
      PROVE  ReaderAt(r)'
  BY <1>0, <1>7, Zenon DEF ReaderAt
<1>8. 0 <= now /\ now <= now
  BY ONLY <1>0
<1>9. ASSUME NEW x, x.born <= now, SafeFrom(k, x.v, x.born), cache' = [cache EXCEPT ![k] = x]
      PROVE  CacheInv'
  <2>1. SUFFICES ASSUME NEW j \in Keys PROVE cache'[j].born <= now /\ SafeFrom(j, cache'[j].v, cache'[j].born)
    BY <1>0, ReadsKeep, Zenon DEF CacheInv
  <2>2. CASE j = k
    BY <1>3, <1>9, <2>2, Zenon
  <2>3. CASE j # k
    <3>1. cache'[j] = cache[j]
      BY <1>3, <1>9, <2>3, Zenon
    <3> QED
      BY <3>1, Zenon DEF CacheInv
  <2> QED
    BY <2>2, <2>3
<1>10. CASE \E j \in Keys : Begin(r, j)
  BY <1>5, <1>7, <1>8, <1>10, BeginEffect
<1>11. CASE Lookup(r)
  <2>1. /\ cache' = cache /\ rd'[r].key = k
        /\ \/ rd'[r].pc = "vertex" /\ rd'[r].born = b
           \/ rd'[r].v = cache[k].v /\ rd'[r].born = cache[k].born
    BY <1>1, <1>11, LookupEffect, Zenon
  <2>2. CASE rd'[r].pc = "vertex" /\ rd'[r].born = b
    BY <1>2, <1>5, <1>7, <2>1, <2>2
  <2>3. CASE rd'[r].v = cache[k].v /\ rd'[r].born = cache[k].born
    BY <1>3, <1>5, <1>6, <2>1, <2>3, Zenon
  <2> QED
    BY <2>1, <2>2, <2>3, Zenon
<1>12. CASE ReadVertex(r)
  <2>1. /\ cache' = cache /\ rd'[r].key = k /\ rd'[r].born = now
        /\ rd'[r].pc = "done" \/ rd'[r].v = ptr[k]
    BY <1>1, <1>12, VertexEffect, Zenon
  <2>2. CASE rd'[r].pc = "done"
    BY <1>5, <1>7, <1>8, <2>1, <2>2
  <2>3. CASE rd'[r].v = ptr[k]
    BY <1>5, <1>6, <1>8, <2>1, <2>3, FreshSafe, Zenon
  <2> QED
    BY <2>1, <2>2, <2>3, Zenon
<1>13. CASE InsertCache(r)
  <2> DEFINE x == [v |-> v, expire |-> now + Lease, born |-> b]
  <2>1. /\ rd[r].pc = "cache" /\ cache' = [cache EXCEPT ![k] = x]
        /\ rd'[r].key = k /\ rd'[r].v = v /\ rd'[r].born = b
    BY <1>1, <1>13, InsertCacheEffect
  <2>2. x.v = v /\ x.born = b
    OBVIOUS
  <2> HIDE DEF x
  <2>3. SafeFrom(k, v, b)
    BY <1>2, <2>1
  <2>4. ReaderAt(r)'
    BY <1>2, <1>6, <2>1, <2>3, Zenon
  <2>5. CacheInv'
    BY <1>2, <1>9, <2>1, <2>2, <2>3, Zenon
  <2> QED
    BY <2>4, <2>5, Zenon
<1>14. CASE ReadEdges(r)
  <2>1. cache' = cache /\ rd[r].pc = "edges" /\ rd'[r].key = k /\ rd'[r].v = v /\ rd'[r].born = b
    BY <1>1, <1>14, EdgesEffect, Zenon
  <2>2. SafeFrom(k, v, b)
    BY <1>2, <2>1
  <2> QED
    BY <1>2, <1>5, <1>6, <2>1, <2>2, Zenon
<1>15. CASE ReadFlag(r)
  <2>1. cache' = cache /\ rd'[r].pc \in {"invalid", "done"} /\ rd'[r].born = b
    BY <1>1, <1>15, FlagEffect
  <2> QED
    BY <1>2, <1>5, <1>7, <2>1
<1>16. CASE Invalidate(r)
  <2>1. cache' = [cache EXCEPT ![k] = NoItem] /\ rd'[r].pc = "lookup" /\ rd'[r].born = 0
    BY <1>1, <1>16, InvalidateEffect, Zenon
  <2>2. NoItem.born = 0 /\ NoItem.v.size = 0
    BY DEF NoItem, NoPtr
  <2>3. CacheInv'
    BY <1>8, <1>9, <2>1, <2>2, Zenon DEF SafeFrom
  <2> QED
    BY <1>7, <1>8, <2>1, <2>3
<1>17. CASE Return(r)
  BY <1>5, <1>7, <1>8, <1>17, ReturnEffect
<1> QED
  BY <1>10, <1>11, <1>12, <1>13, <1>14, <1>15, <1>16, <1>17, Zenon DEF ReadStep

\* The edges behind a safe pointer are edges of its key, in order.
LEMMA SafeEdges ==
    ASSUME TypeOK, ContentInv, NEW k \in Keys, NEW v \in Ptrs, v.size # 0, NEW t, Safe(k, v, t)
    PROVE  Holds(k, v.off, v.size) /\ v.size <= ptr[k].size
<1>1. CASE BlockOf(v) = BlockOf(ptr[k])
  <2>1. PICK p \in Ptrs : p = ptr[k]
    BY SizeFacts
  <2>2. v.size \in Nat /\ p.size \in Nat /\ v.size <= p.size /\ p.size # 0 /\ v.off = p.off
    <3>1. v.size <= p.size /\ v.off = p.off
      BY <1>1, <2>1 DEF Safe, BlockOf
    <3> QED
      BY ONLY <3>1, v \in Ptrs, p \in Ptrs, v.size # 0 DEF Ptrs
  <2>3. Holds(k, p.off, p.size)
    BY <2>1, <2>2, ContentForms DEF ContentInv
  <2> QED
    BY <2>1, <2>2, <2>3 DEF Holds
<1>2. CASE BlockOf(v) # BlockOf(ptr[k])
  BY <1>2 DEF Safe
<1> QED
  BY <1>1, <1>2

\* edge_is_valid: the flag has the size of the pointer only when the pointer
\* has the size of the key.
LEMMA ValidCurrent ==
    ASSUME TypeOK, ContentInv, Caching, NEW k \in Keys, NEW v \in Ptrs, v.size # 0, NEW t, Safe(k, v, t),
           edge_is_valid(v)
    PROVE  v.size = ptr[k].size
<1>1. mem[FlagCell(v.size, v.off)] = Flag(v.size) /\ v.size \in Nat
  BY DEF edge_is_valid, Ptrs
<1>2. PICK p \in Ptrs : p = ptr[k]
  BY SizeFacts
<1>3. p.size \in Nat /\ v.size <= p.size /\ p.size # 0
  BY <1>1, <1>2 DEF Safe, Ptrs
<1>4. BlockOf(v) = BlockOf(p)
  <2>1. Flag(v.size) # INVALID_EDGES
    BY <1>1, SMTT(30) DEF Flag, INVALID_EDGES
  <2> QED
    BY <1>1, <1>2, <2>1 DEF Safe
<1>5. FlagCell(v.size, v.off) = FlagCell(p.size, p.off)
  BY <1>4, Zenon DEF BlockOf, FlagCell
<1>6. mem[FlagCell(p.size, p.off)] = KeyFlag(k)
  BY <1>2, <1>3, ContentForms DEF ContentInv
<1>7. KeyFlag(k) \in {Flag(p.size), Flag(p.size + 1), Flag(-1)}
  BY <1>2 DEF KeyFlag, INVALID_EDGES
<1>8. v.size \in {p.size, p.size + 1, -1}
  BY <1>1, <1>5, <1>6, <1>7, SMTT(30) DEF Flag
<1> QED
  BY <1>1, <1>2, <1>3, <1>8

\* What readers have seen, when a reader takes a step.
LEMMA SeenReader ==
    ASSUME TypeOK, WriterInv, KeyInv, ContentInv, CacheInv, ReaderInv, SeenInv, Caching,
           NEW r \in Readers, ReadStep(r) \/ \E k \in Keys : Begin(r, k)
    PROVE  SeenInv'
<1>0. ReadsOnly(r) /\ UNCHANGED <<now, ptr, mem>> /\ now \in Nat
  BY TypeCache, ReadsKeep DEF TypeOK
<1>1. PICK k \in Keys, v \in Ptrs : k = rd[r].key /\ v = rd[r].v
  BY ReaderRecord
<1>2. PICK n \in Nat, f \in Nat, b \in Nat : n = ptr[k].size /\ f = rd[r].from /\ b = rd[r].born
  BY SizeFacts, ReaderRecord, SMTT(30)
<1>3. rd[r].pc # "idle" => f <= n /\ (k \in Loaded => n # 0 /\ exists[k])
  BY <1>1, <1>2, Zenon DEF WriterInv, SeenInv, SeenAt
<1>4. /\ rd[r].pc \in {"cache", "edges", "flag"} => v.size # 0 \/ k \notin Loaded
      /\ rd[r].pc \in {"lookup", "cache", "flag", "invalid"} => r \in Remote
      /\ rd[r].pc = "edges" /\ r \notin Remote => f <= v.size
      /\ rd[r].pc = "flag" /\ now < b + Lease => rd[r].data = [i \in 1 .. v.size |-> <<k, i>>]
      /\ v.size \in Nat
  BY <1>1, <1>2 DEF SeenInv, SeenAt, InTime, Edges, Ptrs
<1>5. cache \in [Keys -> Items]
  BY DEF TypeOK
<1>6. SUFFICES (\A j \in Loaded : now < cache'[j].expire => cache'[j].v.size # 0) /\ SeenAt(r)'
  BY <1>0, ReadsKeep, Zenon DEF SeenInv
<1>7. ASSUME cache' = cache PROVE \A j \in Loaded : now < cache'[j].expire => cache'[j].v.size # 0
  BY <1>7, Zenon DEF SeenInv
<1>8. ASSUME rd'[r].pc = "vertex" \/ (rd'[r].pc \in {"lookup", "invalid"} /\ r \in Remote),
             rd'[r].key = k, rd'[r].from = f, f <= n
      PROVE  SeenAt(r)'
  BY <1>0, <1>2, <1>8, Zenon DEF SeenAt
<1>9. ASSUME NEW j \in Loaded, j # k, NEW x, cache' = [cache EXCEPT ![k] = x], now < cache'[j].expire
      PROVE  cache'[j].v.size # 0
  <2>1. cache'[j] = cache[j]
    BY <1>5, <1>9, EdgeStoreAssumption, Zenon
  <2> QED
    BY <1>9, <2>1 DEF SeenInv
<1>10. CASE \E j \in Keys : Begin(r, j)
  <2>1. PICK j \in Keys : Begin(r, j)
    BY <1>10
  <2>2. ptr[j].size \in Nat
    BY SizeFacts, SMTT(30)
  <2>3. /\ cache' = cache /\ rd'[r].pc \in {"lookup", "vertex"} /\ rd'[r].key = j /\ rd'[r].from = ptr[j].size
        /\ rd'[r].pc = "lookup" => r \in Remote
    BY <2>1, BeginEffect, Zenon
  <2>4. SeenAt(r)'
    BY <1>0, <2>2, <2>3, SMTT(30) DEF SeenAt
  <2> QED
    BY <1>7, <2>3, <2>4
<1>11. CASE Lookup(r)
  <2>1. /\ cache' = cache /\ rd[r].pc = "lookup" /\ rd'[r].key = k /\ rd'[r].from = f
        /\ \/ rd'[r].pc = "vertex"
           \/ now < cache[k].expire /\ rd'[r].pc = "edges" /\ rd'[r].v = cache[k].v
    BY <1>1, <1>2, <1>11, LookupEffect, Zenon
  <2>2. CASE rd'[r].pc = "vertex"
    BY <1>3, <1>7, <1>8, <2>1, <2>2, Zenon
  <2>3. CASE now < cache[k].expire /\ rd'[r].pc = "edges" /\ rd'[r].v = cache[k].v
    <3>1. (rd'[r].v.size # 0 \/ k \notin Loaded) /\ r \in Remote
      BY <1>4, <2>1, <2>3, Zenon DEF SeenInv
    <3>2. SeenAt(r)'
      BY <1>0, <1>2, <1>3, <2>1, <2>3, <3>1, Zenon DEF SeenAt
    <3> QED
      BY <1>7, <2>1, <3>2, Zenon
  <2> QED
    BY <2>1, <2>2, <2>3, Zenon
<1>12. CASE ReadVertex(r)
  <2>1. /\ cache' = cache /\ rd[r].pc = "vertex" /\ rd'[r].key = k /\ rd'[r].from = f
        /\ \/ ~ exists[k] /\ rd'[r].pc = "done" /\ rd'[r].v = NoPtr /\ rd'[r].data = <<>>
           \/ rd'[r].v = ptr[k] /\ rd'[r].pc = IF r \in Remote THEN "cache" ELSE "edges"
    BY <1>1, <1>2, <1>12, VertexEffect, Zenon
  <2>2. CASE ~ exists[k] /\ rd'[r].pc = "done" /\ rd'[r].v = NoPtr /\ rd'[r].data = <<>>
    <3>1. n = 0 /\ f = 0 /\ rd'[r].v.size = 0
      <4>1. n = 0 /\ rd'[r].v.size = 0
        BY <1>2, <2>2 DEF KeyInv, NoPtr
      <4> QED
        BY <1>3, <2>1, <4>1
    <3>2. rd'[r].data = Edges(r)' /\ 0 <= n /\ 0 >= f
      BY <2>2, <3>1 DEF Edges
    <3> QED
      BY <1>0, <1>2, <1>3, <1>7, <2>1, <2>2, <3>1, <3>2, Zenon DEF SeenAt
  <2>3. CASE rd'[r].v = ptr[k] /\ rd'[r].pc = IF r \in Remote THEN "cache" ELSE "edges"
    <3>1. rd'[r].v.size = n /\ f <= n /\ (n # 0 \/ k \notin Loaded)
      BY <1>2, <1>3, <2>1, <2>3, Zenon
    <3>2. SeenAt(r)'
      BY <1>0, <1>2, <2>1, <2>3, <3>1, Zenon DEF SeenAt
    <3> QED
      BY <1>7, <2>1, <3>2, Zenon
  <2> QED
    BY <2>1, <2>2, <2>3, Zenon
<1>13. CASE InsertCache(r)
  <2> DEFINE x == [v |-> v, expire |-> now + Lease, born |-> b]
  <2>1. /\ rd[r].pc = "cache" /\ rd'[r].pc = "edges" /\ cache' = [cache EXCEPT ![k] = x]
        /\ rd'[r].key = k /\ rd'[r].v = v /\ rd'[r].from = f
    BY <1>1, <1>2, <1>13, InsertCacheEffect, Zenon
  <2>2. x.v = v
    OBVIOUS
  <2> HIDE DEF x
  <2>3. SeenAt(r)'
    BY <1>0, <1>2, <1>3, <1>4, <2>1 DEF SeenAt
  <2>4. ASSUME NEW j \in Loaded, now < cache'[j].expire PROVE cache'[j].v.size # 0
    <3>1. CASE j = k
      BY <1>4, <1>5, <2>1, <2>2, <3>1
    <3>2. CASE j # k
      BY <1>9, <2>1, <2>4, <3>2, Zenon
    <3> QED
      BY <3>1, <3>2, Zenon
  <2> QED
    BY <2>3, <2>4, Zenon
<1>14. CASE ReadEdges(r)
  <2>1. /\ cache' = cache /\ rd[r].pc = "edges" /\ rd'[r].pc = IF r \in Remote THEN "flag" ELSE "done"
        /\ rd'[r].data = [i \in 1 .. v.size |-> mem[v.off + i - 1]]
        /\ rd'[r].key = k /\ rd'[r].from = f /\ rd'[r].v = v /\ rd'[r].born = b
    BY <1>1, <1>2, <1>14, EdgesEffect, ZenonT(30)
  <2>2. ASSUME now < b + Lease PROVE rd'[r].data = [i \in 1 .. v.size |-> <<k, i>>] /\ v.size <= n
    <3>1. CASE v.size = 0
      BY <1>2, <2>1, <3>1, SMTT(30)
    <3>2. CASE v.size # 0
      <4>1. Safe(k, v, b + Lease)
        BY <1>1, <1>2, <2>1, <2>2, <3>2, Zenon DEF ReaderInv, ReaderAt, SafeFrom
      <4>2. Holds(k, v.off, v.size) /\ v.size <= n
        BY <1>2, <3>2, <4>1, SafeEdges, Zenon
      <4> QED
        BY <2>1, <4>2, Zenon DEF Holds
    <3> QED
      BY <3>1, <3>2
  <2>3. r \notin Remote => v.size >= f
    BY <1>2, <1>4, <2>1, SMTT(30)
  <2>4. InTime(r)' => now < b + Lease
    BY <1>0, <2>1, Zenon DEF InTime
  <2>5. Edges(r)' = [i \in 1 .. v.size |-> <<k, i>>]
    BY <2>1, Zenon DEF Edges
  <2>6. v.size # 0 \/ k \notin Loaded
    BY <1>4, <2>1
  <2>7. SeenAt(r)'
    BY <1>0, <1>2, <1>3, <2>1, <2>2, <2>3, <2>4, <2>5, <2>6, ZenonT(30) DEF SeenAt
  <2> QED
    BY <1>7, <2>1, <2>7, Zenon
<1>15. CASE ReadFlag(r)
  <2>1. /\ cache' = cache /\ rd[r].pc = "flag" /\ rd'[r].pc = IF edge_is_valid(v) THEN "done" ELSE "invalid"
        /\ rd'[r].key = k /\ rd'[r].from = f /\ rd'[r].v = v /\ rd'[r].data = rd[r].data /\ rd'[r].born = b
    BY <1>1, <1>2, <1>15, FlagEffect, Zenon
  <2>2. CASE edge_is_valid(v)
    <3>1. InTime(r)' => now < b + Lease
      BY <1>0, <2>1, Zenon DEF InTime
    <3>2. Edges(r)' = [i \in 1 .. v.size |-> <<k, i>>]
      BY <2>1, Zenon DEF Edges
    <3>3. ASSUME now < b + Lease
          PROVE  v.size <= n /\ (v.size >= f \/ (v.size = 0 /\ r \in Remote /\ k \notin Loaded))
      <4>1. CASE v.size = 0
        BY <1>2, <1>4, <2>1, <4>1, SMTT(30)
      <4>2. CASE v.size # 0
        <5>1. Safe(k, v, b + Lease)
          BY <1>1, <1>2, <2>1, <3>3, <4>2, Zenon DEF ReaderInv, ReaderAt, SafeFrom
        <5>2. v.size = n
          BY <1>2, <2>2, <4>2, <5>1, ValidCurrent, Zenon
        <5> QED
          BY <1>2, <1>3, <2>1, <5>2, SMTT(30)
      <4> QED
        BY <4>1, <4>2, Zenon
    <3>4. SeenAt(r)'
      BY <1>0, <1>2, <1>3, <1>4, <2>1, <2>2, <3>1, <3>2, <3>3, ZenonT(30) DEF SeenAt
    <3> QED
      BY <1>7, <2>1, <3>4, Zenon
  <2>3. CASE ~ edge_is_valid(v)
    BY <1>3, <1>4, <1>7, <1>8, <2>1, <2>3, Zenon
  <2> QED
    BY <2>2, <2>3, Zenon
<1>16. CASE Invalidate(r)
  <2>1. /\ cache' = [cache EXCEPT ![k] = NoItem] /\ rd[r].pc = "invalid" /\ rd'[r].pc = "lookup"
        /\ rd'[r].key = k /\ rd'[r].from = f
    BY <1>1, <1>2, <1>16, InvalidateEffect, Zenon
  <2>2. ASSUME NEW j \in Loaded, now < cache'[j].expire PROVE cache'[j].v.size # 0
    <3>1. CASE j = k
      <4>1. cache'[j].expire = 0
        BY <1>5, <2>1, <3>1, Zenon DEF NoItem
      <4> QED
        BY <1>0, <2>2, <4>1
    <3>2. CASE j # k
      BY <1>9, <2>1, <2>2, <3>2, Zenon
    <3> QED
      BY <3>1, <3>2
  <2> QED
    BY <1>3, <1>4, <1>8, <2>1, <2>2, Zenon
<1>17. CASE Return(r)
  <2>1. cache' = cache /\ rd'[r].pc = "idle"
    BY <1>17, ReturnEffect
  <2> QED
    BY <1>7, <2>1, Zenon DEF SeenAt
<1> QED
  BY <1>10, <1>11, <1>12, <1>13, <1>14, <1>15, <1>16, <1>17, Zenon DEF ReadStep

-----------------------------------------------------------------------------
(* The inductive invariant, and the theorems.                              *)

\* The blocks of the loaded keys.
LEMMA LoadedBlocks ==
    ASSUME NEW place \in [Loaded -> {2 * i : i \in 1 .. (MemSize \div 2) - 1}],
           \A j, k \in Loaded : j # k => place[j] # place[k]
    PROVE  \A j, k \in Loaded :
              /\ place[k] \in Nat /\ place[k] \in Cells /\ place[k] + 1 \in Cells /\ place[k] # place[j] + 1
              /\ j # k => (place[j] .. place[j] + 1) \cap (place[k] .. place[k] + 1) = {}
<1>1. SUFFICES ASSUME NEW j \in Loaded, NEW k \in Loaded
               PROVE  /\ place[k] \in Nat /\ place[k] \in Cells /\ place[k] + 1 \in Cells /\ place[k] # place[j] + 1
                      /\ j # k => (place[j] .. place[j] + 1) \cap (place[k] .. place[k] + 1) = {}
  OBVIOUS
<1>2. PICK a \in 1 .. (MemSize \div 2) - 1 : place[j] = 2 * a
  OBVIOUS
<1>3. PICK b \in 1 .. (MemSize \div 2) - 1 : place[k] = 2 * b
  OBVIOUS
<1>4. MemSize \in Nat /\ MemSize \div 2 \in Nat /\ 2 * (MemSize \div 2) <= MemSize
  BY ConstFacts
<1>5. a \in Nat /\ b \in Nat /\ 2 * b + 1 <= MemSize - 1 /\ 2 * b # 2 * a + 1 /\ 2 * a # 2 * b + 1
  BY <1>4
<1>6. place[k] \in Nat /\ place[k] \in Cells /\ place[k] + 1 \in Cells /\ place[k] # place[j] + 1
  BY <1>3, <1>2, <1>4, <1>5 DEF Cells
<1>7. ASSUME j # k PROVE (place[j] .. place[j] + 1) \cap (place[k] .. place[k] + 1) = {}
  <2>1. 2 * a # 2 * b
    BY <1>2, <1>3, <1>7
  <2>2. \A c : c \in 2 * a .. 2 * a + 1 => c = 2 * a \/ c = 2 * a + 1
    BY <1>5
  <2>3. \A c : c \in 2 * b .. 2 * b + 1 => c = 2 * b \/ c = 2 * b + 1
    BY <1>5
  <2>4. 2 * a + 1 # 2 * b + 1
    BY <1>5, <2>1
  <2> QED
    BY <1>2, <1>3, <1>5, <2>1, <2>2, <2>3, <2>4, Zenon
<1> QED
  BY <1>6, <1>7

\* The invariant holds after the load.
LEMMA InitInv == Init => IInv
<1> SUFFICES ASSUME Init PROVE IInv
  OBVIOUS
<1>1. PICK place \in [Loaded -> {2 * i : i \in 1 .. (MemSize \div 2) - 1}] :
           /\ \A j, k \in Loaded : j # k => place[j] # place[k]
           /\ ptr = [k \in Keys |-> IF k \in Loaded THEN [size |-> 1, off |-> place[k]] ELSE NoPtr]
           /\ used = {<<0, 2>>} \cup {<<place[k], 2>> : k \in Loaded}
           /\ mem = [c \in Cells |->
                        IF \E k \in Loaded : c = place[k] THEN <<CHOOSE k \in Loaded : c = place[k], 1>>
                        ELSE IF \E k \in Loaded : c = place[k] + 1 THEN Flag(1)
                        ELSE Flag(0)]
  BY Zenon DEF Init
<1>2. /\ exists = [k \in Keys |-> k \in Loaded] /\ free_queue = <<>> /\ wpc = [k \in Keys |-> "idle"]
      /\ new = [k \in Keys |-> 0] /\ cache = [k \in Keys |-> NoItem] /\ rd = [r \in Readers |-> IdleReader]
      /\ now = 0
  BY Zenon DEF Init
<1>3. \A j, k \in Loaded :
              /\ place[k] \in Nat /\ place[k] \in Cells /\ place[k] + 1 \in Cells /\ place[k] # place[j] + 1
              /\ j # k => (place[j] .. place[j] + 1) \cap (place[k] .. place[k] + 1) = {}
  BY <1>1, LoadedBlocks
<1>4. Loaded \subseteq Keys /\ \A k \in Loaded : ptr[k].size = 1 /\ ptr[k].off = place[k]
  BY <1>1, EdgeStoreAssumption, Zenon
<1>5. \A k \in Keys \ Loaded : ptr[k].size = 0
  BY <1>1 DEF NoPtr
<1>6. TypeOK
  <2>1. mem = [c \in Cells |-> mem[c]]
    BY <1>1
  <2>2. ptr \in [Keys -> Ptrs]
    <3>1. NoPtr \in Ptrs /\ \A k \in Loaded : [size |-> 1, off |-> place[k]] \in Ptrs
      BY <1>3 DEF NoPtr, Ptrs
    <3> QED
      BY <1>1, <3>1
  <2>3. \A k \in Keys : ptr[k].size <= MaxSize
    BY <1>4, <1>5, ConstFacts
  <2>4. NoItem \in Items
    BY Zenon DEF NoItem, NoPtr, Ptrs, Items
  <2>5. IdleReader \in ReaderStates(IdleReader.data)
    BY EdgeStoreAssumption DEF IdleReader, ReaderStates, ReadPcs, NoPtr, Ptrs
  <2>6. /\ DOMAIN rd = Readers /\ \A r \in Readers : rd[r] \in ReaderStates(rd[r].data)
    BY <1>2, <2>5
  <2>7. free_queue \in Seq(Pending)
    BY <1>2
  <2>8. /\ exists \in [Keys -> BOOLEAN] /\ new \in [Keys -> Nat] /\ now \in Nat
        /\ wpc \in [Keys -> {"idle", "locked", "invalidate", "publish", "value", "size"}]
    BY <1>2
  <2>9. cache \in [Keys -> Items]
    BY <1>2, <2>4, Zenon
  <2> QED
    BY <2>1, <2>2, <2>3, <2>6, <2>7, <2>8, <2>9, Zenon DEF TypeOK
<1>7. WriterInv
  <2>1. \A k \in Loaded : exists[k]
    BY <1>2, <1>4, ZenonT(30)
  <2>2. \A k \in Keys : wpc[k] = "idle"
    BY <1>2
  <2> QED
    BY <1>4, <2>1, <2>2 DEF WriterInv
<1>8. OwnerInv
  <2>1. ASSUME NEW o \in Owners PROVE \E k \in Loaded : o = <<"key", k>>
    <3>1. DOMAIN free_queue = {} /\ \A k \in Keys : ~ Filling(k)
      BY <1>2, SMTT(30) DEF Filling
    <3> QED
      BY <1>5, <3>1, OwnerForms, Zenon DEF OwnerKinds
  <2>2. ASSUME NEW k \in Loaded
        PROVE  /\ Blk(<<"key", k>>) = <<place[k], 2>> /\ <<place[k], 2>> \in used
               /\ CellsOf(<<place[k], 2>>) = place[k] .. place[k] + 1
    <3>1. BlockOf(ptr[k]) = <<place[k], 2>>
      BY <1>4, BlockTwo DEF BlockOf
    <3>2. Blk(<<"key", k>>) = BlockOf(ptr[k])
      BY DEF Blk
    <3>3. place[k] + 2 - 1 = place[k] + 1
      BY <1>3
    <3> QED
      BY <1>1, <3>1, <3>2, <3>3, Zenon DEF CellsOf
  <2>3. ASSUME NEW k \in Loaded
        PROVE  place[k] \in place[k] .. place[k] + 1 /\ place[k] .. place[k] + 1 \subseteq Cells
    <3>1. \A c : c \in place[k] .. place[k] + 1 => c = place[k] \/ c = place[k] + 1
      BY <1>3
    <3> QED
      BY <1>3, <3>1
  <2>4. ASSUME NEW o \in Owners PROVE Blk(o) \in used /\ CellsOf(Blk(o)) # {} /\ CellsOf(Blk(o)) \subseteq Cells
    BY <2>1, <2>2, <2>3, Zenon
  <2>5. ASSUME NEW o \in Owners, NEW p \in Owners, o # p PROVE CellsOf(Blk(o)) \cap CellsOf(Blk(p)) = {}
    <3>1. PICK j \in Loaded : o = <<"key", j>>
      BY <2>1
    <3>2. PICK k \in Loaded : p = <<"key", k>>
      BY <2>1
    <3> QED
      BY <1>3, <2>2, <2>5, <3>1, <3>2, Zenon
  <2> QED
    BY <2>4, <2>5 DEF OwnerInv
<1>9. ContentInv
  <2>1. ASSUME NEW k \in Keys PROVE NewAt(k)
    BY <1>2 DEF NewAt, Filling
  <2>2. ASSUME NEW k \in Loaded PROVE KeyAt(k)
    <3>1. mem[place[k]] = <<k, 1>>
      BY <1>1, <1>3, Zenon
    <3>2. mem[place[k] + 1] = Flag(1)
      BY <1>1, <1>3
    <3>3. Holds(k, place[k], 1)
      BY <1>3, <3>1 DEF Holds
    <3>4. FlagCell(1, place[k]) = place[k] + 1
      BY <1>3, BlockTwo DEF FlagCell
    <3>5. KeyFlag(k) = Flag(1) /\ wpc[k] = "idle"
      BY <1>2, <1>4, Zenon DEF KeyFlag
    <3> QED
      BY <1>4, <3>2, <3>3, <3>4, <3>5, Zenon DEF KeyAt
  <2>3. ASSUME NEW k \in Keys \ Loaded PROVE KeyAt(k)
    BY <1>5, Zenon DEF KeyAt
  <2> QED
    BY <2>1, <2>2, <2>3, Zenon DEF ContentInv
<1>10. CacheInv
  <2>1. \A k \in Keys : cache[k].born = 0 /\ cache[k].v.size = 0
    BY <1>2 DEF NoItem, NoPtr
  <2>2. 0 <= now
    BY <1>2
  <2> QED
    BY <2>1, <2>2, Zenon DEF CacheInv, SafeFrom
<1>11. \A r \in Readers : rd[r].pc = "idle" /\ rd[r].born = 0 /\ 0 <= now
  BY <1>2 DEF IdleReader
<1>12. ReaderInv /\ SeenInv
  <2>1. \A k \in Loaded : ~ (now < cache[k].expire)
    BY <1>2, <1>4, SMTT(30) DEF NoItem
  <2> QED
    BY <1>11, <2>1, Zenon DEF ReaderInv, ReaderAt, SeenInv, SeenAt
<1>13. KeyInv
  <2>1. \A k \in Loaded : exists[k]
    BY <1>2, <1>4, ZenonT(30)
  <2>2. \A k \in Keys \ Loaded : ptr[k].size = 0 /\ wpc[k] = "idle"
    BY <1>2, <1>5
  <2> QED
    BY <2>1, <2>2, Zenon DEF KeyInv
<1> QED
  BY <1>6, <1>7, <1>8, <1>9, <1>10, <1>12, <1>13 DEF IInv, StoreInv

\* The store's part of the invariant is inductive with caching.
LEMMA StoreStep ==
    ASSUME StoreInv, Caching, [Next]_vars
    PROVE  StoreInv'
<1>0. TypeOK /\ WriterInv /\ OwnerInv /\ ContentInv /\ CacheInv /\ ReaderInv
  BY DEF StoreInv
<1>1. ASSUME NEW k \in Keys, InsertKey(k) \/ InsertStep(k) PROVE StoreInv'
  BY <1>0, <1>1, TypeWriter, WriterStep, OwnerStep, ContentStep, PointersWriter DEF StoreInv
<1>2. ASSUME NEW r \in Readers, ReadStep(r) \/ \E k \in Keys : Begin(r, k) PROVE StoreInv'
  <2>1. ReadsOnly(r) /\ TypeOK'
    BY <1>0, <1>2, TypeCache, TypeReader
  <2>2. WriterInv' /\ OwnerInv' /\ ContentInv'
    BY <1>0, <2>1, ReadsKeep
  <2> QED
    BY <1>0, <1>2, <2>1, <2>2, PointersReader DEF StoreInv
<1>3. ASSUME UNCHANGED <<store, wpc, new, cache, rd>>, now' \in Nat, now <= now' PROVE StoreInv'
  <2>1. UNCHANGED <<mem, exists, ptr, used, free_queue, wpc, new, cache, rd>> /\ now \in Nat
    BY <1>0, <1>3, Zenon DEF store, TypeOK
  <2>2. TypeOK'
    BY <1>0, <1>3, <2>1, Zenon DEF TypeOK
  <2>3. WriterInv'
    BY <1>0, <2>1, Zenon DEF WriterInv, Room
  <2>4. OwnerInv'
    <3>1. Owners' = Owners
      BY <2>1, Zenon DEF Owners, Filling
    <3>2. \A o : Blk(o)' = Blk(o)
      BY <2>1, Zenon DEF Blk, NewBlk, BlockOf
    <3> QED
      BY <1>0, <2>1, <3>1, <3>2, Zenon DEF OwnerInv, CellsOf
  <2>5. ContentInv'
    BY <1>0, <2>1, ZenonT(30) DEF ContentInv, KeyAt, NewAt, Holds, KeyFlag, Value, Filling
  <2>6. ASSUME NEW j, NEW v, NEW b \in Nat, b <= now, SafeFrom(j, v, b) PROVE b <= now' /\ SafeFrom(j, v, b)'
    <3>1. b <= now' /\ (now' < b + Lease => now < b + Lease)
      BY ONLY <1>3, <2>1, <2>6, ConstFacts
    <3>2. Safe(j, v, b + Lease)' <=> Safe(j, v, b + Lease)
      BY <2>1, Zenon DEF Safe, Holds
    <3> QED
      BY <2>6, <3>1, <3>2, Zenon DEF SafeFrom
  <2>7. CacheInv'
    <3>1. SUFFICES ASSUME NEW k \in Keys PROVE cache'[k].born <= now' /\ SafeFrom(k, cache[k].v, cache[k].born)'
      BY <2>1, Zenon DEF CacheInv, SafeFrom, Safe, Holds
    <3>2. cache[k] \in Items /\ cache[k].born <= now /\ SafeFrom(k, cache[k].v, cache[k].born)
      BY <1>0 DEF TypeOK, CacheInv
    <3>3. PICK v \in Ptrs, b \in Nat : v = cache[k].v /\ b = cache[k].born
      BY <3>2 DEF Items
    <3>4. b <= now' /\ SafeFrom(k, v, b)'
      BY <2>6, <3>2, <3>3
    <3>5. cache'[k].v = v /\ cache'[k].born = b
      BY <2>1, <3>3
    <3> QED
      BY <3>4, <3>5, Zenon DEF SafeFrom, Safe, Holds
  <2>8. ReaderInv'
    <3>1. SUFFICES ASSUME NEW r \in Readers PROVE ReaderAt(r)'
      BY DEF ReaderInv
    <3>2. PICK j \in Keys, v \in Ptrs, b \in Nat : j = rd[r].key /\ v = rd[r].v /\ b = rd[r].born
      BY <1>0, ReaderRecord
    <3>3. b <= now /\ (rd[r].pc \in {"cache", "edges", "flag"} => SafeFrom(j, v, b))
      BY <1>0, <3>2 DEF ReaderInv, ReaderAt
    <3>4. b <= now' /\ (rd[r].pc \in {"cache", "edges", "flag"} => SafeFrom(j, v, b)')
      BY <1>3, <2>1, <2>6, <3>3, ConstFacts, SMTT(30)
    <3>5. rd'[r] = rd[r]
      BY <2>1
    <3> QED
      BY <3>2, <3>4, <3>5, ZenonT(30) DEF ReaderAt, SafeFrom, Safe, Holds
  <2> QED
    BY <2>2, <2>3, <2>4, <2>5, <2>7, <2>8, Zenon DEF StoreInv
<1>4. now \in Nat
  BY <1>0 DEF TypeOK
<1>5. CASE Tick
  BY <1>3, <1>4, <1>5 DEF Tick
<1>6. CASE UNCHANGED vars
  BY <1>3, <1>4, <1>6 DEF vars
<1> QED
  BY <1>1, <1>2, <1>5, <1>6 DEF Next

\* So is the whole of it.
LEMMA SeenStep ==
    ASSUME IInv, Caching, [Next]_vars
    PROVE  KeyInv' /\ SeenInv'
<1>0. TypeOK /\ WriterInv /\ KeyInv /\ ContentInv /\ CacheInv /\ ReaderInv /\ SeenInv
  BY DEF IInv, StoreInv
<1>1. ASSUME NEW k \in Keys, InsertKey(k) \/ InsertStep(k) PROVE KeyInv' /\ SeenInv'
  BY <1>0, <1>1, KeyStep, SeenWriter
<1>2. ASSUME NEW r \in Readers, ReadStep(r) \/ \E k \in Keys : Begin(r, k) PROVE KeyInv' /\ SeenInv'
  BY <1>0, <1>2, TypeCache, ReadsKeep, SeenReader
<1>3. ASSUME UNCHANGED <<exists, ptr, wpc, cache, rd>>, now' \in Nat, now <= now' PROVE KeyInv' /\ SeenInv'
  <2>1. ASSUME NEW k \in Loaded, now' < cache'[k].expire PROVE cache'[k].v.size # 0
    <3>1. cache[k] \in Items /\ now \in Nat
      BY <1>0, EdgeStoreAssumption DEF TypeOK
    <3>2. now < cache[k].expire
      BY <1>3, <2>1, <3>1 DEF Items
    <3> QED
      BY <1>0, <1>3, <3>2 DEF SeenInv
  <2>2. ASSUME NEW r \in Readers PROVE SeenAt(r)'
    <3>1. rd[r].born \in Nat /\ now \in Nat /\ rd' = rd
      BY <1>0, <1>3, ReaderRecord DEF TypeOK
    <3>2. InTime(r)' => InTime(r)
      BY <1>3, <3>1, ConstFacts DEF InTime
    <3> QED
      BY <1>0, <1>3, <3>2, Zenon DEF SeenInv, SeenAt, Edges
  <2>3. KeyInv'
    BY <1>0, <1>3 DEF KeyInv
  <2> QED
    BY <2>1, <2>2, <2>3 DEF SeenInv
<1>4. now \in Nat
  BY <1>0 DEF TypeOK
<1>5. CASE Tick
  BY <1>3, <1>4, <1>5 DEF Tick, store
<1>6. CASE UNCHANGED vars
  BY <1>3, <1>4, <1>6 DEF vars, store
<1> QED
  BY <1>1, <1>2, <1>5, <1>6 DEF Next

\* Within its lease, an item points to the block of its key or to a pending one.
LEMMA LeaseImplied == StoreInv => LeaseCovers
<1> SUFFICES ASSUME StoreInv, NEW k \in Keys, now < cache[k].born + Lease, cache[k].v.size # 0,
                    NEW j \in Keys \ {k}, ptr[j].size # 0
             PROVE  CellsOf(BlockOf(ptr[j])) \cap CellsOf(BlockOf(cache[k].v)) = {}
  BY DEF LeaseCovers
<1>0. TypeOK /\ OwnerInv /\ CacheInv
  BY DEF StoreInv
<1>1. Safe(k, cache[k].v, cache[k].born + Lease)
  BY <1>0 DEF CacheInv, SafeFrom
<1>2. <<"key", j>> \in Owners /\ Blk(<<"key", j>>) = BlockOf(ptr[j])
  BY <1>0, KeyBlock, Zenon
<1>3. \E o \in Owners : o # <<"key", j>> /\ Blk(o) = BlockOf(cache[k].v)
  <2>1. CASE BlockOf(cache[k].v) = BlockOf(ptr[k])
    <3>1. cache[k] \in Items
      BY <1>0 DEF TypeOK
    <3>2. cache[k].v.size \in Nat /\ ptr[k].size \in Nat /\ cache[k].v.size <= ptr[k].size
      BY <1>0, <1>1, <3>1, SizeFacts DEF Safe, Ptrs, Items
    <3>3. ptr[k].size # 0
      BY <3>2
    <3> QED
      BY <1>0, <2>1, <3>3, KeyBlock, Zenon
  <2>2. CASE \E i \in DOMAIN free_queue : free_queue[i].blk = BlockOf(cache[k].v)
    BY <2>2, OwnerForms, Zenon DEF OwnerKinds
  <2> QED
    BY <1>1, <2>1, <2>2, Zenon DEF Safe
<1> QED
  BY <1>0, <1>2, <1>3, Zenon DEF OwnerInv

\* The answer of a read that has ended in time.
LEMMA SnapshotImplied == IInv => Snapshot
<1> SUFFICES ASSUME IInv, NEW r \in Readers, rd[r].pc = "done", now < rd[r].born + Lease
             PROVE  /\ rd[r].data = [i \in 1 .. Len(rd[r].data) |-> <<rd[r].key, i>>]
                    /\ Len(rd[r].data) <= ptr[rd[r].key].size
                    /\ \/ Len(rd[r].data) >= rd[r].from
                       \/ Len(rd[r].data) = 0 /\ r \in Remote /\ rd[r].key \notin Loaded
  BY Zenon DEF Snapshot
<1>1. /\ rd[r].data = [i \in 1 .. rd[r].v.size |-> <<rd[r].key, i>>]
      /\ rd[r].v.size <= ptr[rd[r].key].size
      /\ rd[r].v.size >= rd[r].from \/ (rd[r].v.size = 0 /\ r \in Remote /\ rd[r].key \notin Loaded)
  BY Zenon DEF IInv, SeenInv, SeenAt, InTime, Edges
<1>2. rd[r].v.size \in Nat
  BY ReaderRecord DEF IInv, StoreInv, Ptrs
<1>3. Len(rd[r].data) = rd[r].v.size
  BY <1>1, <1>2
<1> QED
  BY <1>1, <1>3, Zenon

\* With caching, for a lease from the time a vertex left the header, however
\* late it is inserted into the cache, the block it points to is not given to
\* another key: it is the key's, or pending with a lease that ends no earlier,
\* and sweep_free leaves it.
THEOREM LeaseOutlivesCache ==
    ASSUME Caching
    PROVE  Spec => []LeaseCovers
<1>1. Init => StoreInv
  BY InitInv DEF IInv
<1>2. StoreInv /\ [Next]_vars => StoreInv'
  BY StoreStep
<1>3. StoreInv => LeaseCovers
  BY LeaseImplied
<1> QED
  BY <1>1, <1>2, <1>3, PTL DEF Spec

\* With caching, a read of any key that ends within a lease of the time its
\* vertex left the header returns the edges of the key as they were at some
\* moment of the read, or, for a key that had none when the vertex was cached,
\* none: the flag that insert_vertex_edge writes before it publishes a new
\* block makes edge_is_valid reject the old.
THEOREM ReadsAreSnapshots ==
    ASSUME Caching
    PROVE  Spec => []Snapshot
<1>1. Init => IInv
  BY InitInv
<1>2. IInv /\ [Next]_vars => IInv'
  <2> SUFFICES ASSUME IInv, [Next]_vars PROVE IInv'
    OBVIOUS
  <2>1. StoreInv'
    BY StoreStep DEF IInv
  <2>2. KeyInv' /\ SeenInv'
    BY SeenStep
  <2> QED
    BY <2>1, <2>2 DEF IInv
<1>3. IInv => Snapshot
  BY SnapshotImplied
<1> QED
  BY <1>1, <1>2, <1>3, PTL DEF Spec

=============================================================================
