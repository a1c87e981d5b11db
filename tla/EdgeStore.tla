----------------------------- MODULE EdgeStore -----------------------------
(***************************************************************************)
(* The edges of a dynamic store (DYNAMIC_GSTORE in core/gstore.hpp): one   *)
(* server inserts edges into its memory while local threads read them and  *)
(* a remote server reads them with RDMA, through its cache of vertices.    *)
(* A key's edges are a block of cells that ends with a size flag.  The     *)
(* i-th edge inserted for key k is <<k, i>>, so that a reader's answer     *)
(* tells what it has seen.                                                 *)
(*                                                                         *)
(* RDMA reads take no locks: each access of a reader, and each write of    *)
(* the inserting thread, is a step.  Time passes with Tick; a lease is a   *)
(* number of ticks.  Which free block the allocator chooses is left open   *)
(* (module Buddy models how).                                              *)
(***************************************************************************)
EXTENDS Integers, Sequences, FiniteSets, FiniteSetsExt, Functions

CONSTANTS
    Keys,
    Loaded,         \* the keys that have an edge before anything is inserted
    Remote, Local,  \* the reading threads of the other server, and of this one
    Caching,        \* global_enable_caching
    Lease,          \* of the cache and of pending frees, in ticks
    MaxSize, MaxTime, MemSize,  \* bounds: edges of a key, ticks, cells,
    MaxReads                    \* reads at a time

ASSUME EdgeStoreAssumption ==
    /\ Keys # {} /\ Loaded \subseteq Keys
    /\ Caching \in BOOLEAN
    /\ {Lease, MaxSize, MaxTime, MemSize, MaxReads} \subseteq Nat \ {0}

\* Facts of arithmetic that the proofs use: the provers have no rules for ^.
ASSUME PowerAssumption ==
    /\ 2^1 = 2 /\ 2^MaxSize > MaxSize
    /\ \A k \in 1 .. MaxSize : 2^k \in Nat

Readers == Remote \cup Local
Cells == 0 .. MemSize - 1
Flag(n) == <<"size", n>>
INVALID_EDGES == Flag(-1)
NoPtr == [size |-> 0, off |-> 0]

VARIABLES
    mem,            \* the cells of the entry region
    exists, ptr,    \* of each key: it is in the header region; its iptr_t
    used,           \* the blocks in use, as <<offset, cells>>
    free_queue,     \* the blocks to be freed, with their expire_time
    wpc, new,       \* of an insertion of each key: next step, new offset
    cache,          \* the remote server's RDMA_Cache
    rd,             \* the state of each reader
    now

store == <<mem, exists, ptr, used, free_queue>>
vars == <<store, wpc, new, cache, rd, now>>

-----------------------------------------------------------------------------
(* Blocks.                                                                 *)

\* The size of the block that is allocated for sz cells.
blksz(sz) == 2 ^ Min({k \in 1 .. MaxSize : 2^k >= sz})

\* Where insert_sz puts the flag of sz edges, and edge_is_valid looks for it.
FlagCell(sz, off) == off + blksz(sz + 1) - 1

BlockOf(p) == <<p.off, blksz(p.size + 1)>>
CellsOf(b) == b[1] .. b[1] + b[2] - 1

\* Mutant of Swept: pending blocks are freed at once.
Swept_AtOnce == <<>>

\* sweep_free: what is left in the queue, from the first block whose lease
\* has not ended.  The queue is empty without caching.
Swept ==
    LET live == {i \in DOMAIN free_queue : now < free_queue[i].expire}
    IN  IF live = {} THEN <<>> ELSE SubSeq(free_queue, Min(live), Len(free_queue))

\* The offsets at which the allocator can place n cells.
Places(n, taken) ==
    {off \in Cells : /\ off % n = 0 /\ off + n <= MemSize
                     /\ \A b \in taken : CellsOf(b) \cap (off .. off + n - 1) = {}}

-----------------------------------------------------------------------------
(* insert_vertex_edge, for the next edge of key k.  The lock of the bucket  *)
(* admits one insertion at a time.                                         *)

Value(k) == <<k, ptr[k].size + 1>>

\* insert_key publishes the key, in a critical section of its own.
InsertKey(k) ==
    /\ wpc[k] = "idle" /\ ptr[k].size < MaxSize
    /\ exists' = [exists EXCEPT ![k] = TRUE]
    /\ wpc' = [wpc EXCEPT ![k] = "locked"]
    /\ UNCHANGED <<mem, ptr, used, free_queue, new, cache, rd, now>>

Room(k) == ptr[k].size # 0 /\ blksz(ptr[k].size + 1) - 1 >= ptr[k].size + 1

\* A new block: alloc_edges with sweep_free, the old edges and the new one.
NewBlock(k) ==
    LET n == ptr[k].size + 1
        b == blksz(n + 1)
        left == Swept
        taken == used \ {q.blk : q \in Range(free_queue) \ Range(left)}
    IN  /\ wpc[k] = "locked" /\ ~ Room(k)
        /\ \E off \in Places(b, taken) :
              /\ mem' = [c \in Cells |->
                            IF c = FlagCell(n, off) THEN Flag(n)
                            ELSE IF c = off + n - 1 THEN Value(k)
                            ELSE IF c \in off .. off + n - 2 THEN mem[ptr[k].off + (c - off)]
                            ELSE mem[c]]
              /\ new' = [new EXCEPT ![k] = off]
              /\ used' = taken \cup {<<off, b>>}
        /\ free_queue' = left
        /\ wpc' = [wpc EXCEPT ![k] = IF ptr[k].size = 0 THEN "publish" ELSE "invalidate"]
        /\ UNCHANGED <<exists, ptr, cache, rd, now>>

\* Mutant of InvalidateOld: the flag of the old block stays.
InvalidateOld_Kept(k) ==
    /\ wpc[k] = "invalidate"
    /\ wpc' = [wpc EXCEPT ![k] = "publish"]
    /\ UNCHANGED <<mem, exists, ptr, used, free_queue, new, cache, rd, now>>

InvalidateOld(k) ==
    /\ wpc[k] = "invalidate"
    /\ mem' = [mem EXCEPT ![FlagCell(ptr[k].size, ptr[k].off)] = INVALID_EDGES]
    /\ wpc' = [wpc EXCEPT ![k] = "publish"]
    /\ UNCHANGED <<exists, ptr, used, free_queue, new, cache, rd, now>>

\* The new pointer; the old block is freed, at once or when its lease ends.
Publish(k) ==
    /\ wpc[k] = "publish"
    /\ ptr' = [ptr EXCEPT ![k] = [size |-> @.size + 1, off |-> new[k]]]
    /\ LET old == BlockOf(ptr[k])
       IN  /\ free_queue' = IF ptr[k].size # 0 /\ Caching
                            THEN Append(free_queue, [blk |-> old, expire |-> now + Lease])
                            ELSE free_queue
           /\ used' = IF ptr[k].size # 0 /\ ~ Caching THEN used \ {old} ELSE used
    /\ wpc' = [wpc EXCEPT ![k] = "idle"]
    /\ UNCHANGED <<mem, exists, new, cache, rd, now>>

\* Room in the block: first the flag, ...
InPlaceFlag(k) ==
    /\ wpc[k] = "locked" /\ Room(k)
    /\ mem' = [mem EXCEPT ![FlagCell(ptr[k].size + 1, ptr[k].off)] = Flag(ptr[k].size + 1)]
    /\ wpc' = [wpc EXCEPT ![k] = "value"]
    /\ UNCHANGED <<exists, ptr, used, free_queue, new, cache, rd, now>>

\* ... then the edge ...
InPlaceValue(k) ==
    /\ wpc[k] = "value"
    /\ mem' = [mem EXCEPT ![ptr[k].off + ptr[k].size] = Value(k)]
    /\ wpc' = [wpc EXCEPT ![k] = "size"]
    /\ UNCHANGED <<exists, ptr, used, free_queue, new, cache, rd, now>>

\* ... and the size.
InPlaceSize(k) ==
    /\ wpc[k] = "size"
    /\ ptr' = [ptr EXCEPT ![k].size = @ + 1]
    /\ wpc' = [wpc EXCEPT ![k] = "idle"]
    /\ UNCHANGED <<mem, exists, used, free_queue, new, cache, rd, now>>

InsertStep(k) ==
    \/ NewBlock(k) \/ InvalidateOld(k) \/ Publish(k)
    \/ InPlaceFlag(k) \/ InPlaceValue(k) \/ InPlaceSize(k)

-----------------------------------------------------------------------------
(* Reading the edges of a key.  Two things are recorded for the properties  *)
(* only: "from", the number of its edges when the read begins, and "born",  *)
(* when the vertex that the reader or the cache holds left the header.     *)

IdleReader ==
    [pc |-> "idle", key |-> CHOOSE k \in Keys : TRUE, v |-> NoPtr, data |-> <<>>, from |-> 0, born |-> 0]
NoItem == [v |-> NoPtr, expire |-> 0, born |-> 0]

Go(r, pc) == rd' = [rd EXCEPT ![r].pc = pc]

Begin(r, k) ==
    /\ rd[r].pc = "idle" /\ Cardinality({q \in Readers : rd[q].pc # "idle"}) < MaxReads
    /\ rd' = [rd EXCEPT ![r] = [pc |-> IF r \in Remote THEN "lookup" ELSE "vertex", key |-> k,
                                v |-> NoPtr, data |-> <<>>, from |-> ptr[k].size, born |-> 0]]
    /\ UNCHANGED <<store, wpc, new, cache, now>>

\* RDMA_Cache::lookup
Lookup(r) ==
    LET item == cache[rd[r].key]
    IN  /\ rd[r].pc = "lookup"
        /\ IF Caching /\ now < item.expire
           THEN rd' = [rd EXCEPT ![r].v = item.v, ![r].born = item.born, ![r].pc = "edges"]
           ELSE Go(r, "vertex")
        /\ UNCHANGED <<store, wpc, new, cache, now>>

\* get_vertex_local, or the RDMA read of the vertex.
ReadVertex(r) ==
    LET k == rd[r].key
    IN  /\ rd[r].pc = "vertex"
        /\ IF exists[k]
           THEN rd' = [rd EXCEPT ![r].v = ptr[k], ![r].born = now,
                          ![r].pc = IF r \in Remote /\ Caching THEN "cache" ELSE "edges"]
           ELSE rd' = [rd EXCEPT ![r].v = NoPtr, ![r].born = now, ![r].data = <<>>, ![r].pc = "done"]
        /\ UNCHANGED <<store, wpc, new, cache, now>>

\* RDMA_Cache::insert; the lease begins when the item is inserted.
InsertCache(r) ==
    /\ rd[r].pc = "cache"
    /\ cache' = [cache EXCEPT ![rd[r].key] = [v |-> rd[r].v, expire |-> now + Lease, born |-> rd[r].born]]
    /\ Go(r, "edges")
    /\ UNCHANGED <<store, wpc, new, now>>

\* The block is read in address order: the edges, then the flag.
ReadEdges(r) ==
    /\ rd[r].pc = "edges"
    /\ rd' = [rd EXCEPT ![r].data = [i \in 1 .. rd[r].v.size |-> mem[rd[r].v.off + i - 1]],
                        ![r].pc = IF r \in Remote THEN "flag" ELSE "done"]
    /\ UNCHANGED <<store, wpc, new, cache, now>>

edge_is_valid(v) == ~ Caching \/ mem[FlagCell(v.size, v.off)] = Flag(v.size)

ReadFlag(r) ==
    /\ rd[r].pc = "flag"
    /\ Go(r, IF edge_is_valid(rd[r].v) THEN "done" ELSE "invalid")
    /\ UNCHANGED <<store, wpc, new, cache, now>>

\* Mutant of Invalidate: the item stays in the cache.
Invalidate_Kept(r) ==
    /\ rd[r].pc = "invalid"
    /\ rd' = [rd EXCEPT ![r] = [@ EXCEPT !.v = NoPtr, !.data = <<>>, !.born = 0, !.pc = "lookup"]]
    /\ UNCHANGED <<store, wpc, new, cache, now>>

\* RDMA_Cache::invalidate, and again
Invalidate(r) ==
    /\ rd[r].pc = "invalid"
    /\ cache' = [cache EXCEPT ![rd[r].key] = NoItem]
    /\ rd' = [rd EXCEPT ![r] = [@ EXCEPT !.v = NoPtr, !.data = <<>>, !.born = 0, !.pc = "lookup"]]
    /\ UNCHANGED <<store, wpc, new, now>>

Return(r) ==
    /\ rd[r].pc = "done"
    /\ rd' = [rd EXCEPT ![r] = IdleReader]
    /\ UNCHANGED <<store, wpc, new, cache, now>>

ReadStep(r) ==
    \/ Lookup(r) \/ ReadVertex(r) \/ InsertCache(r) \/ ReadEdges(r)
    \/ ReadFlag(r) \/ Invalidate(r) \/ Return(r)

Tick ==
    /\ now < MaxTime
    /\ now' = now + 1
    /\ UNCHANGED <<store, wpc, new, cache, rd>>

-----------------------------------------------------------------------------
(* The first block, at offset 0, is the allocator's own; it is zero where   *)
(* a flag would be, unless the bulk load left raw triples there.  The       *)
(* loaded keys have a block with one edge each.                            *)

Init ==
    /\ \E place \in [Loaded -> {2 * i : i \in 1 .. (MemSize \div 2) - 1}] :
           /\ \A j, k \in Loaded : j # k => place[j] # place[k]
           /\ ptr = [k \in Keys |-> IF k \in Loaded THEN [size |-> 1, off |-> place[k]] ELSE NoPtr]
           /\ used = {<<0, 2>>} \cup {<<place[k], 2>> : k \in Loaded}
           /\ mem = [c \in Cells |->
                        IF \E k \in Loaded : c = place[k] THEN <<CHOOSE k \in Loaded : c = place[k], 1>>
                        ELSE IF \E k \in Loaded : c = place[k] + 1 THEN Flag(1)
                        ELSE Flag(0)]
    /\ exists = [k \in Keys |-> k \in Loaded]
    /\ free_queue = <<>>
    /\ wpc = [k \in Keys |-> "idle"]
    /\ new = [k \in Keys |-> 0]
    /\ cache = [k \in Keys |-> NoItem]
    /\ rd = [r \in Readers |-> IdleReader]
    /\ now = 0

Next ==
    \/ \E k \in Keys : InsertKey(k) \/ InsertStep(k)
    \/ \E r \in Readers : ReadStep(r) \/ \E k \in Keys : Begin(r, k)
    \/ Tick

Spec == Init /\ [][Next]_vars

\* Threads run: an insertion that has begun goes on, and so does a read.
FairSpec ==
    /\ Spec
    /\ \A k \in Keys : WF_vars(InsertStep(k))
    /\ \A r \in Readers : WF_vars(ReadStep(r))

-----------------------------------------------------------------------------
(* Properties.                                                             *)

\* What get_edges_local and get_edges_remote return within a lease of the time
\* the vertex left the header, from the cache or not, is the list of the edges
\* of the key at some moment of the read: no edge of another key, no edge that
\* was present when the read began is missing, none is torn.  One answer may be
\* older: that a key has no edges, from an item that was cached between
\* insert_key and the first edge; its flag is never invalidated.
Snapshot ==
    \A r \in Readers : rd[r].pc = "done" /\ now < rd[r].born + Lease =>
        LET k == rd[r].key
            n == Len(rd[r].data)
        IN  /\ rd[r].data = [i \in 1 .. n |-> <<k, i>>]
            /\ n <= ptr[k].size
            /\ n >= rd[r].from \/ (n = 0 /\ r \in Remote /\ k \notin Loaded)

\* Within a lease of the time a vertex left the header, however late it was
\* put into the cache, the block that the item points to is not given to
\* another key: pend_free keeps it for as long from the time it is replaced.
LeaseCovers ==
    \A k \in Keys : now < cache[k].born + Lease /\ cache[k].v.size # 0 =>
        \A j \in Keys \ {k} : ptr[j].size # 0 =>
            CellsOf(BlockOf(ptr[j])) \cap CellsOf(BlockOf(cache[k].v)) = {}

\* A read ends, however the retries of get_edges_remote meet insertions.
ReadReturns == \A r \in Readers : rd[r].pc = "lookup" ~> rd[r].pc = "done"

=============================================================================
