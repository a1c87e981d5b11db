------------------------- MODULE EdgeStoreInvariant -------------------------
(***************************************************************************)
(* The inductive invariant of EdgeStore.  Every block of the entry region  *)
(* has one owner: a key, an insertion that fills it, or the queue of       *)
(* pending frees.  A pointer that a reader or the cache holds is to the    *)
(* block of its key, or to a pending block, for a lease from the time it   *)
(* was read.                                                               *)
(***************************************************************************)
EXTENDS EdgeStore

Ptrs == [size : Nat, off : Nat]
ReadPcs == {"idle", "lookup", "vertex", "cache", "edges", "flag", "invalid", "done"}
ReaderStates(d) == [pc : ReadPcs, key : Keys, v : Ptrs, data : {d}, from : Nat, born : Nat]
Items == [v : Ptrs, expire : Nat, born : Nat]
Pending == [blk : Nat \X Nat, expire : Nat]

\* The state has the expected types; a reader may hold whatever was in the
\* cells.
TypeOK ==
    /\ mem = [c \in Cells |-> mem[c]]
    /\ exists \in [Keys -> BOOLEAN]
    /\ ptr \in [Keys -> Ptrs] /\ \A k \in Keys : ptr[k].size <= MaxSize
    /\ free_queue \in Seq(Pending)
    /\ wpc \in [Keys -> {"idle", "locked", "invalidate", "publish", "value", "size"}]
    /\ new \in [Keys -> Nat]
    /\ cache \in [Keys -> Items]
    /\ DOMAIN rd = Readers
    /\ \A r \in Readers : rd[r] \in ReaderStates(rd[r].data)
    /\ now \in Nat

\* Where an insertion is, given the room in the block; the keys that were
\* loaded have edges.
WriterInv ==
    /\ \A k \in Keys : wpc[k] # "idle" => ptr[k].size < MaxSize
    /\ \A k \in Keys : wpc[k] \in {"value", "size"} => Room(k)
    /\ \A k \in Keys : wpc[k] = "invalidate" => ptr[k].size # 0
    /\ \A k \in Loaded : exists[k] /\ ptr[k].size # 0

-----------------------------------------------------------------------------
(* Blocks and their owners.                                                *)

Filling(k) == wpc[k] \in {"invalidate", "publish"}
NewBlk(k) == <<new[k], blksz(ptr[k].size + 2)>>

Owners ==
    ({"key"} \X {k \in Keys : ptr[k].size # 0}) \cup ({"new"} \X {k \in Keys : Filling(k)})
    \cup ({"queue"} \X DOMAIN free_queue)

Blk(o) ==
    IF o[1] = "key" THEN BlockOf(ptr[o[2]])
    ELSE IF o[1] = "new" THEN NewBlk(o[2]) ELSE free_queue[o[2]].blk

\* Two owners share no cell, and the allocator gives out no block of an owner.
OwnerInv ==
    /\ \A o \in Owners : Blk(o) \in used /\ CellsOf(Blk(o)) # {} /\ CellsOf(Blk(o)) \subseteq Cells
    /\ \A o, p \in Owners : o # p => CellsOf(Blk(o)) \cap CellsOf(Blk(p)) = {}

-----------------------------------------------------------------------------
(* What is in a block.                                                     *)

Holds(k, off, n) == \A i \in 1 .. n : mem[off + i - 1] = <<k, i>>

\* The flag of the block of k.
KeyFlag(k) ==
    IF wpc[k] = "publish" THEN INVALID_EDGES
    ELSE IF wpc[k] \in {"value", "size"} THEN Flag(ptr[k].size + 1) ELSE Flag(ptr[k].size)

KeyAt(k) ==
    ptr[k].size # 0 =>
        /\ Holds(k, ptr[k].off, ptr[k].size)
        /\ wpc[k] = "size" => mem[ptr[k].off + ptr[k].size] = Value(k)
        /\ mem[FlagCell(ptr[k].size, ptr[k].off)] = KeyFlag(k)

NewAt(k) ==
    Filling(k) =>
        /\ Holds(k, new[k], ptr[k].size + 1)
        /\ mem[FlagCell(ptr[k].size + 1, new[k])] = Flag(ptr[k].size + 1)

ContentInv == \A k \in Keys : KeyAt(k) /\ NewAt(k)

-----------------------------------------------------------------------------
(* Pointers of readers and of the cache.                                   *)

\* The edges v points to are edges of k, and stay until t; if they are no
\* longer the edges of k, the flag says so.
Safe(k, v, t) ==
    /\ v.size <= ptr[k].size
    /\ \/ BlockOf(v) = BlockOf(ptr[k])
       \/ \E i \in DOMAIN free_queue :
             /\ free_queue[i].blk = BlockOf(v) /\ free_queue[i].expire >= t
             /\ Holds(k, v.off, v.size)
             /\ mem[FlagCell(v.size, v.off)] = INVALID_EDGES

\* What was read at time b is safe for a lease from then on.
SafeFrom(k, v, b) == now < b + Lease /\ v.size # 0 => Safe(k, v, b + Lease)

CacheInv == \A k \in Keys : cache[k].born <= now /\ SafeFrom(k, cache[k].v, cache[k].born)

ReaderAt(r) ==
    /\ rd[r].born <= now
    /\ rd[r].pc \in {"cache", "edges", "flag"} => SafeFrom(rd[r].key, rd[r].v, rd[r].born)

ReaderInv == \A r \in Readers : ReaderAt(r)

\* A key has edges only when it is in the header region.
KeyInv == \A k \in Keys : exists[k] \/ (ptr[k].size = 0 /\ wpc[k] = "idle")

\* What a reader has seen.
InTime(r) == now < rd[r].born + Lease
Edges(r) == [i \in 1 .. rd[r].v.size |-> <<rd[r].key, i>>]

SeenAt(r) ==
    /\ rd[r].pc # "idle" => rd[r].from <= ptr[rd[r].key].size
    /\ rd[r].pc \in {"lookup", "cache", "flag", "invalid"} => r \in Remote
    /\ rd[r].pc \in {"cache", "edges", "flag"} => rd[r].v.size # 0 \/ rd[r].key \notin Loaded
    /\ rd[r].pc = "edges" /\ r \notin Remote => rd[r].from <= rd[r].v.size
    /\ rd[r].pc = "flag" /\ InTime(r) => rd[r].data = Edges(r)
    /\ rd[r].pc = "done" /\ InTime(r) =>
          /\ rd[r].data = Edges(r)
          /\ rd[r].v.size <= ptr[rd[r].key].size
          /\ rd[r].v.size >= rd[r].from \/ (rd[r].v.size = 0 /\ r \in Remote /\ rd[r].key \notin Loaded)

SeenInv ==
    /\ \A k \in Loaded : now < cache[k].expire => cache[k].v.size # 0
    /\ \A r \in Readers : SeenAt(r)

\* The part that needs the lease only, and the whole.
StoreInv == TypeOK /\ WriterInv /\ OwnerInv /\ ContentInv /\ CacheInv /\ ReaderInv
IInv == StoreInv /\ KeyInv /\ SeenInv

=============================================================================
