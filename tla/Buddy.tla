------------------------------- MODULE Buddy -------------------------------
(***************************************************************************)
(* The buddy allocator of the edges (core/buddy_malloc.hpp).  A block of   *)
(* level l has 2^l units and starts at a multiple of its size; its header  *)
(* is at its first unit.  Blocks below DividingLine are handed out by the  *)
(* small allocator, which takes blocks of level DividingLine from the      *)
(* large one and gives them back; each of the two has a lock of its own.   *)
(* While the data is loaded, every thread has small free lists of its own  *)
(* and takes no small lock; merge_freelists joins these lists.             *)
(*                                                                         *)
(* What one lock protects is one step.  The small allocator changes the    *)
(* header of a block that it has just got from the large one without       *)
(* holding the large lock: those are steps of their own.                   *)
(***************************************************************************)
EXTENDS Integers, Sequences, SequencesExt, FiniteSets, FiniteSetsExt

CONSTANTS
    Threads,
    LowBound, DividingLine, UpBound,    \* level_low_bound etc.
    HeapBlocks,     \* blocks of level UpBound in the heap
    Plans           \* which levels each thread asks for and, as a bound, how
                    \* many blocks it holds at a time: a set of functions

ASSUME BuddyAssumption ==
    /\ LowBound \in Nat /\ DividingLine \in Nat /\ UpBound \in Nat
    /\ LowBound < DividingLine /\ DividingLine < UpBound
    /\ HeapBlocks \in Nat \ {0}
    /\ Plans \subseteq [Threads -> [levels : SUBSET (LowBound .. UpBound), max : Nat]]

Levels == LowBound .. UpBound
Units == 0 .. HeapBlocks * 2^UpBound - 1

\* The free lists: of the large allocator, of the small one, and of the
\* threads that load data.
Lists == {"large", "small"} \cup Threads

VARIABLES
    plan,       \* the plan of this behaviour
    heap,       \* hdr[i]: the header at unit i; free[x][l]: the free lists
    top,        \* top_of_heap
    loading,    \* before merge_freelists
    lock,       \* malloc_free_lock_small: who holds it, or "none"
    pc, blk, need,      \* of a small_malloc: step, block from small_sbrk, level
    held        \* the blocks each thread got from malloc

vars == <<plan, heap, top, loading, lock, pc, blk, need, held>>

-----------------------------------------------------------------------------
(* Headers and free lists.                                                 *)

Used(l) == [in_use |-> TRUE, level |-> l]
Free(l) == [in_use |-> FALSE, level |-> l]

mark_free(h, x, i, l) ==
    [h EXCEPT !.hdr[i] = Free(l), !.free[x][l] = <<i>> \o @]

\* The links lead to the neighbours in whatever list the blocks are.
Unlink(free, S) ==
    [x \in Lists |-> [l \in Levels |-> SelectSeq(free[x][l], LAMBDA j : j \notin S)]]

mark_used(h, i, l) ==
    [hdr |-> [h.hdr EXCEPT ![i] = Used(l)], free |-> Unlink(h.free, {i})]

Base(i, l) == (i \div 2^l) * 2^l
Mate(i, l) == IF i % 2^(l + 1) = 0 THEN i + 2^l ELSE i - 2^l

\* Mutant of get_free_buddy: the level of the buddy is not compared.
get_free_buddy_AnyLevel(h, i, l) == ~ h.hdr[Mate(i, l)].in_use

get_free_buddy(h, i, l) == h.hdr[Mate(i, l)] = Free(l)

\* The levels of list x that can satisfy a request of level l.
Available(h, x, l, bound) == {k \in l .. bound : h.free[x][k] # <<>>}

\* Take the first block of level "from" and split it down to level l.
Split(h, x, l, from) ==
    LET i == Head(h.free[x][from])
        rest == l .. from - 1
        start(k) == i + 2^k
        h1 == [hdr  |-> [j \in Units |-> IF \E k \in rest : j = start(k)
                                         THEN Free(CHOOSE k \in rest : j = start(k)) ELSE h.hdr[j]],
               free |-> [h.free EXCEPT ![x] =
                            [k \in Levels |-> IF k \in rest THEN <<start(k)>> \o @[k] ELSE @[k]]]]
    IN  mark_used(h1, i, l)

\* large_malloc with large_sbrk, in a heap that is used up to t: the block,
\* the new heap and the new top.
large_malloc(h, t, l) ==
    LET levels == Available(h, "large", l, UpBound)
        full == levels = {}
        h1 == IF full THEN mark_free(h, "large", t, UpBound) ELSE h
        from == IF full THEN UpBound ELSE Min(levels)
    IN  [blk |-> Head(h1.free["large"][from]), heap |-> Split(h1, "large", l, from),
         top |-> IF full THEN t + 2^UpBound ELSE t]

\* large_sbrk asserts that the heap is large enough.
LargeFits(h, t, l) == Available(h, "large", l, UpBound) # {} \/ t + 2^UpBound <= Cardinality(Units)

\* Mutant of MergeLevel: buddies are never merged.
MergeLevel_Never(h, i, l, bound) == l

\* The level up to which the freed block i of level l and its buddies merge.
MergeLevel(h, i, l, bound) ==
    Min({k \in l .. bound : k = bound \/ ~ get_free_buddy(h, Base(i, k), k)})

\* The heap after the merges of large_free or small_free, up to level k.
Merged(h, i, l, k) ==
    LET upper(n) == Base(i, n + 1) + 2^n
        steps == l .. k - 1
    IN  [hdr  |-> [j \in Units |-> IF \E n \in steps : j = upper(n)
                                   THEN Used(CHOOSE n \in steps : j = upper(n)) ELSE h.hdr[j]],
         free |-> Unlink(h.free, {Mate(Base(i, n), n) : n \in steps})]

large_free(h, i, l) ==
    LET k == MergeLevel(h, i, l, UpBound)
    IN  mark_free(Merged(h, i, l, k), "large", Base(i, k), k)

small_free(h, i, l) ==
    LET k == MergeLevel(h, i, l, DividingLine)
        h1 == Merged(h, i, l, k)
    IN  IF k = DividingLine THEN large_free(h1, Base(i, k), k)
        ELSE mark_free(h1, "small", Base(i, k), k)

-----------------------------------------------------------------------------
(* The operations.                                                         *)

\* init: the first block of level DividingLine holds the list heads.  The
\* memory is zero before its first use, which is the header of no level.
Init ==
    /\ LET empty == [hdr |-> [i \in Units |-> Free(LowBound - 1)],
                     free |-> [x \in Lists |-> [l \in Levels |-> <<>>]]]
           first == large_malloc(empty, 0, DividingLine)
       IN  heap = first.heap /\ top = first.top
    /\ loading = TRUE
    /\ plan \in Plans
    /\ lock = "none"
    /\ pc = [t \in Threads |-> "idle"]
    /\ blk = [t \in Threads |-> 0]
    /\ need = [t \in Threads |-> LowBound]
    /\ held = [t \in Threads |-> {}]

List(t) == IF loading THEN t ELSE "small"
MayMalloc(t) == pc[t] = "idle" /\ Cardinality(held[t]) < plan[t].max
Unlocked == loading \/ lock = "none"

LargeMalloc(t, l) ==
    /\ MayMalloc(t) /\ l >= DividingLine /\ LargeFits(heap, top, l)
    /\ LET m == large_malloc(heap, top, l)
       IN  /\ heap' = m.heap /\ top' = m.top
           /\ held' = [held EXCEPT ![t] = @ \cup {m.blk}]
    /\ UNCHANGED <<loading, lock, pc, blk, need>>

\* small_malloc when a small block is free.
SmallMalloc(t, l) ==
    LET levels == Available(heap, List(t), l, DividingLine)
    IN  /\ MayMalloc(t) /\ l < DividingLine /\ Unlocked
        /\ levels # {}
        /\ heap' = Split(heap, List(t), l, Min(levels))
        /\ held' = [held EXCEPT ![t] = @ \cup {Head(heap.free[List(t)][Min(levels)])}]
        /\ UNCHANGED <<top, loading, lock, pc, blk, need>>

\* small_malloc when none is: small_sbrk, ...
SmallSbrk(t, l) ==
    /\ MayMalloc(t) /\ l < DividingLine /\ Unlocked
    /\ Available(heap, List(t), l, DividingLine) = {}
    /\ LargeFits(heap, top, DividingLine)
    /\ LET m == large_malloc(heap, top, DividingLine)
       IN  /\ heap' = m.heap /\ top' = m.top
           /\ blk' = [blk EXCEPT ![t] = m.blk]
    /\ lock' = IF loading THEN lock ELSE t
    /\ pc' = [pc EXCEPT ![t] = "sbrk"]
    /\ need' = [need EXCEPT ![t] = l]
    /\ UNCHANGED <<loading, held>>

\* ... mark_free_small of the new block, ...
SbrkFree(t) ==
    /\ pc[t] = "sbrk"
    /\ heap' = mark_free(heap, List(t), blk[t], DividingLine)
    /\ pc' = [pc EXCEPT ![t] = "split"]
    /\ UNCHANGED <<top, loading, lock, blk, need, held>>

\* ... and the split of the first block in the list.
SbrkSplit(t) ==
    /\ pc[t] = "split" /\ heap.free[List(t)][DividingLine] # <<>>
    /\ heap' = Split(heap, List(t), need[t], DividingLine)
    /\ held' = [held EXCEPT ![t] = @ \cup {Head(heap.free[List(t)][DividingLine])}]
    /\ lock' = IF loading THEN lock ELSE "none"
    /\ pc' = [pc EXCEPT ![t] = "idle"]
    /\ UNCHANGED <<top, loading, blk, need>>

\* Blocks are only freed after the loading.
FreeBlock(t, i) ==
    LET l == heap.hdr[i].level
    IN  /\ pc[t] = "idle" /\ ~ loading /\ i \in held[t]
        /\ \/ l >= DividingLine /\ heap' = large_free(heap, i, l)
           \/ l < DividingLine /\ lock = "none" /\ heap' = small_free(heap, i, l)
        /\ held' = [held EXCEPT ![t] = @ \ {i}]
        /\ UNCHANGED <<top, loading, lock, pc, blk, need>>

\* Mutant of merge_freelists: only the lists of one thread are taken over.
merge_freelists_One ==
    /\ loading /\ \A t \in Threads : pc[t] = "idle"
    /\ loading' = FALSE
    /\ LET t1 == CHOOSE t \in Threads : TRUE
       IN  heap' = [heap EXCEPT !.free = [x \in Lists |-> [l \in Levels |->
                        IF x = "small" THEN @[t1][l] ELSE IF x \in Threads THEN <<>> ELSE @[x][l]]]]
    /\ UNCHANGED <<top, lock, pc, blk, need, held>>

\* merge_freelists, when all threads have loaded their data.
merge_freelists ==
    /\ loading /\ \A t \in Threads : pc[t] = "idle"
    /\ loading' = FALSE
    /\ LET joined(l) == FoldLeft(LAMBDA acc, t : acc \o heap.free[t][l], <<>>, SetToSeq(Threads))
       IN  heap' = [heap EXCEPT !.free = [x \in Lists |-> [l \in Levels |->
                        IF x = "small" THEN joined(l) ELSE IF x \in Threads THEN <<>> ELSE @[x][l]]]]
    /\ UNCHANGED <<top, lock, pc, blk, need, held>>

Next ==
    /\ \/ merge_freelists
       \/ \E t \in Threads :
             \/ \E l \in plan[t].levels : LargeMalloc(t, l) \/ SmallMalloc(t, l) \/ SmallSbrk(t, l)
             \/ SbrkFree(t) \/ SbrkSplit(t)
             \/ \E i \in held[t] : FreeBlock(t, i)
    /\ UNCHANGED plan

Spec == Init /\ [][Next]_vars

-----------------------------------------------------------------------------
(* Properties.                                                             *)

\* Every place where a block is, with the block and its level: with a caller, on
\* its way from the large to the small allocator, at some position of a free
\* list, or the block of the list heads.  A block in two places is two elements.
Blocks ==
    {<<<<"held", t, 0>>, i, heap.hdr[i].level>> : <<t, i>> \in {p \in Threads \X Units : p[2] \in held[p[1]]}}
        \cup {<<<<"new", t, 0>>, blk[t], DividingLine>> : t \in {t \in Threads : pc[t] = "sbrk"}}
        \cup UNION {{<<<<"free", x, n>>, heap.free[x][l][n], l>> : n \in DOMAIN heap.free[x][l]}
                        : x \in Lists, l \in Levels}
        \cup {<<<<"heads", "large", 0>>, 0, DividingLine>>}

UnitsOf(b) == b[2] .. b[2] + 2^b[3] - 1

\* Blocks never overlap: no unit is in the hands of two callers, nor does the
\* allocator list as free what somebody holds, or list it twice.
Disjoint ==
    \A b, c \in Blocks : b # c => UnitsOf(b) \cap UnitsOf(c) = {}

\* No unit of the heap is lost: what is below top_of_heap is in some block.
NoLeak == UNION {UnitsOf(b) : b \in Blocks} = 0 .. top - 1

\* Two buddies are never both free in one allocator: they would have been
\* merged.  So memory that is given back is available for large blocks again.
Coalesced ==
    \A l \in Levels \ {UpBound} :
        LET lists == IF l < DividingLine THEN Lists \ {"large"} ELSE {"large"}
            free == UNION {ToSet(heap.free[x][l]) : x \in lists}
        IN  \A i \in free : Mate(i, l) \notin free

=============================================================================
