-------------------------- MODULE HashTableProofs ---------------------------
(***************************************************************************)
(* HashTable keeps its invariant, for every number of threads, keys,       *)
(* buckets, slots and locks: first the steps that leave the table as it is,*)
(* then those that change it, then those that depend on where a search     *)
(* ends, and what follows.                                                 *)
(***************************************************************************)
EXTENDS HashTableInvariant, TLAPS

\* Neighbouring places.
LEMMA Neighbours ==
    \A x, y \in Nat : /\ x < y => x + 1 < y \/ y = x + 1
                     /\ x < y + 1 => x < y \/ x = y
OBVIOUS

LEMMA Regions ==
    /\ MainBuckets \subseteq Buckets /\ 0 \in MainBuckets
    /\ Buckets \subseteq Nat /\ Slots \subseteq Nat /\ 1 \in Slots
    /\ \A i \in Slots : i >= 1
    /\ \A k \in Keys : hash[k] \in MainBuckets
    /\ \A k \in Keys : k # NoKey
    /\ AnyKey \in Keys
BY HashTableAssumption DEF MainBuckets, Buckets, Slots, AnyKey

LEMMA UsedRegion ==
    ASSUME TypeOK
    PROVE  MainBuckets \subseteq Used /\ Used \subseteq Buckets
<1>1. num_buckets \in Nat /\ num_buckets_ext \in Nat /\ last_ext \in 0 .. num_buckets_ext
    BY HashTableAssumption DEF TypeOK
<1> QED
    BY <1>1 DEF MainBuckets, Used, Buckets

\* Where the chain of a key begins.
LEMMA Heads ==
    ASSUME TypeOK, ChainInv, NEW k \in Keys
    PROVE  hash[k] \in Used /\ hash[k] \in Buckets /\ home[hash[k]] = hash[k] /\ pos[hash[k]] = 0
BY Regions, UsedRegion, Zenon DEF ChainInv

\* The bucket behind a bucket, and the bucket at a place of a chain.
LEMMA Linked ==
    ASSUME TypeOK, ChainInv, NEW b \in Buckets, link[b] # NoLink
    PROVE  /\ link[b] \in Used /\ link[b] \in Buckets
           /\ home[link[b]] = home[b] /\ pos[link[b]] = pos[b] + 1
<1>1. num_buckets \in Nat /\ last_ext \in Nat /\ Used \subseteq Buckets
    BY HashTableAssumption, UsedRegion DEF TypeOK
<1>2. /\ link[b] \in num_buckets .. num_buckets + last_ext - 1
      /\ home[link[b]] = home[b] /\ pos[link[b]] = pos[b] + 1
    BY DEF ChainInv
<1>3. link[b] \in Used
    BY <1>1, <1>2 DEF Used
<1> QED
    BY <1>1, <1>2, <1>3

LEMMA SamePlace ==
    ASSUME ChainInv, NEW b \in Used, NEW c \in Used, home[b] = home[c], pos[b] = pos[c]
    PROVE  b = c
BY Zenon DEF ChainInv

LEMMA LockIds ==
    ASSUME TypeOK, NEW t \in Threads
    PROVE  lock_id(t) \in 0 .. NUM_LOCKS - 1
<1>1. \A x \in Nat : x % NUM_LOCKS \in 0 .. NUM_LOCKS - 1
    BY HashTableAssumption
<1>2. hash[key[t]] \in Nat
    BY Regions, Zenon DEF TypeOK
<1> QED
    BY <1>1, <1>2, Zenon DEF lock_id

LEMMA BehindSlots ==
    ASSUME NEW n \in Nat, n >= 1, n \notin Slots, NEW i \in Slots
    PROVE  ~ (n <= i)
BY HashTableAssumption DEF Slots

-----------------------------------------------------------------------------

\* A step of thread t that leaves the table alone: what is left to show is
\* about the locks, the thread itself and the keys inserted.
Alone(t) ==
    /\ UNCHANGED <<slot, link, last_ext, home, pos>>
    /\ inserted \subseteq inserted'
    /\ \A u \in Threads \ {t} :
          /\ pc'[u] = pc[u] /\ call'[u] = call[u] /\ key'[u] = key[u]
          /\ at'[u] = at[u] /\ idx'[u] = idx[u] /\ result'[u] = result[u]
          /\ u \in before' => u \in before

LEMMA AlonePreserves ==
    ASSUME IInv, NEW t \in Threads, Alone(t), pc[t] # "fill", TypeOK',
           \A k \in inserted' \ inserted : Present(k),
           \A u \in Threads : LockOf(u)',
           ScanOf(t)', FoundOf(t)'
    PROVE  IInv'
<1>1. UNCHANGED <<slot, link, last_ext, home, pos>>
    BY DEF Alone
<1>2. ChainInv' /\ SlotInv' /\ UniqueKeys'
    BY <1>1 DEF IInv, ChainInv, SlotInv, UniqueKeys, Used, Full
<1>3. \A k \in inserted' : Present(k)'
    BY <1>1 DEF IInv, Present
<1>4. ASSUME NEW u \in Threads \ {t} PROVE ScanOf(u)' /\ FoundOf(u)'
  <2>1. ScanOf(u) /\ FoundOf(u)
    BY <1>4 DEF IInv
  <2>0. /\ pc'[u] = pc[u] /\ call'[u] = call[u] /\ key'[u] = key[u]
        /\ at'[u] = at[u] /\ idx'[u] = idx[u] /\ result'[u] = result[u]
        /\ u \in before' => u \in before
    BY <1>4 DEF Alone
  <2>4. Used' = Used /\ home' = home /\ pos' = pos /\ link' = link /\ slot' = slot
    BY <1>1 DEF Used
  <2>5. \A b : (Full(b)' <=> Full(b)) /\ (Empty(b)' <=> Empty(b))
    BY <2>4 DEF Full, Empty
  <2>6. \A b, k : (Lacks(b, k)' <=> Lacks(b, k)) /\ (Present(k)' <=> Present(k))
    BY <2>4 DEF Lacks, Present
  <2>2. ScanOf(u)'
    BY <2>0, <2>1, <2>4, <2>5, <2>6 DEF ScanOf
  <2>3. FoundOf(u)'
    BY <2>0, <2>1, <2>4, <2>6 DEF FoundOf, Ahead
  <2> QED
    BY <2>2, <2>3
<1>5. FilledInv'
  <2> SUFFICES ASSUME NEW e \in num_buckets .. num_buckets + last_ext - 1
               PROVE  slot[e][1] # NoKey \/ \E u \in Threads : pc'[u] = "fill" /\ at'[u] = e
    BY <1>1 DEF FilledInv
  <2>1. CASE slot[e][1] # NoKey
    BY <2>1
  <2>2. ASSUME NEW u \in Threads, pc[u] = "fill", at[u] = e
        PROVE  pc'[u] = "fill" /\ at'[u] = e
    BY <2>2 DEF Alone
  <2> QED
    BY <2>1, <2>2 DEF IInv, FilledInv
<1> QED
    BY <1>2, <1>3, <1>4, <1>5 DEF IInv

LEMMA BeginPreserves ==
    ASSUME IInv, NEW t \in Threads, NEW f \in Functions, NEW k \in Called, Begin(t, f, k)
    PROVE  IInv'
<1>0. TypeOK /\ ChainInv /\ SlotInv /\ (\A j \in inserted : Present(j)) /\ \A u \in Threads : LockOf(u)
    BY DEF IInv
<1>1. /\ pc[t] = "idle"
      /\ pc' = [pc EXCEPT ![t] = IF f = "get_vertex" THEN "read" ELSE "lock"]
      /\ call' = [call EXCEPT ![t] = f] /\ key' = [key EXCEPT ![t] = k]
      /\ at' = [at EXCEPT ![t] = hash[k]] /\ idx' = [idx EXCEPT ![t] = 1]
      /\ result' = [result EXCEPT ![t] = "none"]
      /\ before' = IF k \in inserted THEN before \cup {t} ELSE before \ {t}
      /\ UNCHANGED <<slot, link, last_ext>> /\ UNCHANGED <<home, pos>>
      /\ UNCHANGED <<bucket_locks, bucket_ext_lock>> /\ UNCHANGED inserted
    BY DEF Begin, Goto, table, places, locks
<1>2. /\ k \in Keys /\ k # NoKey
      /\ hash[k] \in Used /\ hash[k] \in Buckets /\ home[hash[k]] = hash[k] /\ pos[hash[k]] = 0
    BY <1>0, HashTableAssumption, Regions, Heads
<1>3. /\ pc'[t] \in {"read", "lock"} /\ at'[t] = hash[k] /\ key'[t] = k /\ idx'[t] = 1
      /\ result'[t] = "none" /\ (t \in before' => k \in inserted)
    BY <1>0, <1>1 DEF TypeOK
<1>4. TypeOK'
    BY <1>0, <1>1, <1>2 DEF TypeOK, Labels
<1>5. Alone(t)
    BY <1>0, <1>1 DEF TypeOK, Alone
<1>6. \A u \in Threads : LockOf(u)'
    BY <1>0, <1>1 DEF TypeOK, LockOf, Locking, lock_id
<1>7. ScanOf(t)'
    BY <1>1, <1>2, <1>3 DEF ScanOf, Used
<1>8. ASSUME k \in inserted
      PROVE  \E b \in Buckets, i \in Slots :
                slot[b][i] = k /\ (pos[hash[k]] < pos[b] \/ (b = hash[k] /\ 1 <= i))
  <2>1. PICK b \in Buckets, i \in Slots : slot[b][i] = k
    BY <1>8, <1>0 DEF Present
  <2>2. b \in Used /\ home[b] = hash[k]
    BY <2>1, <1>0, <1>2 DEF SlotInv
  <2>3. pos[b] = 0 => b = hash[k]
    BY <2>2, <1>0, <1>2 DEF ChainInv
  <2> QED
    BY <2>1, <2>2, <2>3, <1>0, <1>2, Regions DEF TypeOK
<1>9. FoundOf(t)'
    BY <1>0, <1>1, <1>3, <1>8 DEF FoundOf, Ahead, Present
<1> QED
    BY <1>1, <1>4, <1>5, <1>6, <1>7, <1>9, AlonePreserves

LEMMA LockPreserves ==
    ASSUME IInv, NEW t \in Threads, Lock(t)
    PROVE  IInv'
<1>0. TypeOK /\ ChainInv /\ ScanOf(t) /\ FoundOf(t) /\ \A u \in Threads : LockOf(u)
    BY DEF IInv
<1>1. /\ pc[t] = "lock" /\ bucket_locks[lock_id(t)] = Nobody
      /\ bucket_locks' = [bucket_locks EXCEPT ![lock_id(t)] = t]
      /\ pc' = [pc EXCEPT ![t] = "scan"]
      /\ UNCHANGED <<slot, link, last_ext>> /\ UNCHANGED <<home, pos>> /\ UNCHANGED bucket_ext_lock
      /\ UNCHANGED <<call, key, at, idx, result>> /\ UNCHANGED <<inserted, before>>
    BY DEF Lock, Goto, table, places, history
<1>2. lock_id(t) \in 0 .. NUM_LOCKS - 1 /\ pc'[t] = "scan" /\ key[t] \in Keys
    BY <1>0, <1>1, LockIds, Zenon DEF TypeOK
<1>3. /\ at[t] = hash[key[t]] /\ at[t] \in Used /\ home[at[t]] = hash[key[t]] /\ pos[at[t]] = 0
      /\ \A c \in Used : pos[c] \in Nat
    BY <1>0, <1>1, <1>2, Heads, UsedRegion, Zenon DEF ScanOf, TypeOK
<1>4. TypeOK'
    BY <1>0, <1>1, <1>2, Zenon DEF TypeOK, Labels
<1>5. Alone(t)
    BY <1>0, <1>1 DEF TypeOK, Alone
<1>6. ASSUME NEW u \in Threads PROVE LockOf(u)'
  <2>1. CASE u = t
    BY <2>1, <1>0, <1>1, <1>2 DEF TypeOK, LockOf, lock_id
  <2>2. CASE u # t
    <3>1. pc'[u] = pc[u] /\ LockOf(u) /\ lock_id(u)' = lock_id(u) /\ u # Nobody
      BY <2>2, <1>0, <1>1, HashTableAssumption DEF TypeOK, lock_id
    <3>2. lock_id(u) # lock_id(t) => bucket_locks'[lock_id(u)] = bucket_locks[lock_id(u)]
      BY <1>0, <1>1, <1>2, LockIds, Zenon DEF TypeOK
    <3> QED
      BY <3>1, <3>2, <1>1 DEF LockOf
  <2> QED
    BY <2>1, <2>2
<1>7. ScanOf(t)'
    BY <1>1, <1>2, <1>3 DEF ScanOf, Used
<1>8. FoundOf(t)'
    BY <1>0, <1>1, <1>2 DEF FoundOf, Present
<1> QED
    BY <1>1, <1>4, <1>5, <1>6, <1>7, <1>8, AlonePreserves

\* A thread that holds the lock and is at the end of the chain has seen all
\* the slots its key may be in.
LEMMA Absent ==
    ASSUME TypeOK, ChainInv, SlotInv, NEW t \in Threads, ScanOf(t),
           pc[t] \in {"scan", "ext", "link", "fill"},
           link[at[t]] = NoLink, Lacks(at[t], key[t])
    PROVE  ~ Present(key[t])
<1> SUFFICES ASSUME NEW b \in Buckets, NEW i \in Slots, slot[b][i] = key[t] PROVE FALSE
    BY Zenon DEF Present
<1>1. at[t] \in Used /\ home[at[t]] = hash[key[t]]
    BY Zenon DEF ScanOf
<1>2. b \in Used /\ home[b] = hash[key[t]]
  <2>1. slot[b][i] # NoKey
    BY Regions DEF TypeOK
  <2> QED
    BY <2>1 DEF SlotInv
<1>3. pos[b] \in Nat /\ pos[at[t]] \in Nat
    BY <1>1, <1>2, UsedRegion, Zenon DEF TypeOK
<1>4. ~ (pos[b] < pos[at[t]])
    BY <1>2, Zenon DEF ScanOf, Lacks
<1>5. ~ (pos[at[t]] < pos[b])
    BY <1>1, <1>2 DEF ChainInv
<1>6. pos[b] = pos[at[t]] => b = at[t]
    BY <1>1, <1>2, SamePlace
<1>7. pos[b] = pos[at[t]]
    BY <1>3, <1>4, <1>5
<1> QED
    BY <1>6, <1>7 DEF Lacks

LEMMA ExtLockPreserves ==
    ASSUME IInv, NEW t \in Threads, ExtLock(t)
    PROVE  IInv'
<1>0. TypeOK /\ ScanOf(t) /\ FoundOf(t) /\ \A u \in Threads : LockOf(u)
    BY DEF IInv
<1>1. /\ pc[t] = "ext" /\ bucket_ext_lock = Nobody /\ bucket_ext_lock' = t
      /\ pc' = [pc EXCEPT ![t] = IF last_ext < num_buckets_ext THEN "link" ELSE "failed"]
      /\ idx' = [idx EXCEPT ![t] = last_ext]
      /\ UNCHANGED <<slot, link, last_ext>> /\ UNCHANGED <<home, pos>> /\ UNCHANGED bucket_locks
      /\ UNCHANGED <<call, key, at, result>> /\ UNCHANGED <<inserted, before>>
    BY DEF ExtLock, Goto, table, places, history
<1>2. /\ pc'[t] \in {"link", "failed"} /\ (pc'[t] = "link" => last_ext < num_buckets_ext)
      /\ idx'[t] = last_ext /\ last_ext \in Nat /\ t # Nobody
    BY <1>0, <1>1, HashTableAssumption DEF TypeOK
<1>3. TypeOK' /\ Alone(t)
    BY <1>0, <1>1, <1>2, Zenon DEF TypeOK, Labels, Alone
<1>4. ASSUME NEW u \in Threads PROVE LockOf(u)'
  <2>1. CASE u = t
    BY <2>1, <1>0, <1>1, <1>2 DEF LockOf, Locking, lock_id
  <2>2. CASE u # t
    <3>1. pc'[u] = pc[u] /\ idx'[u] = idx[u] /\ LockOf(u) /\ u # Nobody
      BY <2>2, <1>0, <1>1, HashTableAssumption, Zenon DEF TypeOK
    <3> QED
      BY <3>1, <1>1 DEF LockOf, lock_id
  <2> QED
    BY <2>1, <2>2
<1>5. /\ at[t] \in Used /\ home[at[t]] = hash[key[t]] /\ link[at[t]] = NoLink
      /\ \A c \in Used : home[c] = hash[key[t]] /\ pos[c] < pos[at[t]] => Lacks(c, key[t])
      /\ Full(at[t]) /\ Lacks(at[t], key[t])
    BY <1>0, <1>1 DEF ScanOf
<1>6. ScanOf(t)'
    BY <1>1, <1>2, <1>5, Zenon DEF ScanOf, Used, Full, Lacks
<1>7. FoundOf(t)'
    BY <1>0, <1>1, <1>2 DEF FoundOf
<1> QED
    BY <1>1, <1>3, <1>4, <1>6, <1>7, AlonePreserves

LEMMA UnlockPreserves ==
    ASSUME IInv, NEW t \in Threads, Unlock(t)
    PROVE  IInv'
<1>0. TypeOK /\ ScanOf(t) /\ FoundOf(t) /\ \A u \in Threads : LockOf(u)
    BY DEF IInv
<1>1. /\ pc[t] = "unlock"
      /\ bucket_locks' = [bucket_locks EXCEPT ![lock_id(t)] = Nobody]
      /\ inserted' = IF call[t] \in Inserts THEN inserted \cup {key[t]} ELSE inserted
      /\ pc' = [pc EXCEPT ![t] = "idle"] /\ call' = [call EXCEPT ![t] = "none"]
      /\ key' = [key EXCEPT ![t] = AnyKey]
      /\ at' = [at EXCEPT ![t] = 0] /\ idx' = [idx EXCEPT ![t] = 1]
      /\ UNCHANGED <<slot, link, last_ext>> /\ UNCHANGED <<home, pos>> /\ UNCHANGED bucket_ext_lock
      /\ UNCHANGED <<result, before>>
    BY DEF Unlock, Return, Goto, table, places
<1>2. /\ lock_id(t) \in 0 .. NUM_LOCKS - 1 /\ pc'[t] = "idle" /\ bucket_locks[lock_id(t)] = t
      /\ AnyKey \in Keys /\ 0 \in Buckets /\ key[t] \in Keys
    BY <1>0, <1>1, LockIds, Regions, Zenon DEF TypeOK, LockOf, Locking
<1>3. TypeOK'
    BY <1>0, <1>1, <1>2, Zenon DEF TypeOK, Labels
<1>4. Alone(t)
    BY <1>0, <1>1 DEF TypeOK, Alone
<1>5. \A k \in inserted' \ inserted : Present(k)
    BY <1>0, <1>1 DEF ScanOf
<1>6. ASSUME NEW u \in Threads PROVE LockOf(u)'
  <2>1. CASE u = t
    BY <2>1, <1>2 DEF LockOf, Locking
  <2>2. CASE u # t
    <3>1. /\ pc'[u] = pc[u] /\ call'[u] = call[u] /\ idx'[u] = idx[u]
          /\ LockOf(u) /\ lock_id(u)' = lock_id(u)
      BY <2>2, <1>0, <1>1 DEF TypeOK, lock_id
    <3>2. lock_id(u) # lock_id(t) => bucket_locks'[lock_id(u)] = bucket_locks[lock_id(u)]
      BY <1>0, <1>1, <1>2, LockIds DEF TypeOK
    <3> QED
      BY <2>2, <3>1, <3>2, <1>1, <1>2 DEF LockOf
  <2> QED
    BY <2>1, <2>2
<1>7. ScanOf(t)'
    BY <1>2, Zenon DEF ScanOf
<1>8. FoundOf(t)'
    BY <1>0, <1>1, <1>2 DEF FoundOf
<1> QED
    BY <1>1, <1>3, <1>4, <1>5, <1>6, <1>7, <1>8, AlonePreserves

LEMMA ReadPreserves ==
    ASSUME IInv, NEW t \in Threads, Read(t)
    PROVE  IInv'
<1>0. TypeOK /\ ScanOf(t) /\ FoundOf(t) /\ \A u \in Threads : LockOf(u)
    BY DEF IInv
<1>1. /\ pc[t] = "read" /\ idx[t] \in Slots
      /\ UNCHANGED <<slot, link, last_ext>> /\ UNCHANGED <<home, pos>>
      /\ UNCHANGED <<bucket_locks, bucket_ext_lock>> /\ UNCHANGED <<inserted, before>>
    BY Zenon DEF Read, table, places, locks, history
<1>2. AnyKey \in Keys /\ 0 \in Buckets /\ idx[t] \in Nat
    BY <1>0, Regions, Zenon DEF TypeOK
<1>3. CASE slot[at[t]][idx[t]] = key[t]
  <2>1. /\ pc' = [pc EXCEPT ![t] = "idle"] /\ call' = [call EXCEPT ![t] = "none"]
        /\ key' = [key EXCEPT ![t] = AnyKey]
        /\ at' = [at EXCEPT ![t] = 0] /\ idx' = [idx EXCEPT ![t] = 1]
        /\ result' = [result EXCEPT ![t] = "found"]
    BY <1>3 DEF Read, Return, Goto
  <2>2. pc'[t] = "idle" /\ result'[t] = "found"
    BY <2>1, <1>0 DEF TypeOK
  <2>3. TypeOK' /\ Alone(t)
    <3>1. pc' \in [Threads -> Labels] /\ call' \in [Threads -> Functions \cup {"none"}]
      BY <2>1, <1>0, Zenon DEF TypeOK, Labels
    <3>2. key' \in [Threads -> Keys] /\ at' \in [Threads -> Buckets] /\ idx' \in [Threads -> Nat]
      <4>1. 1 \in Nat
        OBVIOUS
      <4> QED
        BY <4>1, <2>1, <1>0, <1>2, Zenon DEF TypeOK
    <3>3. result' \in [Threads -> {"none", "found", "missing"}]
      BY <2>1, <1>0, Zenon DEF TypeOK
    <3>4. TypeOK'
      BY <3>1, <3>2, <3>3, <1>0, <1>1, Zenon DEF TypeOK
    <3> QED
      BY <3>4, <2>1, <1>0, <1>1, Zenon DEF TypeOK, Alone
  <2>4. \A u \in Threads : LockOf(u)'
    BY <2>1, <1>0, <1>1 DEF TypeOK, LockOf, Locking, lock_id
  <2>5. ScanOf(t)' /\ FoundOf(t)'
    BY <2>2 DEF ScanOf, FoundOf
  <2> QED
    BY <1>1, <2>3, <2>4, <2>5, AlonePreserves
<1>4. CASE slot[at[t]][idx[t]] # key[t]
  <2>1. idx' = [idx EXCEPT ![t] = idx[t] + 1] /\ UNCHANGED <<pc, call, key, at, result>>
    BY <1>4 DEF Read
  <2>2. idx'[t] = idx[t] + 1
    BY <2>1, <1>0 DEF TypeOK
  <2>3. TypeOK' /\ Alone(t)
    <3>1. idx' \in [Threads -> Nat]
      BY <2>1, <1>0, <1>2 DEF TypeOK
    <3>2. TypeOK'
      BY <3>1, <2>1, <1>0, <1>1, Zenon DEF TypeOK
    <3> QED
      BY <3>2, <2>1, <1>0, <1>1, Zenon DEF TypeOK, Alone
  <2>4. \A u \in Threads : LockOf(u)'
    BY <2>1, <1>0, <1>1 DEF TypeOK, LockOf, Locking, lock_id
  <2>5. ScanOf(t)'
    <3>1. at[t] \in Used /\ home[at[t]] = hash[key[t]]
      BY <1>0, <1>1, Zenon DEF ScanOf
    <3>2. idx[t] + 1 >= 1
      BY <1>2
    <3> QED
      BY <3>1, <3>2, <2>1, <2>2, <1>1 DEF ScanOf, Used
  <2>6. ASSUME NEW b \in Buckets, NEW i \in Slots, slot[b][i] = key[t], Ahead(t, b, i)
        PROVE  pos[at[t]] < pos[b] \/ (b = at[t] /\ idx[t] + 1 <= i)
    <3>1. i # idx[t] \/ b # at[t]
      BY <2>6, <1>4
    <3>2. idx[t] <= i /\ i # idx[t] => idx[t] + 1 <= i
      BY <1>2, Regions
    <3> QED
      BY <3>1, <3>2, <2>6 DEF Ahead
  <2>7. FoundOf(t)'
    BY <2>1, <2>2, <2>6, <1>0, <1>1 DEF FoundOf, Ahead
  <2> QED
    BY <1>1, <2>3, <2>4, <2>5, <2>7, AlonePreserves
<1> QED
    BY <1>3, <1>4

\* A reader whose key is ahead of it does not reach the end of the chain.
LEMMA FollowPreserves ==
    ASSUME IInv, NEW t \in Threads, Follow(t)
    PROVE  IInv'
<1>0. TypeOK /\ ChainInv /\ SlotInv /\ ScanOf(t) /\ FoundOf(t) /\ \A u \in Threads : LockOf(u)
    BY DEF IInv
<1>1. /\ pc[t] = "read" /\ idx[t] \notin Slots
      /\ UNCHANGED <<slot, link, last_ext>> /\ UNCHANGED <<home, pos>>
      /\ UNCHANGED <<bucket_locks, bucket_ext_lock>> /\ UNCHANGED <<inserted, before>>
    BY Zenon DEF Follow, table, places, locks, history
<1>2. /\ AnyKey \in Keys /\ 0 \in Buckets /\ idx[t] \in Nat /\ idx[t] >= 1 /\ key[t] # NoKey
      /\ at[t] \in Used /\ at[t] \in Buckets /\ home[at[t]] = hash[key[t]] /\ pos[at[t]] \in Nat
    BY <1>0, <1>1, Regions, Zenon DEF TypeOK, ScanOf
<1>3. ASSUME NEW b \in Buckets, NEW i \in Slots, slot[b][i] = key[t], Ahead(t, b, i)
      PROVE  b \in Used /\ home[b] = home[at[t]] /\ pos[at[t]] < pos[b] /\ link[at[t]] # NoLink
  <2>1. b \in Used /\ home[b] = home[at[t]]
    BY <1>3, <1>0, <1>2, ZenonT(30) DEF SlotInv
  <2>2. ~ (idx[t] <= i)
    BY <1>1, <1>2, BehindSlots
  <2> QED
    BY <2>1, <2>2, <1>0, <1>2, <1>3 DEF Ahead, ChainInv
<1>4. CASE link[at[t]] = NoLink
  <2>1. /\ pc' = [pc EXCEPT ![t] = "idle"] /\ call' = [call EXCEPT ![t] = "none"]
        /\ key' = [key EXCEPT ![t] = AnyKey]
        /\ at' = [at EXCEPT ![t] = 0] /\ idx' = [idx EXCEPT ![t] = 1]
        /\ result' = [result EXCEPT ![t] = "missing"]
    BY <1>4 DEF Follow, Return, Goto
  <2>2. pc'[t] = "idle" /\ t \notin before'
    BY <2>1, <1>0, <1>1, <1>3, <1>4 DEF TypeOK, FoundOf
  <2>3. TypeOK' /\ Alone(t)
    BY <2>1, <1>0, <1>1, <1>2, ZenonT(30) DEF TypeOK, Labels, Alone
  <2>4. \A u \in Threads : LockOf(u)'
    BY <2>1, <1>0, <1>1, Zenon DEF TypeOK, LockOf, Locking, lock_id
  <2>5. ScanOf(t)' /\ FoundOf(t)'
    BY <2>2 DEF ScanOf, FoundOf
  <2> QED
    BY <1>1, <2>3, <2>4, <2>5, AlonePreserves
<1>5. CASE link[at[t]] # NoLink
  <2> DEFINE n == link[at[t]]
  <2>1. /\ at' = [at EXCEPT ![t] = n] /\ idx' = [idx EXCEPT ![t] = 1]
        /\ UNCHANGED <<pc, call, key, result>>
    BY <1>5, Zenon DEF Follow
  <2>2. n \in Used /\ n \in Buckets /\ home[n] = home[at[t]] /\ pos[n] = pos[at[t]] + 1
    BY <1>0, <1>2, <1>5, Linked
  <2>3. ASSUME NEW b \in Buckets, NEW i \in Slots, slot[b][i] = key[t], Ahead(t, b, i)
        PROVE  pos[n] < pos[b] \/ (b = n /\ 1 <= i)
    <3>1. b \in Used /\ home[b] = home[n] /\ pos[at[t]] < pos[b] /\ pos[b] \in Nat
      BY <2>2, <2>3, <1>3, <1>0 DEF TypeOK
    <3>2. pos[b] = pos[n] => b = n
      BY <3>1, <2>2, <1>0, SamePlace, ZenonT(30)
    <3>0. pos[at[t]] \in Nat
      BY <1>2, Zenon
    <3>3. pos[at[t]] + 1 < pos[b] \/ pos[b] = pos[at[t]] + 1
      BY <3>0, <3>1, Neighbours
    <3>4. pos[n] < pos[b] \/ pos[b] = pos[n]
      BY <3>3, <2>2
    <3> QED
      BY <3>2, <3>4, Regions
  <2> HIDE DEF n
  <2>4. at'[t] = n /\ idx'[t] = 1
    BY <2>1, <1>0, Zenon DEF TypeOK
  <2>5. TypeOK' /\ Alone(t)
    BY <2>1, <2>2, <1>0, <1>1 DEF TypeOK, Alone
  <2>6. \A u \in Threads : LockOf(u)'
    BY <2>1, <1>0, <1>1 DEF TypeOK, LockOf, Locking, lock_id
  <2>7. ScanOf(t)'
    <3>0. home[n] = hash[key[t]]
      BY <2>2, <1>2, Zenon
    <3>1. pc'[t] = "read" /\ key'[t] = key[t] /\ home'[n] = hash[key[t]]
      BY <3>0, <2>1, <1>1
    <3>2. n \in Used'
      BY <2>2, <1>1 DEF Used
    <3>3. idx'[t] >= 1
      BY <2>4
    <3> QED
      BY <3>1, <3>2, <3>3, <2>4 DEF ScanOf
  <2>8. FoundOf(t)'
    BY <2>1, <2>3, <2>4, <1>0, <1>1, ZenonT(30) DEF FoundOf, Ahead
  <2> QED
    BY <1>1, <2>5, <2>6, <2>7, <2>8, AlonePreserves, Zenon
<1> QED
    BY <1>4, <1>5

-----------------------------------------------------------------------------
(* The steps that change the table.                                        *)

\* Two threads that hold locks are in different chains.
LEMMA SameLock ==
    ASSUME IInv, NEW t \in Threads, NEW u \in Threads, u # t,
           pc[t] \in Locking, pc[u] \in Locking
    PROVE  hash[key[u]] # hash[key[t]]
BY Zenon DEF IInv, LockOf, lock_id

\* A thread puts its key into the first empty slot of the last bucket of the
\* chain.
LEMMA PutPreserves ==
    ASSUME IInv, NEW t \in Threads, pc[t] \in {"scan", "fill"}, NEW h \in Slots,
           slot[at[t]][h] = NoKey, \A j \in Slots : j < h => slot[at[t]][j] # NoKey,
           link[at[t]] = NoLink, ~ Present(key[t]), pc[t] = "fill" => h = 1,
           slot' = [slot EXCEPT ![at[t]][h] = key[t]],
           pc' = [pc EXCEPT ![t] = "unlock"],
           UNCHANGED <<link, last_ext, home, pos>>, UNCHANGED <<bucket_locks, bucket_ext_lock>>,
           UNCHANGED <<call, key, at, idx, result>>, UNCHANGED <<inserted, before>>
    PROVE  IInv'
<1>0. /\ TypeOK /\ ChainInv /\ SlotInv /\ UniqueKeys /\ FilledInv
      /\ \A k \in inserted : Present(k)
      /\ \A u \in Threads : LockOf(u) /\ ScanOf(u) /\ FoundOf(u)
    BY Zenon DEF IInv
<1>1. /\ key[t] \in Keys /\ key[t] # NoKey /\ at[t] \in Used /\ at[t] \in Buckets
      /\ home[at[t]] = hash[key[t]] /\ pc'[t] = "unlock" /\ h \in Nat /\ Slots \subseteq Nat
    BY <1>0, Regions, Zenon DEF TypeOK, ScanOf
<1>2. TypeOK'
    BY <1>0, <1>1, Zenon DEF TypeOK, Labels
<1>3. /\ slot'[at[t]][h] = key[t]
      /\ \A b \in Buckets, i \in Slots : b # at[t] \/ i # h => slot'[b][i] = slot[b][i]
    BY <1>0, <1>1 DEF TypeOK
<1>4. ChainInv'
    BY <1>0, Zenon DEF ChainInv, Used
<1>5. SlotInv'
  <2>1. ASSUME NEW b \in Buckets, NEW i \in Slots, slot'[b][i] # NoKey
        PROVE  b \in Used /\ home[b] = hash[slot'[b][i]]
    BY <2>1, <1>0, <1>1, <1>3 DEF SlotInv
  <2>2. ASSUME NEW b \in Buckets, NEW i \in Slots, NEW j \in Slots, i < j, slot'[b][i] = NoKey
        PROVE  slot'[b][j] = NoKey
    <3>1. slot[b][i] = NoKey /\ slot[b][j] = NoKey
      BY <2>2, <1>0, <1>1, <1>3 DEF SlotInv
    <3>2. ~ (b = at[t] /\ j = h)
      BY <2>2, <3>1
    <3> QED
      BY <3>1, <3>2, <1>3
  <2>3. ASSUME NEW b \in Buckets, link[b] # NoLink PROVE Full(b)'
    BY <2>3, <1>0, <1>3 DEF SlotInv, Full
  <2> QED
    BY <2>1, <2>2, <2>3, Zenon DEF SlotInv, Used
<1>6. UniqueKeys'
    BY <1>0, <1>1, <1>3 DEF UniqueKeys, Present
<1>7. ASSUME NEW k \in Keys, Present(k) PROVE Present(k)'
  <2>1. PICK b \in Buckets, i \in Slots : slot[b][i] = k
    BY <1>7 DEF Present
  <2>2. slot'[b][i] = k
    BY <2>1, <1>3, Regions
  <2> QED
    BY <2>2 DEF Present
<1>8. FilledInv'
  <2> SUFFICES ASSUME NEW e \in num_buckets .. num_buckets + last_ext - 1
               PROVE  slot'[e][1] # NoKey \/ \E u \in Threads : pc'[u] = "fill" /\ at[u] = e
    BY Zenon DEF FilledInv
  <2>0. e \in Buckets /\ 1 \in Slots
    BY <1>0, HashTableAssumption, Regions DEF TypeOK, Buckets
  <2>1. CASE slot[e][1] # NoKey
    BY <2>0, <2>1, <1>1, <1>3
  <2>2. ASSUME NEW u \in Threads, pc[u] = "fill", at[u] = e
        PROVE  slot'[e][1] # NoKey \/ (pc'[u] = "fill" /\ at[u] = e)
    <3>1. CASE u = t
      BY <3>1, <2>2, <1>1, <1>3
    <3>2. CASE u # t
      BY <3>2, <2>2, <1>0, Zenon DEF TypeOK
    <3> QED
      BY <3>1, <3>2
  <2> QED
    BY <2>1, <2>2, <1>0 DEF FilledInv
<1>9. \A u \in Threads : LockOf(u)'
    BY <1>0 DEF TypeOK, LockOf, Locking, lock_id
<1>10. ASSUME NEW u \in Threads PROVE ScanOf(u)'
  <2>1. CASE u = t
    <3>1. Present(key[t])'
      BY <1>1, <1>3 DEF Present
    <3> QED
      BY <2>1, <3>1, <1>1 DEF ScanOf
  <2>2. CASE u # t
    <3>1. pc'[u] = pc[u] /\ ScanOf(u) /\ key[u] \in Keys /\ at[u] \in Buckets
      BY <2>2, <1>0, Zenon DEF TypeOK
    <3>2. CASE pc[u] \in {"scan", "ext", "link", "fill"}
      <4>1. \A c \in Used : home[c] = hash[key[u]] => c # at[t]
        BY <3>2, <2>2, <1>1, SameLock DEF Locking
      <4>2. \A c \in Used : c # at[t] => \A i \in Slots : slot'[c][i] = slot[c][i]
        BY <1>0, <1>3, UsedRegion, Zenon
      <4>3. at[u] \in Used /\ home[at[u]] = hash[key[u]]
        BY <3>1, <3>2 DEF ScanOf
      <4>4. \A i \in Slots : slot'[at[u]][i] = slot[at[u]][i]
        BY <4>1, <4>2, <4>3, Zenon
      <4>5. ASSUME NEW c \in Used, home[c] = hash[key[u]], pos[c] < pos[at[u]]
            PROVE  \A i \in Slots : slot'[c][i] # key[u]
        BY <3>1, <3>2, <4>1, <4>2, <4>5 DEF ScanOf, Lacks
      <4>6. Used' = Used
        BY Zenon DEF Used
      <4>7. /\ pc[u] \in {"ext", "link"} => Full(at[u])' /\ Lacks(at[u], key[u])'
            /\ pc[u] = "fill" => Empty(at[u])'
            /\ pc[u] \in {"ext", "link", "fill"} => link[at[u]] = NoLink
        BY <3>1, <4>4 DEF ScanOf, Full, Empty, Lacks
      <4>8. \A c \in Used' : home'[c] = hash[key'[u]] /\ pos'[c] < pos'[at'[u]] => Lacks(c, key[u])'
        BY <4>5, <4>6 DEF Lacks
      <4>9. at'[u] \in Used' /\ home'[at'[u]] = hash[key'[u]] /\ pc'[u] # "lock" /\ pc'[u] # "read"
        BY <3>1, <3>2, <4>3, <4>6, Zenon
      <4> QED
        BY <3>1, <3>2, <4>7, <4>8, <4>9 DEF ScanOf
    <3>3. CASE pc[u] \notin {"scan", "ext", "link", "fill"}
      BY <3>1, <3>3, <1>7 DEF ScanOf, Used
    <3> QED
      BY <3>2, <3>3
  <2> QED
    BY <2>1, <2>2
<1>11. ASSUME NEW u \in Threads PROVE FoundOf(u)'
  <2>1. CASE u = t
    BY <2>1, <1>0, <1>1, Zenon DEF FoundOf
  <2>2. CASE u # t
    <3>1. pc'[u] = pc[u] /\ FoundOf(u) /\ key[u] \in Keys /\ key[u] # NoKey
      BY <2>2, <1>0, Regions DEF TypeOK
    <3>2. ASSUME NEW b \in Buckets, NEW i \in Slots, slot[b][i] = key[u] PROVE slot'[b][i] = key[u]
      BY <3>1, <3>2, <1>3
    <3> QED
      BY <3>1, <3>2, <1>7 DEF FoundOf, Ahead
  <2> QED
    BY <2>1, <2>2
<1>12. \A k \in inserted' : Present(k)'
    BY <1>0, <1>7 DEF TypeOK
<1> QED
    BY <1>2, <1>4, <1>5, <1>6, <1>8, <1>9, <1>10, <1>11, <1>12 DEF IInv

LEMMA FillPreserves ==
    ASSUME IInv, NEW t \in Threads, Fill(t)
    PROVE  IInv'
<1>0. TypeOK /\ ChainInv /\ SlotInv /\ ScanOf(t)
    BY DEF IInv
<1>1. /\ pc[t] = "fill" /\ slot' = [slot EXCEPT ![at[t]][1] = key[t]]
      /\ pc' = [pc EXCEPT ![t] = "unlock"]
      /\ UNCHANGED <<link, last_ext, home, pos>> /\ UNCHANGED <<bucket_locks, bucket_ext_lock>>
      /\ UNCHANGED <<call, key, at, idx, result>> /\ UNCHANGED <<inserted, before>>
    BY DEF Fill, Goto, places, locks, history
<1>2. 1 \in Slots /\ \A j \in Slots : ~ (j < 1)
    BY Regions
<1>3. Empty(at[t]) /\ link[at[t]] = NoLink
    BY <1>0, <1>1 DEF ScanOf
<1>4. Lacks(at[t], key[t])
    BY <1>0, <1>3, Regions DEF TypeOK, Empty, Lacks
<1>5. ~ Present(key[t])
    BY <1>0, <1>1, <1>3, <1>4, Absent
<1>6. slot[at[t]][1] = NoKey
    BY <1>2, <1>3, Zenon DEF Empty
<1> QED
    BY <1>1, <1>2, <1>3, <1>5, <1>6, PutPreserves, Zenon

\* A new bucket behind the last one of the chain.
LEMMA LinkPreserves ==
    ASSUME IInv, NEW t \in Threads, Link(t)
    PROVE  IInv'
<1>0. /\ TypeOK /\ ChainInv /\ SlotInv /\ UniqueKeys /\ FilledInv
      /\ \A k \in inserted : Present(k)
      /\ \A u \in Threads : LockOf(u) /\ ScanOf(u) /\ FoundOf(u)
    BY DEF IInv
<1> DEFINE a == at[t]
           e == num_buckets + last_ext
<1>1. /\ pc[t] = "link" /\ idx[t] = last_ext /\ last_ext < num_buckets_ext /\ bucket_ext_lock = t
      /\ call[t] \in Inserts
    BY <1>0 DEF Link, LockOf
<1>2. /\ link' = [link EXCEPT ![a] = e] /\ last_ext' = last_ext + 1
      /\ home' = [home EXCEPT ![e] = home[a]] /\ pos' = [pos EXCEPT ![e] = pos[a] + 1]
      /\ at' = [at EXCEPT ![t] = e] /\ bucket_ext_lock' = Nobody
      /\ pc' = [pc EXCEPT ![t] = "fill"]
      /\ UNCHANGED <<slot, bucket_locks>> /\ UNCHANGED <<call, key, idx, result>>
      /\ UNCHANGED <<inserted, before>>
    BY <1>1 DEF Link, Goto, history
<1>3. /\ a \in Used /\ home[a] = hash[key[t]] /\ link[a] = NoLink /\ Full(a) /\ Lacks(a, key[t])
      /\ \A c \in Used : home[c] = hash[key[t]] /\ pos[c] < pos[a] => Lacks(c, key[t])
    BY <1>0, <1>1, Zenon DEF ScanOf
<1>4. /\ e \in Buckets /\ e \notin Used /\ e # NoLink /\ e \in Nat /\ last_ext \in Nat
      /\ Used' = Used \cup {e} /\ Used \subseteq Buckets /\ MainBuckets \subseteq Used
      /\ e \in num_buckets .. num_buckets + last_ext' - 1
      /\ num_buckets .. num_buckets + last_ext - 1 \subseteq Used
      /\ num_buckets .. num_buckets + last_ext' - 1
            = (num_buckets .. num_buckets + last_ext - 1) \cup {e}
  <2>1. num_buckets \in Nat \ {0} /\ num_buckets_ext \in Nat /\ last_ext \in Nat
    BY <1>0, HashTableAssumption DEF TypeOK
  <2>2. Used \subseteq Buckets /\ MainBuckets \subseteq Used
    BY <1>0, UsedRegion
  <2>3. e \in Buckets /\ e \notin Used /\ e # NoLink /\ e \in Nat
    BY <2>1, <1>1 DEF Used, Buckets, NoLink
  <2>4. Used' = Used \cup {e}
    BY <2>1, <1>2 DEF Used
  <2>5. /\ e \in num_buckets .. num_buckets + last_ext' - 1
        /\ num_buckets .. num_buckets + last_ext - 1 \subseteq Used
        /\ num_buckets .. num_buckets + last_ext' - 1
              = (num_buckets .. num_buckets + last_ext - 1) \cup {e}
    BY <2>1, <1>2 DEF Used
  <2> QED
    BY <2>1, <2>2, <2>3, <2>4, <2>5
<1> HIDE DEF a, e
<1>5. /\ \A c \in Used : home'[c] = home[c] /\ pos'[c] = pos[c] /\ pos[c] \in Nat
      /\ home'[e] = home[a] /\ pos'[e] = pos[a] + 1 /\ pos[a] \in Nat
      /\ link'[a] = e /\ \A c \in Buckets : c # a => link'[c] = link[c]
      /\ pc'[t] = "fill" /\ at'[t] = e
      /\ \A u \in Threads \ {t} : pc'[u] = pc[u] /\ at'[u] = at[u]
    BY <1>0, <1>2, <1>3, <1>4, Zenon DEF TypeOK, a
<1>6. TypeOK'
  <2>1. home[a] \in Nat /\ pos[a] + 1 \in Nat /\ last_ext + 1 \in 0 .. num_buckets_ext
    <3>1. last_ext \in Nat /\ num_buckets_ext \in Nat /\ last_ext < num_buckets_ext
      BY <1>1, <1>4, HashTableAssumption, Zenon
    <3>2. last_ext + 1 \in 0 .. num_buckets_ext
      BY <3>1
    <3>3. home[a] \in Nat
      BY <1>0, <1>3, <1>4, Zenon DEF TypeOK
    <3>4. pos[a] \in Nat
      BY <1>5, Zenon
    <3>5. pos[a] + 1 \in Nat
      BY <3>4
    <3> QED
      BY <3>2, <3>3, <3>5, Zenon
  <2>2. link' \in [Buckets -> Nat] /\ home' \in [Buckets -> Nat] /\ pos' \in [Buckets -> Nat]
    BY <2>1, <1>0, <1>2, <1>4, Zenon DEF TypeOK
  <2>3. pc' \in [Threads -> Labels] /\ at' \in [Threads -> Buckets]
    BY <1>0, <1>2, <1>4 DEF TypeOK, Labels
  <2> QED
    BY <2>1, <2>2, <2>3, <1>0, <1>2, Zenon DEF TypeOK
<1>7. ChainInv'
  <2>1. \A b \in MainBuckets : home'[b] = b /\ pos'[b] = 0
    BY <1>0, <1>4, <1>5, ZenonT(30) DEF ChainInv
  <2>2. \A b \in Used' : home'[b] \in MainBuckets
    <3>1. \A b \in Used : home[b] \in MainBuckets
      BY <1>0 DEF ChainInv
    <3> QED
      BY <3>1, <1>3, <1>4, <1>5, Zenon
  <2>3. ASSUME NEW b \in Buckets, link'[b] # NoLink
        PROVE  /\ b \in Used' /\ link'[b] \in num_buckets .. num_buckets + last_ext' - 1
               /\ home'[link'[b]] = home'[b] /\ pos'[link'[b]] = pos'[b] + 1
    <3>1. CASE b = a
      BY <3>1, <1>3, <1>4, <1>5, ZenonT(30)
    <3>2. CASE b # a
      <4>1. /\ link'[b] = link[b] /\ b \in Used /\ link[b] \in num_buckets .. num_buckets + last_ext - 1
            /\ home[link[b]] = home[b] /\ pos[link[b]] = pos[b] + 1
        BY <3>2, <2>3, <1>0, <1>5 DEF ChainInv
      <4>2. link[b] \in Used /\ link[b] \in num_buckets .. num_buckets + last_ext' - 1
        BY <4>1, <1>4
      <4> QED
        BY <4>1, <4>2, <1>4, <1>5, ZenonT(30)
    <3> QED
      BY <3>1, <3>2
  <2>4. ASSUME NEW b \in Used, home[b] = home[a] PROVE ~ (pos[a] < pos[b])
    BY <2>4, <1>0, <1>3, Zenon DEF ChainInv
  <2>5. ASSUME NEW b \in Used', NEW c \in Used', home'[b] = home'[c], pos'[b] = pos'[c] PROVE b = c
    <3>1. CASE b \in Used /\ c \in Used
      <4>1. home[b] = home[c] /\ pos[b] = pos[c]
        BY <3>1, <2>5, <1>5, Zenon
      <4> QED
        BY <3>1, <4>1, <1>0, Zenon DEF ChainInv
    <3>2. ASSUME NEW x \in Used, home'[x] = home'[e], pos'[x] = pos'[e] PROVE FALSE
      <4>1. home[x] = home[a] /\ pos[x] = pos[a] + 1 /\ pos[a] \in Nat
        BY <3>2, <1>5, Zenon
      <4>2. ~ (pos[a] < pos[x])
        BY <4>1, <2>4, Zenon
      <4> QED
        BY <4>1, <4>2
    <3> QED
      BY <3>1, <3>2, <2>5, <1>4, Zenon
  <2>6. ASSUME NEW b \in Used', NEW c \in Used', home'[b] = home'[c], pos'[b] < pos'[c]
        PROVE  link'[b] # NoLink
    <3>1. CASE b \in Used /\ c \in Used
      <4>1. link[b] # NoLink /\ b \in Buckets
        BY <3>1, <2>6, <1>0, <1>4, <1>5 DEF ChainInv
      <4> QED
        BY <4>1, <1>4, <1>5, Zenon
    <3>2. CASE b = e
      <4>0. pos[a] \in Nat /\ pos'[e] = pos[a] + 1 /\ home'[e] = home[a]
        BY <1>5
      <4>1. pos[a] + 1 < pos'[c] /\ home'[c] = home[a]
        BY <3>2, <4>0, <2>6, Zenon
      <4>2. c \in Used
        BY <4>0, <4>1, <1>4
      <4>3. home[c] = home[a] /\ pos'[c] = pos[c] /\ pos[c] \in Nat
        BY <4>1, <4>2, <1>5
      <4>4. pos[a] < pos[c]
        BY <4>0, <4>1, <4>3
      <4> QED
        BY <4>2, <4>3, <4>4, <2>4, Zenon
    <3>3. CASE b \in Used /\ c = e
      <4>0. home[b] = home[a] /\ pos[b] < pos[a] + 1 /\ pos[b] \in Nat /\ pos[a] \in Nat
        BY <3>3, <2>6, <1>5, Zenon
      <4>1. home[b] = home[a] /\ (pos[b] < pos[a] \/ pos[b] = pos[a])
        BY <4>0, Neighbours
      <4>2. link[b] # NoLink \/ b = a
        BY <3>3, <4>1, <1>0, <1>3, Zenon DEF ChainInv
      <4> QED
        BY <3>3, <4>2, <1>4, <1>5
    <3> QED
      BY <3>1, <3>2, <3>3, <1>4, Zenon
  <2> QED
    BY <2>1, <2>2, <2>3, <2>5, <2>6 DEF ChainInv
<1>8. SlotInv'
  <2>1. ASSUME NEW b \in Buckets, NEW i \in Slots, slot[b][i] # NoKey
        PROVE  b \in Used' /\ home'[b] = hash[slot[b][i]]
    BY <2>1, <1>0, <1>4, <1>5 DEF SlotInv
  <2>2. ASSUME NEW b \in Buckets, link'[b] # NoLink PROVE Full(b)
    BY <2>2, <1>0, <1>3, <1>5, Zenon DEF SlotInv
  <2> QED
    BY <2>1, <2>2, <1>0, <1>2 DEF SlotInv, Full
<1>9. UniqueKeys' /\ \A k \in inserted' : Present(k)'
    BY <1>0, <1>2 DEF UniqueKeys, Present

<1>10. FilledInv'
  <2> SUFFICES ASSUME NEW b \in num_buckets .. num_buckets + last_ext' - 1
               PROVE  slot[b][1] # NoKey \/ \E u \in Threads : pc'[u] = "fill" /\ at'[u] = b
    BY <1>2, Zenon DEF FilledInv
  <2>1. CASE b = e
    BY <2>1, <1>5
  <2>2. CASE b \in num_buckets .. num_buckets + last_ext - 1
    <3>1. ASSUME NEW u \in Threads, pc[u] = "fill", at[u] = b PROVE pc'[u] = "fill" /\ at'[u] = b
      BY <3>1, <1>1, <1>5, ZenonT(30)
    <3> QED
      BY <2>2, <3>1, <1>0, ZenonT(30) DEF FilledInv
  <2> QED
    BY <2>1, <2>2, <1>4
<1>11. ASSUME NEW u \in Threads PROVE LockOf(u)'
  <2>1. CASE u = t
    BY <2>1, <1>0, <1>1, <1>2, <1>5, Zenon DEF LockOf, Locking, lock_id
  <2>2. CASE u # t
    BY <2>2, <1>0, <1>1, <1>2, <1>5 DEF LockOf, lock_id
  <2> QED
    BY <2>1, <2>2
<1>12. ASSUME NEW u \in Threads PROVE ScanOf(u)'
  <2>1. CASE u = t
    <3>1. Empty(e)
      BY <1>0, <1>4, ZenonT(30) DEF SlotInv, Empty
    <3>2. link'[e] = NoLink
      BY <1>0, <1>3, <1>4, <1>5, ZenonT(30) DEF ChainInv
    <3>3. ASSUME NEW c \in Used', home'[c] = hash[key[t]], pos'[c] < pos'[e]
          PROVE  Lacks(c, key[t])
      <4>0. pos[a] \in Nat /\ pos'[e] = pos[a] + 1
        BY <1>5, Zenon
      <4>1. c \in Used /\ home[c] = home[a] /\ (pos[c] < pos[a] \/ pos[c] = pos[a])
        <5>1. c # e
          BY <3>3, <4>0
        <5>2. c \in Used
          BY <5>1, <1>4
        <5>3. home[c] = home[a] /\ pos[c] \in Nat /\ pos[c] < pos[a] + 1
          BY <3>3, <4>0, <5>2, <1>3, <1>5, ZenonT(30)
        <5> QED
          BY <4>0, <5>2, <5>3, Neighbours
      <4>2. pos[c] = pos[a] => c = a
        BY <4>1, <1>0, <1>3, ZenonT(30) DEF ChainInv
      <4> QED
        BY <4>1, <4>2, <1>3, ZenonT(30)
    <3>4. e \in Used' /\ home'[e] = hash[key[t]]
      BY <1>3, <1>4, <1>5, Zenon
    <3>5. key'[t] = key[t] /\ pc'[t] = "fill" /\ at'[t] = e /\ slot' = slot
      BY <1>2, <1>5
    <3> QED
      BY <2>1, <3>1, <3>2, <3>3, <3>4, <3>5, ZenonT(30) DEF ScanOf, Empty, Lacks
  <2>2. CASE u # t
    <3>0. slot' = slot /\ key' = key /\ call' = call /\ idx' = idx
      BY <1>2, Zenon
    <3>1. pc'[u] = pc[u] /\ at'[u] = at[u] /\ ScanOf(u)
      BY <2>2, <1>0, <1>5
    <3>2. CASE pc[u] \in {"scan", "ext", "link", "fill"}
      <4>1. home'[e] # hash[key[u]] /\ home[a] # hash[key[u]]
        <5>1. pc[t] \in Locking /\ pc[u] \in Locking
          BY <3>2, <1>1 DEF Locking
        <5>2. hash[key[u]] # hash[key[t]]
          BY <5>1, <2>2, SameLock
        <5> QED
          BY <5>2, <1>3, <1>5, Zenon
      <4>2. at[u] \in Used /\ home[at[u]] = hash[key[u]]
        BY <3>1, <3>2, ZenonT(30) DEF ScanOf
      <4>3. at[u] # a /\ link'[at[u]] = link[at[u]]
        BY <4>1, <4>2, <1>4, <1>5, ZenonT(30)
      <4>4. ASSUME NEW c \in Used', home'[c] = hash[key[u]], pos'[c] < pos'[at[u]]
            PROVE  Lacks(c, key[u])
        <5>1. c \in Used
          BY <4>1, <4>4, <1>4, Zenon
        <5>2. home[c] = hash[key[u]] /\ pos[c] < pos[at[u]]
          BY <5>1, <4>2, <4>4, <1>5
        <5> QED
          BY <5>1, <5>2, <3>1, <3>2, ZenonT(30) DEF ScanOf
      <4>5. at[u] \in Used' /\ home'[at[u]] = hash[key[u]]
        BY <4>2, <1>4, <1>5, Zenon
      <4> QED
        BY <3>0, <3>1, <3>2, <4>3, <4>4, <4>5, ZenonT(30) DEF ScanOf, Full, Empty, Lacks
    <3>3. CASE pc[u] \notin {"scan", "ext", "link", "fill"}
      <4>1. at[u] \in Used => at[u] \in Used' /\ home'[at[u]] = home[at[u]]
        BY <1>4, <1>5, Zenon
      <4> QED
        BY <3>0, <3>1, <3>3, <4>1, ZenonT(30) DEF ScanOf, Present
    <3> QED
      BY <3>2, <3>3
  <2> QED
    BY <2>1, <2>2
<1>13. ASSUME NEW u \in Threads PROVE FoundOf(u)'
  <2>1. CASE u = t
    BY <2>1, <1>0, <1>2, <1>5 DEF FoundOf
  <2>2. CASE u # t
    <3>1. pc'[u] = pc[u] /\ at'[u] = at[u] /\ FoundOf(u) /\ ScanOf(u) /\ key[u] # NoKey
      BY <2>2, <1>0, <1>5, Regions, Zenon DEF TypeOK
    <3>2. ASSUME pc[u] = "read", NEW b \in Buckets, NEW i \in Slots, slot[b][i] = key[u], Ahead(u, b, i)
          PROVE  Ahead(u, b, i)'
      <4>1. b \in Used /\ at[u] \in Used
        BY <3>1, <3>2, <1>0, Zenon DEF SlotInv, ScanOf
      <4> QED
        BY <3>1, <3>2, <4>1, <1>2, <1>5 DEF Ahead
    <3> QED
      BY <3>1, <3>2, <1>2 DEF FoundOf, Present
  <2> QED
    BY <2>1, <2>2
<1> QED
    BY <1>6, <1>7, <1>8, <1>9, <1>10, <1>11, <1>12, <1>13 DEF IInv

\* After the bulk load the chains are the main buckets alone.
LEMMA InitInvariant == Init => IInv
<1> SUFFICES ASSUME Init PROVE IInv
    OBVIOUS
<1>1. /\ num_buckets \in Nat \ {0} /\ last_ext = 0 /\ Used = MainBuckets
      /\ \A b \in MainBuckets : slot[b] = Loaded[b]
      /\ \A b \in Buckets \ MainBuckets, i \in Slots : slot[b][i] = NoKey
      /\ \A b \in Buckets : link[b] = NoLink /\ home[b] = b /\ pos[b] = 0
      /\ \A t \in Threads : pc[t] = "idle" /\ result[t] = "none"
      /\ before = {}
  <2>1. num_buckets \in Nat \ {0} /\ last_ext = 0 /\ MainBuckets \subseteq Buckets
    BY HashTableAssumption, Regions DEF Init
  <2>2. Used = MainBuckets
    BY <2>1 DEF Used, MainBuckets
  <2>3. /\ \A b \in MainBuckets : slot[b] = Loaded[b]
        /\ \A b \in Buckets \ MainBuckets, i \in Slots : slot[b][i] = NoKey
    BY <2>1 DEF Init
  <2>4. /\ \A b \in Buckets : link[b] = NoLink /\ home[b] = b /\ pos[b] = 0
        /\ \A t \in Threads : pc[t] = "idle" /\ result[t] = "none"
        /\ before = {}
    BY Zenon DEF Init
  <2> QED
    BY <2>1, <2>2, <2>3, <2>4, Zenon
<1>2. slot \in [Buckets -> [Slots -> Keys \cup {NoKey}]]
    BY LoadedAssumption DEF Init
<1>3. TypeOK
  <2>1. 0 \in Buckets /\ AnyKey \in Keys /\ Buckets \subseteq Nat /\ 0 \in 0 .. num_buckets_ext
    BY Regions, HashTableAssumption
  <2>2. /\ link \in [Buckets -> Nat] /\ home \in [Buckets -> Nat] /\ pos \in [Buckets -> Nat]
        /\ last_ext \in 0 .. num_buckets_ext
    BY <2>1 DEF Init, NoLink
  <2> QED
    BY <1>2, <2>1, <2>2 DEF Init, TypeOK, Labels
<1>4. ChainInv
    BY <1>1, Regions DEF ChainInv
<1>5. SlotInv
    BY <1>1, LoadedAssumption, Regions DEF SlotInv
<1>6. UniqueKeys
  <2> SUFFICES ASSUME NEW b \in Buckets, NEW c \in Buckets, NEW i \in Slots, NEW j \in Slots,
                      slot[b][i] = slot[c][j], slot[b][i] # NoKey
               PROVE  b = c /\ i = j
    BY DEF UniqueKeys
  <2>1. b \in MainBuckets /\ c \in MainBuckets
    BY <1>1
  <2>2. b = c
    BY <2>1, <1>1, LoadedAssumption
  <2>3. Loaded[b][i] = Loaded[b][j] /\ Loaded[b][i] # NoKey
    BY <2>1, <2>2, <1>1
  <2> QED
    BY <2>1, <2>2, <2>3, LoadedAssumption
<1>7. FilledInv
    BY <1>1 DEF FilledInv
<1>8. \A k \in inserted : Present(k)
  <2> SUFFICES ASSUME NEW k \in inserted PROVE Present(k)
    OBVIOUS
  <2>1. k \in Keys /\ \E i \in Slots : Loaded[hash[k]][i] = k
    BY Zenon DEF Init
  <2>2. hash[k] \in Buckets /\ slot[hash[k]] = Loaded[hash[k]]
    BY <2>1, <1>1, Regions, Zenon
  <2> QED
    BY <2>1, <2>2 DEF Present
<1>9. \A t \in Threads : LockOf(t) /\ ScanOf(t) /\ FoundOf(t)
    BY <1>1, Zenon DEF LockOf, Locking, ScanOf, FoundOf
<1> QED
    BY <1>3, <1>4, <1>5, <1>6, <1>7, <1>8, <1>9 DEF IInv

-----------------------------------------------------------------------------
(* Where a search of a bucket ends, and the steps that depend on it.       *)

LOCAL INSTANCE WellFoundedInduction

\* A non-empty set of slots has a least one.
LEMMA LeastSlot ==
    ASSUME NEW T, T \subseteq Slots, T # {}
    PROVE  \E i \in T : \A j \in T : i <= j
<1>1. T \subseteq Nat
    BY Regions
<1> DEFINE R == {ss \in Nat \X Nat : ss[1] < ss[2]}
<1>2. IsWellFoundedOn(R, Nat)
    BY NatLessThanWellFounded DEF OpToRel
<1> HIDE DEF R
<1>3. \E i \in T : \A j \in T : ~ (<<j, i>> \in R)
    BY <1>1, <1>2, WFMin, Zenon
<1>4. \A i, j \in Nat : ~ (<<j, i>> \in R) => i <= j
    BY DEF R
<1> QED
    BY <1>1, <1>3, <1>4, Zenon

\* FirstHit stops at the key or at the first empty slot.
LEMMA Hits ==
    ASSUME NEW b, NEW k
    PROVE  \/ FirstHit(b, k) = 0 /\ \A i \in Slots : slot[b][i] # k /\ slot[b][i] # NoKey
           \/ /\ FirstHit(b, k) \in Slots /\ slot[b][FirstHit(b, k)] \in {k, NoKey}
              /\ \A j \in Slots : slot[b][j] \in {k, NoKey} => FirstHit(b, k) <= j
<1> DEFINE T == {i \in Slots : slot[b][i] \in {k, NoKey}}
<1>1. CASE T = {}
    BY <1>1, Zenon DEF FirstHit
<1>2. CASE T # {}
  <2>1. \E i \in T : \A j \in T : i <= j
    BY <1>2, LeastSlot, Zenon
  <2> QED
    BY <2>1 DEF FirstHit
<1> QED
    BY <1>1, <1>2

LEMMA NoHit ==
    ASSUME NEW b, NEW k, FirstHit(b, k) = 0
    PROVE  \A i \in Slots : slot[b][i] # k /\ slot[b][i] # NoKey
<1>1. 0 \notin Slots
    BY Regions
<1> QED
    BY <1>1, Hits

\* A bucket without its key: the thread goes on along the chain.
LEMMA NextBucketPreserves ==
    ASSUME IInv, NEW t \in Threads, NextBucket(t, FirstHit(at[t], key[t]))
    PROVE  IInv'
<1>0. TypeOK /\ ChainInv /\ ScanOf(t) /\ FoundOf(t) /\ \A u \in Threads : LockOf(u)
    BY DEF IInv
<1> DEFINE n == link[at[t]]
<1>1. /\ pc[t] = "scan" /\ FirstHit(at[t], key[t]) = 0 /\ n # NoLink
      /\ at' = [at EXCEPT ![t] = n]
      /\ UNCHANGED <<slot, link, last_ext>> /\ UNCHANGED <<home, pos>>
      /\ UNCHANGED <<bucket_locks, bucket_ext_lock>>
      /\ UNCHANGED <<pc, call, key, idx, result>> /\ UNCHANGED <<inserted, before>>
    BY DEF NextBucket, table, places, locks, history
<1>2. at[t] \in Used /\ at[t] \in Buckets /\ home[at[t]] = hash[key[t]] /\ Lacks(at[t], key[t])
  <2>1. \A i \in Slots : slot[at[t]][i] # key[t]
    BY <1>1, NoHit, ZenonT(30)
  <2> QED
    BY <2>1, <1>0, <1>1, UsedRegion, ZenonT(30) DEF ScanOf, Lacks
<1>3. n \in Used /\ n \in Buckets /\ home[n] = home[at[t]] /\ pos[n] = pos[at[t]] + 1
    BY <1>0, <1>1, <1>2, Linked, Zenon
<1>4. ASSUME NEW c \in Used, home[c] = hash[key[t]], pos[c] < pos[n] PROVE Lacks(c, key[t])
  <2>1. pos[c] \in Nat /\ pos[at[t]] \in Nat
    BY <1>0, <1>2, UsedRegion DEF TypeOK
  <2>2. pos[c] = pos[at[t]] => c = at[t]
    BY <1>0, <1>2, <1>4, SamePlace, ZenonT(30)
  <2>3. pos[c] < pos[at[t]] => Lacks(c, key[t])
    BY <1>0, <1>1, <1>4, ZenonT(30) DEF ScanOf
  <2>4. pos[c] < pos[at[t]] + 1
    BY <1>3, <1>4, ZenonT(30)
  <2>5. pos[c] < pos[at[t]] \/ pos[c] = pos[at[t]]
    BY <2>1, <2>4, Neighbours, Zenon
  <2> QED
    BY <2>2, <2>3, <2>5, <1>2, Zenon
<1> HIDE DEF n
<1>5. at'[t] = n
    BY <1>0, <1>1, Zenon DEF TypeOK
<1>6. TypeOK' /\ Alone(t) /\ \A u \in Threads : LockOf(u)'
    BY <1>0, <1>1, <1>3, Zenon DEF TypeOK, Alone, LockOf, lock_id
<1>7. ScanOf(t)'
    BY <1>1, <1>2, <1>3, <1>4, <1>5, ZenonT(30) DEF ScanOf, Used, Lacks
<1>8. FoundOf(t)'
    BY <1>0, <1>1, ZenonT(30) DEF FoundOf, Present
<1> QED
    BY <1>1, <1>6, <1>7, <1>8, AlonePreserves, Zenon

\* A scan that stops at an empty slot, or behind the last one, has not missed
\* the key.
LEMMA Missing ==
    ASSUME TypeOK, ChainInv, SlotInv, NEW t \in Threads, ScanOf(t), pc[t] = "scan",
           NEW hit, hit = FirstHit(at[t], key[t]),
           \/ hit = 0 /\ link[at[t]] = NoLink
           \/ hit # 0 /\ slot[at[t]][hit] # key[t]
    PROVE  link[at[t]] = NoLink /\ Lacks(at[t], key[t]) /\ ~ Present(key[t])
<1>1. key[t] # NoKey /\ at[t] \in Buckets
    BY Regions, Zenon DEF TypeOK
<1>2. CASE hit = 0
  <2>0. FirstHit(at[t], key[t]) = 0
    BY <1>2, Zenon
  <2>1. \A i \in Slots : slot[at[t]][i] # key[t]
    BY <2>0, NoHit
  <2> QED
    BY <1>2, <2>1, Absent, ZenonT(30) DEF Lacks
<1>3. CASE hit # 0
  <2>1. /\ hit \in Slots /\ slot[at[t]][hit] = NoKey
        /\ \A j \in Slots : slot[at[t]][j] \in {key[t], NoKey} => hit <= j
    BY <1>3, Hits, Zenon
  <2>2. \A j \in Slots : hit < j => slot[at[t]][j] = NoKey
    BY <1>1, <2>1, Zenon DEF SlotInv
  <2>3. ASSUME NEW j \in Slots PROVE slot[at[t]][j] # key[t]
    <3>1. j \in Nat /\ hit \in Nat
      BY <2>1, Regions
    <3>2. CASE j < hit
      BY <3>1, <3>2, <2>1
    <3>3. CASE j = hit \/ hit < j
      BY <3>3, <1>1, <2>1, <2>2, Zenon
    <3> QED
      BY <3>1, <3>2, <3>3
  <2>4. link[at[t]] = NoLink
    BY <1>1, <2>1 DEF SlotInv, Full
  <2> QED
    BY <2>3, <2>4, Absent, Zenon DEF Lacks
<1> QED
    BY <1>2, <1>3, Zenon

LEMMA EndOfChainPreserves ==
    ASSUME IInv, NEW t \in Threads, EndOfChain(t, FirstHit(at[t], key[t]))
    PROVE  IInv'
<1>0. TypeOK /\ ScanOf(t) /\ FoundOf(t) /\ \A u \in Threads : LockOf(u)
    BY Zenon DEF IInv
<1>1. /\ pc[t] = "scan" /\ call[t] \in Inserts
      /\ FirstHit(at[t], key[t]) = 0 /\ link[at[t]] = NoLink
      /\ pc' = [pc EXCEPT ![t] = "ext"]
      /\ UNCHANGED <<slot, link, last_ext>> /\ UNCHANGED <<home, pos>>
      /\ UNCHANGED <<bucket_locks, bucket_ext_lock>>
      /\ UNCHANGED <<call, key, at, idx, result>> /\ UNCHANGED <<inserted, before>>
    BY DEF EndOfChain, Goto, table, places, locks, history
<1>2. Full(at[t]) /\ Lacks(at[t], key[t])
  <2>1. \A i \in Slots : slot[at[t]][i] # key[t] /\ slot[at[t]][i] # NoKey
    BY <1>1, NoHit, Zenon
  <2> QED
    BY <2>1 DEF Full, Lacks
<1>3. pc'[t] = "ext"
    BY <1>0, <1>1, Zenon DEF TypeOK
<1>4. TypeOK' /\ Alone(t)
    BY <1>0, <1>1, Zenon DEF TypeOK, Labels, Alone
<1>5. \A u \in Threads : LockOf(u)'
    BY <1>0, <1>1 DEF TypeOK, LockOf, Locking, lock_id
<1>6. ScanOf(t)'
    BY <1>0, <1>1, <1>2, <1>3, Zenon DEF ScanOf, Used, Full, Lacks
<1>7. FoundOf(t)'
    BY <1>0, <1>1, <1>3, ZenonT(30) DEF FoundOf
<1> QED
    BY <1>1, <1>4, <1>5, <1>6, <1>7, AlonePreserves, ZenonT(30)

LEMMA AnswerPreserves ==
    ASSUME IInv, NEW t \in Threads, Answer(t, FirstHit(at[t], key[t]))
    PROVE  IInv'
<1>0. TypeOK /\ ChainInv /\ SlotInv /\ ScanOf(t) /\ FoundOf(t) /\ \A u \in Threads : LockOf(u)
    BY ZenonT(30) DEF IInv
<1> DEFINE hit == FirstHit(at[t], key[t])
           answer == IF hit # 0 /\ slot[at[t]][hit] = key[t] THEN "found" ELSE "missing"
<1>1. /\ pc[t] = "scan" /\ call[t] \notin Inserts /\ (hit # 0 \/ link[at[t]] = NoLink)
      /\ result' = [result EXCEPT ![t] = answer]
      /\ pc' = [pc EXCEPT ![t] = "unlock"]
      /\ UNCHANGED <<slot, link, last_ext>> /\ UNCHANGED <<home, pos>>
      /\ UNCHANGED <<bucket_locks, bucket_ext_lock>>
      /\ UNCHANGED <<call, key, at, idx>> /\ UNCHANGED <<inserted, before>>
    BY ZenonT(30) DEF Answer, Goto, table, places, locks, history
<1>2. answer = "missing" => ~ Present(key[t])
    BY <1>0, <1>1, Missing, Zenon
<1>3. answer \in {"found", "missing"}
    OBVIOUS
<1> HIDE DEF hit, answer
<1>4. pc'[t] = "unlock" /\ result'[t] = answer
    BY <1>0, <1>1, Zenon DEF TypeOK
<1>5. TypeOK' /\ Alone(t)
    BY <1>0, <1>1, <1>3, Zenon DEF TypeOK, Labels, Alone
<1>6. \A u \in Threads : LockOf(u)'
    BY <1>0, <1>1 DEF TypeOK, LockOf, Locking, lock_id
<1>7. ScanOf(t)'
    BY <1>1, <1>4, ZenonT(30) DEF ScanOf
<1>8. FoundOf(t)'
    BY <1>0, <1>1, <1>2, <1>4, ZenonT(30) DEF FoundOf
<1> QED
    BY <1>1, <1>5, <1>6, <1>7, <1>8, AlonePreserves, Zenon

LEMMA StorePreserves ==
    ASSUME IInv, NEW t \in Threads, Store(t, FirstHit(at[t], key[t]))
    PROVE  IInv'
<1>0. TypeOK /\ ChainInv /\ SlotInv /\ ScanOf(t) /\ FoundOf(t) /\ \A u \in Threads : LockOf(u)
    BY Zenon DEF IInv
<1> DEFINE h == FirstHit(at[t], key[t])
<1>1. /\ pc[t] = "scan" /\ call[t] \in Inserts /\ h # 0
      /\ slot' = [slot EXCEPT ![at[t]][h] = key[t]]
      /\ pc' = [pc EXCEPT ![t] =
                   IF slot[at[t]][h] = key[t] /\ call[t] = "insert_new" THEN "failed" ELSE "unlock"]
      /\ UNCHANGED <<link, last_ext>> /\ UNCHANGED <<home, pos>>
      /\ UNCHANGED <<bucket_locks, bucket_ext_lock>>
      /\ UNCHANGED <<call, key, at, idx, result>> /\ UNCHANGED <<inserted, before>>
    BY Zenon DEF Store, Goto, places, locks, history
<1>2. /\ h \in Slots /\ slot[at[t]][h] \in {key[t], NoKey}
      /\ \A j \in Slots : slot[at[t]][j] \in {key[t], NoKey} => h <= j
    BY <1>1, Hits
<1>3. at[t] \in Buckets /\ key[t] # NoKey
    BY <1>0, Regions, Zenon DEF TypeOK
<1>4. slot[at[t]][h] # key[t] => link[at[t]] = NoLink /\ ~ Present(key[t])
    BY <1>0, <1>1, Missing
<1> HIDE DEF h
<1>5. CASE slot[at[t]][h] = key[t]
  <2>1. slot' = slot
    BY <1>0, <1>1, <1>2, <1>3, <1>5, Zenon DEF TypeOK
  <2>2. pc'[t] \in {"failed", "unlock"} /\ Present(key[t])
    BY <1>0, <1>1, <1>2, <1>3, <1>5, Zenon DEF TypeOK, Present
  <2>3. TypeOK' /\ Alone(t)
    BY <2>1, <1>0, <1>1, Zenon DEF TypeOK, Labels, Alone
  <2>4. \A u \in Threads : LockOf(u)'
    BY <1>0, <1>1, Zenon DEF TypeOK, LockOf, Locking, lock_id
  <2>5. ScanOf(t)'
    BY <2>1, <2>2, <1>1, Zenon DEF ScanOf, Present
  <2>6. FoundOf(t)'
    BY <2>2, <1>0, <1>1 DEF FoundOf
  <2> QED
    BY <2>3, <2>4, <2>5, <2>6, <1>1, AlonePreserves, Zenon
<1>6. CASE slot[at[t]][h] # key[t]
  <2>1. slot[at[t]][h] = NoKey /\ pc' = [pc EXCEPT ![t] = "unlock"]
    BY <1>1, <1>2, <1>6, Zenon
  <2>2. \A j \in Slots : j < h => slot[at[t]][j] # NoKey
    BY <1>2, Regions
  <2>3. link[at[t]] = NoLink /\ ~ Present(key[t])
    BY <1>4, <1>6
  <2>4. UNCHANGED <<link, last_ext, home, pos>>
    BY <1>1
  <2> QED
    BY <2>1, <2>2, <2>3, <2>4, <1>1, <1>2, PutPreserves, Zenon
<1> QED
    BY <1>5, <1>6, ZenonT(30)

-----------------------------------------------------------------------------
(* The invariant, and what follows from it.                                *)

LEMMA NextInvariant == IInv /\ [Next]_vars => IInv'
<1> SUFFICES ASSUME IInv, [Next]_vars PROVE IInv'
    OBVIOUS
<1>1. CASE UNCHANGED vars
  <2>1. /\ UNCHANGED <<slot, link, last_ext>> /\ UNCHANGED <<home, pos>>
        /\ UNCHANGED <<bucket_locks, bucket_ext_lock>>
        /\ UNCHANGED <<pc, call, key, at, idx, result>> /\ UNCHANGED <<inserted, before>>
    BY <1>1 DEF vars, table, places, locks, history
  <2>0. TypeOK /\ ChainInv /\ UniqueKeys /\ SlotInv /\ FilledInv
    BY Zenon DEF IInv
  <2>2. TypeOK'
    BY <2>0, <2>1, Zenon DEF TypeOK
  <2>3. ChainInv'
    <3>1. Used' = Used /\ link' = link /\ home' = home /\ pos' = pos /\ last_ext' = last_ext
      BY <2>1, Zenon DEF Used
    <3> QED
      BY <3>1, <2>0, Zenon DEF ChainInv
  <2>6. SlotInv'
    BY <2>0, <2>1, Zenon DEF SlotInv, Used, Full
  <2>7. FilledInv' /\ UniqueKeys'
    <3>1. FilledInv'
      BY <2>0, <2>1, Zenon DEF FilledInv
    <3>2. slot' = slot
      BY <2>1, Zenon
    <3>3. UniqueKeys'
      BY <2>0, <3>2 DEF UniqueKeys
    <3> QED
      BY <3>1, <3>3
  <2>4. \A k \in inserted' : Present(k)'
    BY <2>1, Zenon DEF IInv, Present
  <2>5. ASSUME NEW t \in Threads PROVE LockOf(t)' /\ ScanOf(t)' /\ FoundOf(t)'
    <3>1. LockOf(t) /\ ScanOf(t) /\ FoundOf(t)
      BY Zenon DEF IInv
    <3>2. LockOf(t)'
      BY <3>1, <2>1 DEF LockOf, lock_id
    <3>3. ScanOf(t)'
      BY <3>1, <2>1, ZenonT(30) DEF ScanOf, Used, Full, Empty, Lacks, Present
    <3>4. FoundOf(t)'
      BY <3>1, <2>1, ZenonT(30) DEF FoundOf, Ahead, Present
    <3> QED
      BY <3>2, <3>3, <3>4
  <2> QED
    BY <2>2, <2>3, <2>4, <2>5, <2>6, <2>7 DEF IInv
<1>2. ASSUME NEW t \in Threads, Step(t) PROVE IInv'
  <2>1. CASE Scan(t, FirstHit(at[t], key[t]))
    BY <2>1, StorePreserves, NextBucketPreserves, EndOfChainPreserves, AnswerPreserves, Zenon DEF Scan
  <2>2. CASE Lock(t) \/ ExtLock(t) \/ Unlock(t)
    BY <2>2, LockPreserves, ExtLockPreserves, UnlockPreserves
  <2>3. CASE Link(t) \/ Fill(t)
    BY <2>3, LinkPreserves, FillPreserves
  <2>4. CASE Read(t) \/ Follow(t)
    BY <2>4, ReadPreserves, FollowPreserves
  <2> QED
    BY <1>2, <2>1, <2>2, <2>3, <2>4, BeginPreserves, ZenonT(30) DEF Step
<1> QED
    BY <1>1, <1>2 DEF Next, Ended

\* Every reachable state of the header region satisfies the inductive
\* invariant: chains without gaps, keys in the chains of their hash values,
\* and threads that have missed nothing behind them.
THEOREM TableInvariance == Spec => []IInv
BY InitInvariant, NextInvariant, PTL DEF Spec

\* Threads that insert the same key at the same time never store it twice,
\* whatever the buckets, the slots and the locks that buckets share.
THEOREM KeysUnique == Spec => []UniqueKeys
<1>1. IInv => UniqueKeys
    BY Zenon DEF IInv
<1> QED
    BY <1>1, TableInvariance, PTL

\* A look-up that begins after the insertion of its key has returned finds
\* it, with the lock of the bucket or without.
THEOREM KeysFound == Spec => []NoLostKey
<1>1. IInv => NoLostKey
    BY DEF IInv, FoundOf, NoLostKey
<1> QED
    BY <1>1, TableInvariance, PTL

\* The indirect buckets are linked to once each, behind full buckets, and
\* none of them stays empty.
THEOREM BucketsLinked == Spec => []LinkedWhenFull
<1>1. ASSUME IInv PROVE LinkedWhenFull
  <2>0. TypeOK /\ ChainInv /\ SlotInv /\ FilledInv
    BY <1>1, Zenon DEF IInv
  <2>1. ASSUME NEW b \in Buckets, NEW c \in Buckets, link[b] # NoLink, link[b] = link[c] PROVE b = c
    <3>1. b \in Used /\ c \in Used
      BY <2>0, <2>1 DEF ChainInv
    <3>2. home[b] = home[c] /\ pos[b] + 1 = pos[c] + 1
      BY <2>0, <2>1, Linked
    <3>3. pos[b] \in Nat /\ pos[c] \in Nat
      BY <2>0 DEF TypeOK
    <3>4. pos[b] = pos[c]
      BY <3>2, <3>3
    <3> QED
      BY <3>1, <3>2, <3>4, <2>0, SamePlace
  <2>2. ASSUME NEW b \in Buckets, link[b] # NoLink
        PROVE  link[b] \in num_buckets .. num_buckets + last_ext - 1 /\ \A i \in Slots : slot[b][i] # NoKey
    BY <2>0, <2>2 DEF ChainInv, SlotInv, Full
  <2> QED
    BY <2>0, <2>1, <2>2 DEF LinkedWhenFull, FilledInv
<1> QED
    BY <1>1, TableInvariance, PTL

=============================================================================
