----------------------------- MODULE HashTable -----------------------------
(***************************************************************************)
(* The header region of the store (core/gstore.hpp): a hash table of       *)
(* buckets whose last slot links to a bucket of the indirect-header        *)
(* region.  insert_key and check_key_exist hold the lock of their bucket,  *)
(* which several buckets may share; get_vertex_local and get_vertex_remote *)
(* read slot after slot without any lock.                                  *)
(***************************************************************************)
EXTENDS Integers

CONSTANTS
    Threads,
    Keys,
    Called,             \* the keys that calls are made with
    hash,               \* hash[k]: key.hash() % num_buckets
    Loaded,             \* Loaded[b][i]: slot i of main bucket b after the bulk load
    NUM_LOCKS,
    ASSOCIATIVITY,
    num_buckets,
    num_buckets_ext,
    MaxCalls            \* bound: the calls that all the threads make

NoKey == "empty"
NoLink == 0             \* bucket 0 is in the main-header region: never linked to
Nobody == "nobody"

ASSUME HashTableAssumption ==
    /\ num_buckets \in Nat \ {0} /\ num_buckets_ext \in Nat
    /\ NUM_LOCKS \in Nat \ {0} /\ ASSOCIATIVITY \in Nat \ {0, 1}
    /\ hash \in [Keys -> 0 .. num_buckets - 1]
    /\ Called \subseteq Keys /\ Called # {} /\ NoKey \notin Keys /\ Nobody \notin Threads
    /\ MaxCalls \in Nat

\* insert_key with check_dup (which asserts that the key is new) and without,
\* check_key_exist, and get_vertex_local or get_vertex_remote.
Inserts == {"insert_new", "insert_key"}
Functions == Inserts \cup {"check_key_exist", "get_vertex"}

MainBuckets == 0 .. num_buckets - 1
Buckets == 0 .. num_buckets + num_buckets_ext - 1
Slots == 1 .. ASSOCIATIVITY - 1

\* The load has put every key once, in its own bucket, in the first free slot.
ASSUME LoadedAssumption ==
    /\ Loaded \in [MainBuckets -> [Slots -> Keys \cup {NoKey}]]
    /\ \A b \in MainBuckets, i \in Slots : Loaded[b][i] # NoKey =>
          /\ hash[Loaded[b][i]] = b
          /\ \A j \in Slots : /\ j < i => Loaded[b][j] # NoKey
                              /\ Loaded[b][j] = Loaded[b][i] => j = i

VARIABLES
    slot,           \* slot[b][i]: the key in slot i of bucket b
    link,           \* link[b]: the bucket behind b
    last_ext,       \* how many indirect buckets are in use
    bucket_locks,   \* their holders
    bucket_ext_lock,
    pc,
    call,           \* call[t]: the function that thread t executes
    key,            \* and its argument
    at,             \* at[t]: the bucket that t looks at
    idx,            \* idx[t]: the slot that a reader looks at
    result,         \* result[t]: what a look-up has found
    inserted,       \* the keys whose insertion has returned
    home, pos,      \* auxiliary: the main bucket of a chain, and the place in it
    before,         \* the threads whose key was one of them when their call began
    calls           \* the number of calls begun

table == <<slot, link, last_ext>>
locks == <<bucket_locks, bucket_ext_lock>>
places == <<home, pos>>
history == <<inserted, before, calls>>
vars == <<table, locks, places, pc, call, key, at, idx, result, history>>

AnyKey == CHOOSE k \in Called : TRUE

Init ==
    /\ slot = [b \in Buckets |-> IF b \in MainBuckets THEN Loaded[b] ELSE [i \in Slots |-> NoKey]]
    /\ link = [b \in Buckets |-> NoLink]
    /\ last_ext = 0
    /\ home = [b \in Buckets |-> b] /\ pos = [b \in Buckets |-> 0]
    /\ bucket_locks = [l \in 0 .. NUM_LOCKS - 1 |-> Nobody] /\ bucket_ext_lock = Nobody
    /\ pc = [t \in Threads |-> "idle"] /\ call = [t \in Threads |-> "none"]
    /\ key = [t \in Threads |-> AnyKey]
    /\ at = [t \in Threads |-> 0] /\ idx = [t \in Threads |-> 1]
    /\ result = [t \in Threads |-> "none"]
    /\ inserted = {k \in Keys : \E i \in Slots : Loaded[hash[k]][i] = k}
    /\ before = {} /\ calls = 0

lock_id(t) == hash[key[t]] % NUM_LOCKS

\* The first slot of bucket b that has the key or is empty, 0 if none does.
FirstHit(b, k) ==
    IF \E i \in Slots : slot[b][i] \in {k, NoKey}
    THEN CHOOSE i \in Slots : /\ slot[b][i] \in {k, NoKey}
                              /\ \A j \in Slots : slot[b][j] \in {k, NoKey} => i <= j
    ELSE 0

Goto(t, where) == pc' = [pc EXCEPT ![t] = where]

\* The locals of the call are forgotten.
Return(t) ==
    /\ Goto(t, "idle")
    /\ call' = [call EXCEPT ![t] = "none"] /\ key' = [key EXCEPT ![t] = AnyKey]
    /\ at' = [at EXCEPT ![t] = 0] /\ idx' = [idx EXCEPT ![t] = 1]

-----------------------------------------------------------------------------

Begin(t, function, k) ==
    /\ pc[t] = "idle" /\ calls < MaxCalls
    /\ call' = [call EXCEPT ![t] = function] /\ key' = [key EXCEPT ![t] = k]
    /\ at' = [at EXCEPT ![t] = hash[k]] /\ idx' = [idx EXCEPT ![t] = 1]
    /\ result' = [result EXCEPT ![t] = "none"]
    /\ before' = IF k \in inserted THEN before \cup {t} ELSE before \ {t}
    /\ calls' = calls + 1
    /\ Goto(t, IF function = "get_vertex" THEN "read" ELSE "lock")
    /\ UNCHANGED <<table, places, locks, inserted>>

\* Mutant of Lock: the lock is not awaited.
Lock_None(t) ==
    /\ pc[t] = "lock"
    /\ bucket_locks' = [bucket_locks EXCEPT ![lock_id(t)] = t]
    /\ Goto(t, "scan")
    /\ UNCHANGED <<table, places, bucket_ext_lock, call, key, at, idx, result, history>>

Lock(t) ==
    /\ pc[t] = "lock" /\ bucket_locks[lock_id(t)] = Nobody
    /\ bucket_locks' = [bucket_locks EXCEPT ![lock_id(t)] = t]
    /\ Goto(t, "scan")
    /\ UNCHANGED <<table, places, bucket_ext_lock, call, key, at, idx, result, history>>

\* One round of the loops of insert_key and check_key_exist: a bucket, whose
\* slots only the holder of the lock changes.  The key is there, or there is
\* room for it (with check_dup, an assertion stops the former), ...
Store(t, hit) ==
    /\ pc[t] = "scan" /\ call[t] \in Inserts /\ hit # 0
    /\ slot' = [slot EXCEPT ![at[t]][hit] = key[t]]
    /\ Goto(t, IF slot[at[t]][hit] = key[t] /\ call[t] = "insert_new" THEN "failed" ELSE "unlock")
    /\ UNCHANGED <<link, last_ext, places, locks, call, key, at, idx, result, history>>

\* ... or the bucket is full and the chain goes on, ...
NextBucket(t, hit) ==
    /\ pc[t] = "scan" /\ hit = 0 /\ link[at[t]] # NoLink
    /\ at' = [at EXCEPT ![t] = link[at[t]]]
    /\ UNCHANGED <<table, places, locks, pc, call, key, idx, result, history>>

\* ... or it ends here.
EndOfChain(t, hit) ==
    /\ pc[t] = "scan" /\ call[t] \in Inserts /\ hit = 0 /\ link[at[t]] = NoLink
    /\ Goto(t, "ext")
    /\ UNCHANGED <<table, places, locks, call, key, at, idx, result, history>>

Answer(t, hit) ==
    /\ pc[t] = "scan" /\ call[t] \notin Inserts /\ (hit # 0 \/ link[at[t]] = NoLink)
    /\ result' = [result EXCEPT ![t] =
                     IF hit # 0 /\ slot[at[t]][hit] = key[t] THEN "found" ELSE "missing"]
    /\ Goto(t, "unlock")
    /\ UNCHANGED <<table, places, locks, call, key, at, idx, history>>

Scan(t, hit) == Store(t, hit) \/ NextBucket(t, hit) \/ EndOfChain(t, hit) \/ Answer(t, hit)

\* Mutant of ExtLock: two threads may allocate at the same time.
ExtLock_None(t) ==
    /\ pc[t] = "ext"
    /\ Goto(t, IF last_ext < num_buckets_ext THEN "link" ELSE "failed")
    /\ idx' = [idx EXCEPT ![t] = last_ext]
    /\ UNCHANGED <<table, places, locks, call, key, at, result, history>>

\* A new indirect bucket: last_ext is read and checked under the lock; the
\* failed assertion leaves both locks taken.
ExtLock(t) ==
    /\ pc[t] = "ext" /\ bucket_ext_lock = Nobody
    /\ bucket_ext_lock' = t
    /\ Goto(t, IF last_ext < num_buckets_ext THEN "link" ELSE "failed")
    /\ idx' = [idx EXCEPT ![t] = last_ext]
    /\ UNCHANGED <<table, places, bucket_locks, call, key, at, result, history>>

\* The link is visible to readers before the key is.
Link(t) ==
    /\ pc[t] = "link"
    /\ link' = [link EXCEPT ![at[t]] = num_buckets + idx[t]]
    /\ last_ext' = idx[t] + 1
    /\ home' = [home EXCEPT ![num_buckets + idx[t]] = home[at[t]]]
    /\ pos' = [pos EXCEPT ![num_buckets + idx[t]] = pos[at[t]] + 1]
    /\ at' = [at EXCEPT ![t] = num_buckets + idx[t]]
    /\ bucket_ext_lock' = Nobody
    /\ Goto(t, "fill")
    /\ UNCHANGED <<slot, bucket_locks, call, key, idx, result, history>>

Fill(t) ==
    /\ pc[t] = "fill"
    /\ slot' = [slot EXCEPT ![at[t]][1] = key[t]]
    /\ Goto(t, "unlock")
    /\ UNCHANGED <<link, last_ext, places, locks, call, key, at, idx, result, history>>

Unlock(t) ==
    /\ pc[t] = "unlock"
    /\ bucket_locks' = [bucket_locks EXCEPT ![lock_id(t)] = Nobody]
    /\ inserted' = IF call[t] \in Inserts THEN inserted \cup {key[t]} ELSE inserted
    /\ Return(t)
    /\ UNCHANGED <<table, places, bucket_ext_lock, result, before, calls>>

\* get_vertex: one slot, or the link behind the last one.
Read(t) ==
    /\ pc[t] = "read" /\ idx[t] \in Slots
    /\ IF slot[at[t]][idx[t]] = key[t]
       THEN Return(t) /\ result' = [result EXCEPT ![t] = "found"]
       ELSE idx' = [idx EXCEPT ![t] = @ + 1] /\ UNCHANGED <<pc, call, key, at, result>>
    /\ UNCHANGED <<table, places, locks, history>>

\* Mutant of Follow: the readers stop at the first bucket.
Follow_Never(t) ==
    /\ pc[t] = "read" /\ idx[t] \notin Slots
    /\ Return(t) /\ result' = [result EXCEPT ![t] = "missing"]
    /\ UNCHANGED <<table, places, locks, history>>

Follow(t) ==
    /\ pc[t] = "read" /\ idx[t] \notin Slots
    /\ IF link[at[t]] = NoLink
       THEN Return(t) /\ result' = [result EXCEPT ![t] = "missing"]
       ELSE /\ at' = [at EXCEPT ![t] = link[at[t]]] /\ idx' = [idx EXCEPT ![t] = 1]
            /\ UNCHANGED <<pc, call, key, result>>
    /\ UNCHANGED <<table, places, locks, history>>

\* Everything has been called, or an assertion has stopped the server.
Ended ==
    /\ \/ calls = MaxCalls /\ \A t \in Threads : pc[t] = "idle"
       \/ \E t \in Threads : pc[t] = "failed"
    /\ UNCHANGED vars

Step(t) ==
    \/ \E k \in Called, function \in Functions : Begin(t, function, k)
    \/ Lock(t) \/ Scan(t, FirstHit(at[t], key[t])) \/ ExtLock(t) \/ Link(t) \/ Fill(t) \/ Unlock(t) \/ Read(t) \/ Follow(t)

Next == (\E t \in Threads : (\A u \in Threads : pc[u] # "failed") /\ Step(t)) \/ Ended

Spec == Init /\ [][Next]_vars

-----------------------------------------------------------------------------
(* Properties.                                                             *)

\* No key is stored twice, although threads insert the same key at the same
\* time: what the assertion "no duplicate key" of insert_key expects of the
\* table.
UniqueKeys ==
    \A b, c \in Buckets, i, j \in Slots :
        slot[b][i] = slot[c][j] /\ slot[b][i] # NoKey => b = c /\ i = j

\* A key whose insertion has returned is found by every look-up that begins
\* later, with the lock or without, while other keys are inserted in front
\* of it and buckets are linked.
NoLostKey ==
    \A t \in Threads : result[t] = "missing" => t \notin before

\* A bucket is linked on only when all its slots are taken, each indirect
\* bucket in use is linked to from one bucket, and none of them stays empty
\* once its thread is done: the region ends ("out of indirect-header region")
\* no sooner than the keys require.
LinkedWhenFull ==
    /\ \A b, c \in Buckets : link[b] # NoLink /\ link[b] = link[c] => b = c
    /\ \A b \in Buckets : link[b] # NoLink =>
          /\ link[b] \in num_buckets .. num_buckets + last_ext - 1
          /\ \A i \in Slots : slot[b][i] # NoKey
    /\ \A e \in num_buckets .. num_buckets + last_ext - 1 :
          \/ slot[e][1] # NoKey
          \/ \E t \in Threads : pc[t] = "fill" /\ at[t] = e

=============================================================================
