------------------------- MODULE HashTableInvariant -------------------------
(***************************************************************************)
(* The inductive invariant of HashTable.  The buckets of a chain have the  *)
(* same home, and places in it without gaps; what a thread has seen of the *)
(* chain stays without its key as long as it holds the lock.               *)
(***************************************************************************)
EXTENDS HashTable

Labels == {"idle", "lock", "scan", "ext", "link", "fill", "unlock", "read", "failed"}

\* The state has the expected types.
TypeOK ==
    /\ slot \in [Buckets -> [Slots -> Keys \cup {NoKey}]]
    /\ link \in [Buckets -> Nat]
    /\ last_ext \in 0 .. num_buckets_ext
    /\ bucket_locks \in [0 .. NUM_LOCKS - 1 -> Threads \cup {Nobody}]
    /\ bucket_ext_lock \in Threads \cup {Nobody}
    /\ home \in [Buckets -> Nat] /\ pos \in [Buckets -> Nat]
    /\ pc \in [Threads -> Labels]
    /\ call \in [Threads -> Functions \cup {"none"}]
    /\ key \in [Threads -> Keys]
    /\ at \in [Threads -> Buckets]
    /\ idx \in [Threads -> Nat]
    /\ result \in [Threads -> {"none", "found", "missing"}]
    /\ before \subseteq Threads
    /\ inserted \subseteq Keys

\* Where a thread has a lock.
Locking == {"scan", "ext", "link", "fill", "unlock"}

LockOf(t) ==
    /\ pc[t] \in Locking => bucket_locks[lock_id(t)] = t
    /\ pc[t] = "link" => bucket_ext_lock = t /\ idx[t] = last_ext /\ last_ext < num_buckets_ext
    /\ pc[t] \in {"ext", "link", "fill"} => call[t] \in Inserts

Used == 0 .. num_buckets + last_ext - 1

Full(b) == \A i \in Slots : slot[b][i] # NoKey
Empty(b) == \A i \in Slots : slot[b][i] = NoKey
Lacks(b, k) == \A i \in Slots : slot[b][i] # k
Present(k) == \E b \in Buckets, i \in Slots : slot[b][i] = k

\* Each chain starts in the main-header region, has one bucket at each place,
\* and a link from each of them to the next.
ChainInv ==
    /\ \A b \in MainBuckets : home[b] = b /\ pos[b] = 0
    /\ \A b \in Used : home[b] \in MainBuckets
    /\ \A b \in Buckets : link[b] # NoLink =>
          /\ b \in Used /\ link[b] \in num_buckets .. num_buckets + last_ext - 1
          /\ home[link[b]] = home[b] /\ pos[link[b]] = pos[b] + 1
    /\ \A b, c \in Used : home[b] = home[c] /\ pos[b] = pos[c] => b = c
    /\ \A b, c \in Used : home[b] = home[c] /\ pos[b] < pos[c] => link[b] # NoLink

\* A key is in the chain of its hash value, slots are taken in their order,
\* and a bucket that is linked on is full.
SlotInv ==
    /\ \A b \in Buckets, i \in Slots : slot[b][i] # NoKey => b \in Used /\ home[b] = hash[slot[b][i]]
    /\ \A b \in Buckets, i, j \in Slots : i < j /\ slot[b][i] = NoKey => slot[b][j] = NoKey
    /\ \A b \in Buckets : link[b] # NoLink => Full(b)

\* A thread is in the chain of its key, and a holder of the lock has seen no
\* key of its own in front of its bucket.
ScanOf(t) ==
    /\ pc[t] = "lock" => at[t] = hash[key[t]]
    /\ pc[t] = "read" => idx[t] >= 1
    /\ pc[t] \in {"scan", "ext", "link", "fill", "read"} =>
          at[t] \in Used /\ home[at[t]] = hash[key[t]]
    /\ pc[t] \in {"scan", "ext", "link", "fill"} =>
          \A c \in Used : home[c] = hash[key[t]] /\ pos[c] < pos[at[t]] => Lacks(c, key[t])
    /\ pc[t] \in {"ext", "link"} => Full(at[t]) /\ Lacks(at[t], key[t])
    /\ pc[t] = "fill" => Empty(at[t])
    /\ pc[t] \in {"ext", "link", "fill"} => link[at[t]] = NoLink
    /\ pc[t] = "unlock" /\ call[t] \in Inserts => Present(key[t])

\* Cell i of bucket b is not behind thread t.
Ahead(t, b, i) == pos[at[t]] < pos[b] \/ (b = at[t] /\ idx[t] <= i)

\* What a thread is bound to find is there, and ahead of it if it reads
\* without the lock; it does not miss it.
FoundOf(t) ==
    t \in before =>
        /\ pc[t] \in {"lock", "scan"} => Present(key[t])
        /\ pc[t] = "read" => \E b \in Buckets, i \in Slots : slot[b][i] = key[t] /\ Ahead(t, b, i)
        /\ result[t] # "missing"

\* No indirect bucket stays empty.
FilledInv ==
    \A e \in num_buckets .. num_buckets + last_ext - 1 :
        slot[e][1] # NoKey \/ \E t \in Threads : pc[t] = "fill" /\ at[t] = e

IInv ==
    /\ TypeOK /\ ChainInv /\ SlotInv /\ UniqueKeys /\ FilledInv
    /\ \A k \in inserted : Present(k)
    /\ \A t \in Threads : LockOf(t) /\ ScanOf(t) /\ FoundOf(t)

=============================================================================
