---------------------------- MODULE MCHashTable ----------------------------
(* An instance of HashTable: three full buckets of two slots, two of which *)
(* share a lock, and two indirect buckets.                                 *)
EXTENDS HashTable, TLC

MCKeys == {"a1", "a2", "a3", "a4", "b1", "b2", "b3", "c1", "c2", "c3"}
MCCalled == {"a3", "a4", "b3", "c3"}
MCHash ==
    [k \in MCKeys |-> CASE k \in {"a1", "a2", "a3", "a4"} -> 0
                       [] k \in {"b1", "b2", "b3"} -> 1
                       [] OTHER -> 2]
MCLoaded == 0 :> <<"a1", "a2">> @@ 1 :> <<"b1", "b2">> @@ 2 :> <<"c1", "c2">>
Symmetry == Permutations(Threads)
=============================================================================
