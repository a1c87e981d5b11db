------------------------ MODULE StoreIndexInvariant ------------------------
(***************************************************************************)
(* The inductive invariant of StoreIndex.  The normal keys <<v, p, dir>>,  *)
(* p # PREDICATE_ID, are filled with the triples; every other key is       *)
(* derived from them.  A thread that has made a normal key grow owes the   *)
(* derived keys their entries: these are its dues.  An entry is never both *)
(* present and due, nor due from two threads, and it is present or due     *)
(* exactly when its cause is there.  The lists of all vertices and of all  *)
(* predicates have two causes; a thread owes them an entry only after it   *)
(* has seen that the buddy key of the key it filled does not exist.        *)
(***************************************************************************)
EXTENDS StoreIndex

Dirs == {IN_, OUT_}
Opposite(d) == IF d = IN_ THEN OUT_ ELSE IN_
Flip(k) == <<k[1], k[2], Opposite(k[3])>>

TypeSteps == {"o1", "o2", "c2", "o3", "o4", "o5"}
OutSteps == {"o6", "o7", "c7", "o8", "o9", "c9", "o10"}
InSteps == {"i1", "i2", "d2", "i3", "i4", "d4", "i5"}
CheckSteps == {"c2", "c7", "c9", "d2", "d4"}
NormalSteps == {"o1", "o6", "i1"}
VersatileSteps == {"o2", "c2", "o3", "o5", "o8", "o9", "c9", "o10", "i3", "i4", "d4", "i5"}
Steps == TypeSteps \cup OutSteps \cup InSteps \cup {"idle", "end"}

\* The step may be one of a call for triple x.
Suits(step, x) ==
    /\ step \in TypeSteps => x[1] \in Mine /\ x[2] = TYPE_ID
    /\ step \in OutSteps => x[1] \in Mine /\ x[2] # TYPE_ID
    /\ step \in InSteps => x[3] \in Mine /\ x[2] # TYPE_ID
    /\ step \in VersatileSteps => Versatile

\* At this step the thread still has to insert v into the derived key k.
Due(step, x, k, v) ==
    \/ step \in {"o2", "c2", "o3", "o4"} /\ k = <<0, x[3], IN_>> /\ v = x[1]
    \/ step = "o2" /\ k = <<x[1], PREDICATE_ID, OUT_>> /\ v = TYPE_ID
    \/ step = "o5" /\ k = <<0, TYPE_ID, OUT_>> /\ v = x[3]
    \/ step = "o7" /\ k = <<0, x[2], IN_>> /\ v = x[1]
    \/ step \in {"o7", "c7", "o8", "o9"} /\ Versatile /\ k = <<x[1], PREDICATE_ID, OUT_>> /\ v = x[2]
    \/ step = "i2" /\ k = <<0, x[2], OUT_>> /\ v = x[3]
    \/ step \in {"i2", "d2", "i3", "i4"} /\ Versatile /\ k = <<x[3], PREDICATE_ID, IN_>> /\ v = x[2]
    \/ step \in {"o8", "i3"} /\ k = <<0, PREDICATE_ID, OUT_>> /\ v = x[2]
    \/ step \in {"o3", "o10"} /\ k = <<0, TYPE_ID, IN_>> /\ v = x[1]
    \/ step = "i5" /\ k = <<0, TYPE_ID, IN_>> /\ v = x[3]

\* The thread was the first to insert into k, and is about to look at its
\* buddy key.
Checking(step, x, k) ==
    \/ step \in {"c2", "c9"} /\ k = <<x[1], PREDICATE_ID, OUT_>>
    \/ step = "c7" /\ k = <<0, x[2], IN_>>
    \/ step = "d2" /\ k = <<0, x[2], OUT_>>
    \/ step = "d4" /\ k = <<x[3], PREDICATE_ID, IN_>>

DerivedKeys == {k \in Keys : k[1] = 0 \/ k[2] = PREDICATE_ID}

\* The keys whose first entry puts an entry into the list of all vertices or
\* that of all predicates; both directions put in the same.
PairedKeys == {k \in Keys : IF k[1] = 0 THEN k[2] \in Predicates ELSE k[2] = PREDICATE_ID}
ListOf(k) == IF k[1] = 0 THEN <<0, PREDICATE_ID, OUT_>> ELSE <<0, TYPE_ID, IN_>>
EntryOf(k) == IF k[1] = 0 THEN k[2] ELSE k[1]
Lists == {<<0, PREDICATE_ID, OUT_>>, <<0, TYPE_ID, IN_>>}

Has(k, v) == v \in Range(kv[k])
DueOf(t, k, v) == Due(pc[t], Current(t), k, v)
ChecksOf(t, k) == Checking(pc[t], Current(t), k)
Sourced(k, v) == Has(k, v) \/ \E t \in Threads : DueOf(t, k, v)

\* What makes v an entry of the derived key k, other than the two lists, if
\* val has the values of the keys.
CauseOf(val, k, v) ==
    \/ k[1] = 0 /\ k[2] \in Predicates /\ v \in Mine /\ val[<<v, k[2], Opposite(k[3])>>] # <<>>
    \/ k[1] = 0 /\ k[2] \in Types /\ k[3] = IN_ /\ v \in Mine /\ k[2] \in Range(val[<<v, TYPE_ID, OUT_>>])
    \/ k[1] # 0 /\ Versatile /\ v \in Predicates \cup {TYPE_ID} /\ val[<<k[1], v, k[3]>>] # <<>>
    \/ k = <<0, TYPE_ID, OUT_>> /\ Versatile /\ v \in Types /\ val[<<0, v, IN_>>] # <<>>
Cause(k, v) == CauseOf(kv, k, v)

\* Some thread has still to store the triple x with its subject; its object.
OutPending(t, x) ==
    \/ pc[t] \in {"o1", "o6"} /\ Current(t) = x
    \/ \E i \in 2 .. Len(todo[t]) : todo[t][i] = <<"triple_out", x>>
InPending(t, x) ==
    \/ pc[t] = "i1" /\ Current(t) = x
    \/ \E i \in 2 .. Len(todo[t]) : todo[t][i] = <<"triple_in", x>>

-----------------------------------------------------------------------------

TypeInv ==
    /\ files \in Loads /\ check_dup \in BOOLEAN
    /\ kv \in [Keys -> Seq(Nat)] /\ exists \in SUBSET Keys
    /\ todo \in [Threads -> Seq({"triple_out", "triple_in"} \X All)]
    /\ pc \in [Threads -> Steps] /\ half \in [Threads -> BOOLEAN]

\* Where a thread is in its call, and what the header region has.
ThreadInv ==
    \A t \in Threads :
        /\ pc[t] = "idle" <=> todo[t] = <<>>
        /\ Suits(pc[t], Current(t))
        /\ half[t] => pc[t] \in InsertSteps /\ Insert(pc[t], Current(t))[1] \in exists

KeysInv ==
    \A k \in Keys :
        /\ kv[k] # <<>> => k \in exists
        /\ k \in exists => \/ kv[k] # <<>>
                           \/ \E t \in Threads : half[t] /\ Insert(pc[t], Current(t))[1] = k

NormalInv ==
    /\ \A x \in All : x[1] \in Mine =>
          Has(<<x[1], x[2], OUT_>>, x[3]) \/ \E t \in Threads : OutPending(t, x)
    /\ \A x \in All : x[3] \in Mine /\ x[2] # TYPE_ID =>
          Has(<<x[3], x[2], IN_>>, x[1]) \/ \E t \in Threads : InPending(t, x)
    /\ \A k \in NormalKeys : \A v \in Range(kv[k]) :
          IF k[3] = OUT_ THEN <<k[1], k[2], v>> \in All
          ELSE k[2] # TYPE_ID /\ <<v, k[2], k[1]>> \in All
    /\ \A k \in NormalKeys : check_dup \/ k[2] = TYPE_ID => IsInjective(kv[k])

\* An entry of a derived key is present once or due from one thread.
OnceInv ==
    \A k \in DerivedKeys :
        /\ IsInjective(kv[k])
        /\ \A v \in Nat : \A t \in Threads : DueOf(t, k, v) =>
              ~ Has(k, v) /\ \A u \in Threads : DueOf(u, k, v) => u = t

CauseInv ==
    \A k \in DerivedKeys \ Lists : \A v \in Nat : Sourced(k, v) <=> Cause(k, v)

\* The lists of all vertices and of all predicates.
ListInv ==
    /\ \A k \in PairedKeys :
          /\ \A t \in Threads : ChecksOf(t, k) =>
                /\ kv[k] # <<>>
                /\ \A u \in Threads : ChecksOf(u, k) => u = t
                /\ Sourced(ListOf(k), EntryOf(k)) => Flip(k) \in exists
          /\ Sourced(ListOf(k), EntryOf(k)) => Versatile /\ (kv[k] # <<>> \/ kv[Flip(k)] # <<>>)
    /\ \A v \in Nat : Has(<<0, TYPE_ID, IN_>>, v) => v \in Mine
    /\ \A v \in Nat : Has(<<0, PREDICATE_ID, OUT_>>, v) => v \in Predicates \cup {TYPE_ID}
    /\ Has(<<0, PREDICATE_ID, OUT_>>, TYPE_ID) <=>
          Versatile /\ \E x \in Triples : x[1] \in Mine /\ x[2] = TYPE_ID

\* A thread works on the triples of its file, and what the store had stays.
FileInv ==
    /\ \A t \in Threads : \A i \in DOMAIN todo[t] : todo[t][i][2] \in Range(files[t])
    /\ \A k \in Keys : BulkLoaded(k) \subseteq Range(kv[k])

\* An entry of the two lists is left out only if two threads bring it in.
RacedInv ==
    Versatile => \A k \in PairedKeys : kv[k] # <<>> =>
        \/ Sourced(ListOf(k), EntryOf(k))
        \/ \E t \in Threads : ChecksOf(t, k)
        \/ Raced(ListOf(k), EntryOf(k))

IndexInv ==
    TypeInv /\ ThreadInv /\ KeysInv /\ NormalInv /\ OnceInv /\ CauseInv /\ ListInv /\ FileInv /\ RacedInv

=============================================================================
