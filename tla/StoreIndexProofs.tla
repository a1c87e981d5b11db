-------------------------- MODULE StoreIndexProofs --------------------------
(***************************************************************************)
(* The keys and indexes of a store are right whatever the order in which   *)
(* threads insert triples.                                                 *)
(***************************************************************************)
EXTENDS StoreIndexSteps, FiniteSetTheorems

-----------------------------------------------------------------------------
(* The bulk load.                                                          *)

\* The IDs of the triples of the bulk load and of the local vertices.
Loaded == Mine \cup {x[1] : x \in Triples} \cup {x[2] : x \in Triples} \cup {x[3] : x \in Triples}

LEMMA LoadedFinite == IsFiniteSet(Loaded) /\ Loaded \subseteq Nat
<1>1. ASSUME NEW i \in {1, 2, 3} PROVE IsFiniteSet({x[i] : x \in Triples})
  <2> DEFINE S == {x[i] : x \in Triples}
             f == [x \in Triples |-> x[i]]
  <2>1. f \in Surjection(Triples, S)
    BY DEF Surjection
  <2>2. IsFiniteSet(Triples)
    BY StoreIndexAssumption
  <2> HIDE DEF S, f
  <2>3. IsFiniteSet(S)
    BY <2>1, <2>2, FS_Surjection
  <2> QED
    BY <2>3 DEF S
<1>2. IsFiniteSet({x[1] : x \in Triples}) /\ IsFiniteSet({x[2] : x \in Triples}) /\ IsFiniteSet({x[3] : x \in Triples})
  BY <1>1
<1>3. IsFiniteSet(Mine)
  BY StoreIndexAssumption
<1>4. \A A, B : IsFiniteSet(A) /\ IsFiniteSet(B) => IsFiniteSet(A \cup B)
  BY FS_Union, Zenon
<1>5. IsFiniteSet(Loaded)
  BY <1>2, <1>3, <1>4, Zenon DEF Loaded
<1>6. \A x \in Triples : x[1] \in Nat /\ x[2] \in Nat /\ x[3] \in Nat
  BY KnownTriples DEF Known
<1> QED
  BY <1>5, <1>6, Ids, Zenon DEF Loaded

\* The list of the values of a key.
LEMMA ListingOf ==
    ASSUME NEW S, S \subseteq Nat, IsFiniteSet(S)
    PROVE  /\ Listing(S) \in Seq(Nat) /\ Range(Listing(S)) = S /\ IsInjective(Listing(S))
           /\ Listing(S) = <<>> <=> S = {}
<1> DEFINE s == Listing(S)
           n == Cardinality(S)
<1>1. n \in Nat /\ \E f : f \in Bijection(1 .. n, S)
  BY FS_CardinalityType DEF ExistsBijection
<1>2. s \in Bijection(1 .. n, S)
  BY <1>1 DEF Listing
<1> HIDE DEF s, n
<1>3. s \in [1 .. n -> S] /\ IsInjective(s) /\ \A v \in S : \E i \in 1 .. n : s[i] = v
  BY <1>2 DEF Bijection, Injection, Surjection
<1>4. s \in Seq(Nat)
  <2>1. s \in [1 .. n -> Nat]
    BY <1>3, Zenon
  <2> QED
    BY <1>1, <2>1
<1>5. Range(s) = S
  BY <1>3, Zenon DEF Range
<1>6. s = <<>> <=> S = {}
  <2>1. s = <<>> => S = {}
    BY <1>5 DEF Range
  <2>2. ASSUME S = {} PROVE s = <<>>
    <3>1. Len(s) \in Nat /\ DOMAIN s = 1 .. Len(s) /\ (Len(s) >= 1 => 1 \in DOMAIN s)
      BY <1>4
    <3>2. Len(s) = 0
      <4>1. 1 \notin DOMAIN s
        BY <1>3, <2>2
      <4> QED
        BY <3>1, <4>1
    <3> QED
      BY <1>4, <3>2
  <2> QED
    BY <2>1, <2>2
<1> QED
  BY <1>3, <1>4, <1>5, <1>6, Zenon DEF s

Bulk == [k \in Keys |-> Normal(Triples, k)]

\* The invariant holds after the bulk load,
LEMMA IndexInvInit == Init => IndexInv
<1>BulkLoadedIds.
    ASSUME NEW k \in Keys
    PROVE  BulkLoaded(k) \subseteq Nat /\ IsFiniteSet(BulkLoaded(k))
  <2>1. ASSUME NEW j \in Keys, j[1] # 0, NEW v \in Normal(Triples, j)
        PROVE  v \in Loaded
    <3>1. j[3] \in {IN_, OUT_}
      BY KeyForm
    <3>2. \E x \in Triples : v \in {x[1], x[2], x[3]}
      BY <2>1, <3>1, NormalOf
    <3> QED
      BY <3>2 DEF Loaded
  <2>2. ASSUME NEW a \in Mine, NEW q \in Pids, NEW d \in {IN_, OUT_}
        PROVE  Bulk[<<a, q, d>>] \subseteq Loaded
    <3>1. <<a, q, d>> \in Keys /\ <<a, q, d>>[1] # 0
      BY KeyOf, Ids, Zenon
    <3> QED
      BY <2>1, <3>1 DEF Bulk
  <2>3. ASSUME k[1] = 0, NEW v \in Index(Bulk, k) PROVE v \in Loaded
    <3>1. TYPE_ID \in Pids /\ PREDICATE_ID \in Pids
      BY DEF Pids
    <3>2. Mine \subseteq Loaded
      BY DEF Loaded
    <3>3. CASE \E p \in Predicates : \E d \in {IN_, OUT_} : k = <<0, p, d>>
      BY <2>3, <3>2, <3>3, IndexOf, Zenon
    <3>4. CASE \E p \in Types : k \in {<<0, p, IN_>>, <<0, p, OUT_>>}
      BY <2>3, <3>2, <3>4, IndexOf, Zenon
    <3>5. CASE k = <<0, TYPE_ID, IN_>>
      BY <2>3, <3>2, <3>5, IndexOf, Zenon
    <3>6. CASE k = <<0, TYPE_ID, OUT_>>
      <4>1. PICK a \in Mine : v \in Bulk[<<a, TYPE_ID, OUT_>>]
        BY <2>3, <3>6, IndexOf, Zenon
      <4> QED
        BY <2>2, <3>1, <4>1, Zenon
    <3>7. CASE k \in {<<0, PREDICATE_ID, OUT_>>, <<0, PREDICATE_ID, IN_>>}
      <4>1. PICK a \in Mine, d \in {IN_, OUT_} : v \in Bulk[<<a, PREDICATE_ID, d>>]
        BY <2>3, <3>7, IndexOf, Zenon
      <4> QED
        BY <2>2, <3>1, <4>1, Zenon
    <3> QED
      BY <2>3, <3>3, <3>4, <3>5, <3>6, <3>7, IndexKinds, Zenon
  <2>4. BulkLoaded(k) \subseteq Loaded
    BY <2>1, <2>3 DEF BulkLoaded, Bulk
  <2> QED
    BY <2>4, LoadedFinite, FS_Subset, Zenon

\* The store after the bulk load.
<1>InitValues.
    ASSUME Init
    PROVE  /\ kv \in [Keys -> Seq(Nat)]
           /\ \A k \in Keys : Range(kv[k]) = BulkLoaded(k)
           /\ \A k \in Keys : IsInjective(kv[k]) /\ (kv[k] # <<>> <=> k \in exists)
           /\ \A k \in Keys : k[1] \in Mine => \A v : Has(k, v) <=> v \in Normal(Triples, k)
           /\ \A k \in Keys : k[1] = 0 => \A v : Has(k, v) <=> v \in Index(Bulk, k)
           /\ \A k \in Keys : k[1] \in Mine => \A a : a \in Bulk[k] <=> Has(k, a)
  <2> USE <1>InitValues
  <2>1. ASSUME NEW k \in Keys
        PROVE  /\ kv[k] \in Seq(Nat) /\ Range(kv[k]) = BulkLoaded(k) /\ IsInjective(kv[k])
               /\ kv[k] = <<>> <=> BulkLoaded(k) = {}
    <3>1. kv[k] = Listing(BulkLoaded(k))
      BY DEF Init
    <3> QED
      BY <3>1, <1>BulkLoadedIds, ListingOf, Zenon
  <2>2. kv \in [Keys -> Seq(Nat)]
    BY <2>1 DEF Init
  <2>3. \A k \in Keys : kv[k] # <<>> <=> k \in exists
    BY <2>1 DEF Init
  <2>4. \A k \in Keys : k[1] \in Mine => Range(kv[k]) = Normal(Triples, k) /\ Bulk[k] = Normal(Triples, k)
    BY <2>1, Ids, Zenon DEF BulkLoaded, Bulk
  <2>5. \A k \in Keys : k[1] = 0 => Range(kv[k]) = Index(Bulk, k)
    BY <2>1 DEF BulkLoaded, Bulk
  <2> QED
    BY <2>1, <2>2, <2>3, <2>4, <2>5, Zenon DEF Has

\* The calls a thread starts with.
<1>CallsForm.
    ASSUME NEW T, NEW file \in Seq(T)
    PROVE  /\ Calls(file) \in CallsOf(T) /\ Len(Calls(file)) = 2 * Len(file)
           /\ \A i \in DOMAIN Calls(file) : Calls(file)[i][2] \in Range(file)
           /\ \A i \in 1 .. Len(file) :
                 /\ Calls(file)[2 * i - 1] = <<"triple_out", file[i]>>
                 /\ Calls(file)[2 * i] = <<"triple_in", file[i]>>
                 /\ 2 * i - 1 \in 1 .. 2 * Len(file) /\ 2 * i \in 1 .. 2 * Len(file)
                 /\ 2 * i \in 2 .. Len(Calls(file)) /\ (2 * i - 1 = 1 \/ 2 * i - 1 \in 2 .. Len(Calls(file)))
  <2> DEFINE n == Len(file)
             c == Calls(file)
  <2>1. n \in Nat /\ \A i \in 1 .. n : file[i] \in T
    OBVIOUS
  <2> HIDE DEF n
  <2>2. \A j \in 1 .. 2 * n : (j + 1) \div 2 \in 1 .. n
    BY <2>1
  <2>3. c = [j \in 1 .. 2 * n |->
               <<IF j % 2 = 1 THEN "triple_out" ELSE "triple_in", file[(j + 1) \div 2]>>]
    BY DEF Calls, n
  <2> HIDE DEF c
  <2>4. \A j \in 1 .. 2 * n : c[j] \in {"triple_out", "triple_in"} \X T
    BY <2>1, <2>2, <2>3, Zenon
  <2>5. 2 * n \in Nat
    BY <2>1
  <2>6. c \in [1 .. 2 * n -> {"triple_out", "triple_in"} \X T]
    BY <2>3, <2>4
  <2>7. c \in Seq({"triple_out", "triple_in"} \X T) /\ Len(c) = 2 * n
    BY <2>5, <2>6
  <2>8. ASSUME NEW i \in 1 .. n
        PROVE  /\ c[2 * i - 1] = <<"triple_out", file[i]>>
               /\ c[2 * i] = <<"triple_in", file[i]>>
               /\ 2 * i - 1 \in 1 .. 2 * n /\ 2 * i \in 1 .. 2 * n
               /\ 2 * i \in 2 .. 2 * n /\ (2 * i - 1 = 1 \/ 2 * i - 1 \in 2 .. 2 * n)
    <3>1. /\ 2 * i - 1 \in 1 .. 2 * n /\ 2 * i \in 1 .. 2 * n
          /\ 2 * i \in 2 .. 2 * n /\ (2 * i - 1 = 1 \/ 2 * i - 1 \in 2 .. 2 * n)
      BY <2>1
    <3>2. (2 * i - 1) % 2 = 1 /\ (2 * i) % 2 = 0
      BY <2>1
    <3>3. ((2 * i - 1) + 1) \div 2 = i /\ ((2 * i) + 1) \div 2 = i
      BY <2>1
    <3> QED
      BY <2>3, <3>1, <3>2, <3>3
  <2>9. ASSUME NEW i \in DOMAIN c PROVE c[i][2] \in Range(file)
    <3>1. i \in 1 .. 2 * n /\ DOMAIN file = 1 .. n
      BY <2>3 DEF n
    <3>2. c[i][2] = file[(i + 1) \div 2]
      BY <2>3, <3>1
    <3> QED
      BY <2>2, <3>1, <3>2 DEF Range
  <2> QED
    BY <2>7, <2>8, <2>9, Zenon DEF CallsOf, n, c

\* No thread owes anything yet.
<1>InitThreads.
    ASSUME Init
    PROVE  /\ TypeInv /\ ThreadInv /\ FileInv
           /\ \A t \in Threads : ~ half[t] /\ \A k, v : ~ DueOf(t, k, v) /\ ~ ChecksOf(t, k)
           /\ \A x \in All \ Triples :
                 /\ x[1] \in Mine => \E t \in Threads : OutPending(t, x)
                 /\ x[3] \in Mine /\ x[2] # TYPE_ID => \E t \in Threads : InPending(t, x)
  <2> USE <1>InitThreads
  <2>1. /\ files \in Loads /\ check_dup \in BOOLEAN /\ todo = [t \in Threads |-> Calls(files[t])]
        /\ pc = [t \in Threads |-> Start(Calls(files[t]))] /\ half = [t \in Threads |-> FALSE]
        /\ exists \in SUBSET Keys
    BY DEF Init
  <2>2. ASSUME NEW t \in Threads
        PROVE  files[t] \in Seq(All) /\ \A x \in Range(files[t]) : \E i \in 1 .. Len(files[t]) : files[t][i] = x
    <3>1. files \in Seq(Seq(Nat \X Nat \X Nat))
      BY <2>1, StoreIndexAssumption
    <3>2. files[t] \in Seq(Nat \X Nat \X Nat)
      BY <3>1 DEF Threads
    <3>3. DOMAIN files[t] = 1 .. Len(files[t]) /\ Len(files[t]) \in Nat
      BY <3>2
    <3>4. \A i \in 1 .. Len(files[t]) : files[t][i] \in All
      BY <3>3 DEF All, Range
    <3>5. files[t] \in [1 .. Len(files[t]) -> All]
      BY <3>2, <3>3, <3>4
    <3>6. files[t] \in Seq(All)
      BY <3>3, <3>5
    <3> QED
      BY <3>3, <3>6 DEF Range
  <2>3. ASSUME NEW t \in Threads
        PROVE  /\ todo[t] = Calls(files[t]) /\ todo[t] \in CallsOf(All) /\ pc[t] = Start(todo[t])
               /\ pc[t] \in NormalSteps \cup {"idle", "end"} /\ ~ half[t]
               /\ pc[t] = "idle" <=> todo[t] = <<>>
               /\ Suits(pc[t], Current(t))
    <3>1. todo[t] = Calls(files[t]) /\ pc[t] = Start(todo[t]) /\ ~ half[t]
      BY <2>1
    <3>2. todo[t] \in CallsOf(All)
      BY <2>2, <3>1, <1>CallsForm, Zenon
    <3> QED
      BY <3>1, <3>2, Starts DEF Current
  <2>4. TypeInv
    <3>1. kv \in [Keys -> Seq(Nat)]
      BY <1>InitValues
    <3>2. NormalSteps \cup {"idle", "end"} \subseteq Steps
      BY DEF NormalSteps, Steps, TypeSteps, OutSteps, InSteps
    <3> QED
      BY <2>1, <2>3, <3>1, <3>2, Zenon DEF TypeInv, CallsOf
  <2>5. ThreadInv
    BY <2>3 DEF ThreadInv
  <2>6. ASSUME NEW t \in Threads, NEW k, NEW v PROVE ~ DueOf(t, k, v) /\ ~ ChecksOf(t, k)
    BY <2>3, NoDue DEF DueOf, ChecksOf
  <2>7. ASSUME NEW x \in All \ Triples
        PROVE  /\ x[1] \in Mine => \E t \in Threads : OutPending(t, x)
               /\ x[3] \in Mine /\ x[2] # TYPE_ID => \E t \in Threads : InPending(t, x)
    <3>1. PICK t \in Threads : x \in Range(files[t])
      BY DEF All
    <3>2. PICK i \in 1 .. Len(files[t]) : files[t][i] = x
      BY <2>2, <3>1, Zenon
    <3>3. /\ todo[t][2 * i - 1] = <<"triple_out", x>> /\ todo[t][2 * i] = <<"triple_in", x>>
          /\ 2 * i \in 2 .. Len(todo[t]) /\ (2 * i - 1 = 1 \/ 2 * i - 1 \in 2 .. Len(todo[t]))
      <4>1. PICK f : f = files[t]
        OBVIOUS
      <4>2. f \in Seq(All) /\ i \in 1 .. Len(f) /\ todo[t] = Calls(f) /\ f[i] = x
        BY <2>2, <2>3, <3>2, <4>1, Zenon
      <4>3. /\ Calls(f)[2 * i - 1] = <<"triple_out", f[i]>> /\ Calls(f)[2 * i] = <<"triple_in", f[i]>>
            /\ 2 * i \in 2 .. Len(Calls(f)) /\ (2 * i - 1 = 1 \/ 2 * i - 1 \in 2 .. Len(Calls(f)))
        BY <4>2, <1>CallsForm
      <4> QED
        BY <4>2, <4>3
    <3>4. x[3] \in Mine /\ x[2] # TYPE_ID => InPending(t, x)
      BY <3>3 DEF InPending
    <3>5. ASSUME x[1] \in Mine PROVE OutPending(t, x)
      <4>1. CASE 2 * i - 1 = 1
        <5>1. todo[t][1] = <<"triple_out", x>> /\ todo[t] # <<>> /\ Current(t) = x
          <6>1. todo[t][1] = <<"triple_out", x>>
            BY <3>3, <4>1
          <6>2. todo[t] # <<>>
            BY <3>3
          <6> QED
            BY <6>1, <6>2 DEF Current
        <5>2. pc[t] \in {"o1", "o6"}
          BY <2>3, <3>5, <5>1, Starts, Zenon
        <5> QED
          BY <5>1, <5>2 DEF OutPending
      <4>2. CASE 2 * i - 1 \in 2 .. Len(todo[t])
        BY <3>3, <4>2 DEF OutPending
      <4> QED
        BY <3>3, <4>1, <4>2, Zenon
    <3> QED
      BY <3>4, <3>5
  <2>8. FileInv
    <3>1. \A t \in Threads : \A i \in DOMAIN todo[t] : todo[t][i][2] \in Range(files[t])
      BY <2>2, <2>3, <1>CallsForm, Zenon
    <3>2. \A k \in Keys : BulkLoaded(k) \subseteq Range(kv[k])
      BY <1>InitValues
    <3> QED
      BY <3>1, <3>2 DEF FileInv
  <2> QED
    BY <2>3, <2>4, <2>5, <2>6, <2>7, <2>8, Zenon

\* What the bulk load stores with a vertex.
<1>InitOut.
    ASSUME Init, NEW a \in Mine, NEW q \in Predicates \cup Types \cup {TYPE_ID}, NEW v
    PROVE  Has(<<a, q, OUT_>>, v) <=>
              \E x \in Triples : x[1] = a /\ x[2] = q /\ x[3] = v
  <2> USE <1>InitOut
  <2> DEFINE k == <<a, q, OUT_>>
  <2>1. k \in Keys /\ k[1] = a /\ k[2] = q /\ k[3] = OUT_ /\ a # 0 /\ q # PREDICATE_ID
    BY Ids, KeyOf, Zenon DEF Pids
  <2> HIDE DEF k
  <2>2. Has(k, v) <=> v \in Normal(Triples, k)
    BY <2>1, <1>InitValues
  <2>3. v \in Normal(Triples, k) <=>
                \E x \in Triples : x[1] = a /\ x[2] = q /\ x[3] = v
    BY <2>1, NormalOf
  <2> QED
    BY <2>2, <2>3 DEF k
<1>InitIn.
    ASSUME Init, NEW a \in Mine, NEW q \in Predicates \cup Types \cup {TYPE_ID}, NEW v
    PROVE  Has(<<a, q, IN_>>, v) <=>
              \E x \in Triples : x[3] = a /\ x[2] = q /\ x[2] # TYPE_ID /\ x[1] = v
  <2> USE <1>InitIn
  <2> DEFINE k == <<a, q, IN_>>
  <2>1. k \in Keys /\ k[1] = a /\ k[2] = q /\ k[3] = IN_ /\ a # 0 /\ q # PREDICATE_ID
    BY Ids, KeyOf, Zenon DEF Pids
  <2> HIDE DEF k
  <2>2. Has(k, v) <=> v \in Normal(Triples, k)
    BY <2>1, <1>InitValues
  <2>3. v \in Normal(Triples, k) <=>
                \E x \in Triples : x[3] = a /\ x[2] = q /\ x[2] # TYPE_ID /\ x[1] = v
    BY <2>1, NormalOf
  <2> QED
    BY <2>2, <2>3 DEF k
<1>InitPredicatesOut.
    ASSUME Init, NEW a \in Mine, NEW v
    PROVE  Has(<<a, PREDICATE_ID, OUT_>>, v) <=>
              Versatile /\ \E x \in Triples : x[1] = a /\ x[2] = v
  <2> USE <1>InitPredicatesOut
  <2> DEFINE k == <<a, PREDICATE_ID, OUT_>>
  <2>1. k \in Keys /\ k[1] = a /\ k[2] = PREDICATE_ID /\ k[3] = OUT_ /\ a # 0
    BY Ids, KeyOf, Zenon DEF Pids
  <2> HIDE DEF k
  <2>2. Has(k, v) <=> v \in Normal(Triples, k)
    BY <2>1, <1>InitValues
  <2>3. v \in Normal(Triples, k) <=>
                Versatile /\ \E x \in Triples : x[1] = a /\ x[2] = v
    BY <2>1, NormalOf
  <2> QED
    BY <2>2, <2>3 DEF k
<1>InitPredicatesIn.
    ASSUME Init, NEW a \in Mine, NEW v
    PROVE  Has(<<a, PREDICATE_ID, IN_>>, v) <=>
              Versatile /\ \E x \in Triples : x[3] = a /\ x[2] # TYPE_ID /\ x[2] = v
  <2> USE <1>InitPredicatesIn
  <2> DEFINE k == <<a, PREDICATE_ID, IN_>>
  <2>1. k \in Keys /\ k[1] = a /\ k[2] = PREDICATE_ID /\ k[3] = IN_ /\ a # 0
    BY Ids, KeyOf, Zenon DEF Pids
  <2> HIDE DEF k
  <2>2. Has(k, v) <=> v \in Normal(Triples, k)
    BY <2>1, <1>InitValues
  <2>3. v \in Normal(Triples, k) <=>
                Versatile /\ \E x \in Triples : x[3] = a /\ x[2] # TYPE_ID /\ x[2] = v
    BY <2>1, NormalOf
  <2> QED
    BY <2>2, <2>3 DEF k
<1>InitKeys.
    ASSUME Init
    PROVE  KeysInv /\ NormalInv /\ OnceInv
  <2> USE <1>InitKeys
  <2>1. KeysInv
    BY <1>InitValues DEF KeysInv
  <2>2. OnceInv
    BY <1>InitValues, <1>InitThreads DEF OnceInv, DerivedKeys
  <2>3. Triples \subseteq Known /\ Triples \subseteq All
    BY DEF Known, All
  <2>4. ASSUME NEW x \in All, x[1] \in Mine
        PROVE  Has(<<x[1], x[2], OUT_>>, x[3]) \/ \E t \in Threads : OutPending(t, x)
    <3>1. CASE x \in Triples
      <4>1. x[2] \in Predicates \cup Types \cup {TYPE_ID}
        BY <2>3, <3>1, KnownTriples
      <4>2. Has(<<x[1], x[2], OUT_>>, x[3]) <=>
               \E y \in Triples : y[1] = x[1] /\ y[2] = x[2] /\ y[3] = x[3]
        BY <2>4, <4>1, <1>InitOut
      <4> QED
        BY <3>1, <4>2
    <3> QED
      BY <2>4, <3>1, <1>InitThreads
  <2>5. ASSUME NEW x \in All, x[3] \in Mine, x[2] # TYPE_ID
        PROVE  Has(<<x[3], x[2], IN_>>, x[1]) \/ \E t \in Threads : InPending(t, x)
    <3>1. CASE x \in Triples
      <4>1. x[2] \in Predicates \cup Types \cup {TYPE_ID}
        BY <2>3, <3>1, KnownTriples
      <4>2. Has(<<x[3], x[2], IN_>>, x[1]) <=>
               \E y \in Triples : y[3] = x[3] /\ y[2] = x[2] /\ y[2] # TYPE_ID /\ y[1] = x[1]
        BY <2>5, <4>1, <1>InitIn
      <4> QED
        BY <2>5, <3>1, <4>2, Zenon
    <3> QED
      BY <2>5, <3>1, <1>InitThreads
  <2>6. ASSUME NEW k \in NormalKeys, NEW v \in Range(kv[k])
        PROVE  IF k[3] = OUT_ THEN <<k[1], k[2], v>> \in All
               ELSE k[2] # TYPE_ID /\ <<v, k[2], k[1]>> \in All
    <3>1. /\ k = <<k[1], k[2], k[3]>> /\ k[1] \in Mine /\ k[3] \in {IN_, OUT_}
          /\ k[2] \in Predicates \cup Types \cup {TYPE_ID}
      BY KeyForm DEF NormalKeys, Pids
    <3>2. \A x \in Triples : x = <<x[1], x[2], x[3]>>
      BY <2>3, KnownTriples
    <3>3. Has(k, v)
      BY DEF Has
    <3>4. CASE k[3] = OUT_
      <4>0. Has(<<k[1], k[2], OUT_>>, v) <=> \E x \in Triples : x[1] = k[1] /\ x[2] = k[2] /\ x[3] = v
        BY <3>1, <1>InitOut
      <4>1. PICK x \in Triples : x[1] = k[1] /\ x[2] = k[2] /\ x[3] = v
        BY <3>1, <3>3, <3>4, <4>0, Zenon
      <4> QED
        BY <2>3, <3>2, <3>4, <4>1, Zenon
    <3>5. CASE k[3] = IN_
      <4>0. Has(<<k[1], k[2], IN_>>, v) <=>
               \E x \in Triples : x[3] = k[1] /\ x[2] = k[2] /\ x[2] # TYPE_ID /\ x[1] = v
        BY <3>1, <1>InitIn
      <4>1. PICK x \in Triples : x[3] = k[1] /\ x[2] = k[2] /\ x[2] # TYPE_ID /\ x[1] = v
        BY <3>1, <3>3, <3>5, <4>0, Zenon
      <4> QED
        BY <2>3, <3>2, <3>5, <4>1, Ids, Zenon
    <3> QED
      BY <3>1, <3>4, <3>5, Zenon
  <2>7. \A k \in NormalKeys : IsInjective(kv[k])
    BY <1>InitValues DEF NormalKeys
  <2>8. NormalInv
    BY <2>4, <2>5, <2>6, <2>7, Zenon DEF NormalInv
  <2> QED
    BY <2>1, <2>2, <2>8, Zenon

\* The predicates listed with a vertex are those of its keys.
<1>InitVertex.
    ASSUME Init, NEW a \in Mine, NEW d \in {IN_, OUT_}, NEW v
    PROVE  Has(<<a, PREDICATE_ID, d>>, v) <=>
              Versatile /\ v \in Predicates \cup {TYPE_ID} /\ kv[<<a, v, d>>] # <<>>
  <2> USE <1>InitVertex
  <2>1. \A x \in Triples : x[2] \in Predicates \cup {TYPE_ID}
    BY KnownTriples DEF Known
  <2>2. ASSUME v \in Predicates \cup {TYPE_ID}
        PROVE  kv[<<a, v, d>>] # <<>> <=> \E b : Has(<<a, v, d>>, b)
    <3>1. <<a, v, d>> \in Keys
      BY <2>2, KeyOf, Zenon DEF Pids
    <3>2. kv[<<a, v, d>>] \in Seq(Nat)
      BY <3>1, <1>InitValues
    <3> QED
      BY <3>2, Emptiness DEF Has
  <2>3. CASE d = OUT_
    <3>1. Has(<<a, PREDICATE_ID, OUT_>>, v) <=> Versatile /\ \E x \in Triples : x[1] = a /\ x[2] = v
      BY <1>InitPredicatesOut
    <3>2. ASSUME v \in Predicates \cup {TYPE_ID}
          PROVE  (\E b : Has(<<a, v, OUT_>>, b)) <=> \E x \in Triples : x[1] = a /\ x[2] = v
      <4>1. \A b : Has(<<a, v, OUT_>>, b) <=> \E x \in Triples : x[1] = a /\ x[2] = v /\ x[3] = b
        BY <3>2, <1>InitOut
      <4> QED
        BY <4>1
    <3> QED
      BY <2>1, <2>2, <2>3, <3>1, <3>2, Zenon
  <2>4. CASE d = IN_
    <3>1. Has(<<a, PREDICATE_ID, IN_>>, v) <=> Versatile /\ \E x \in Triples : x[3] = a /\ x[2] # TYPE_ID /\ x[2] = v
      BY <1>InitPredicatesIn
    <3>2. ASSUME v \in Predicates \cup {TYPE_ID}
          PROVE  (\E b : Has(<<a, v, IN_>>, b)) <=> \E x \in Triples : x[3] = a /\ x[2] # TYPE_ID /\ x[2] = v
      <4>1. \A b : Has(<<a, v, IN_>>, b) <=> \E x \in Triples : x[3] = a /\ x[2] = v /\ x[2] # TYPE_ID /\ x[1] = b
        BY <3>2, <1>InitIn
      <4> QED
        BY <4>1
    <3> QED
      BY <2>1, <2>2, <2>4, <3>1, <3>2, Zenon
  <2> QED
    BY <2>3, <2>4

\* The index vertices list what they should.
<1>InitIndex.
    ASSUME Init, NEW v
    PROVE  /\ \A p \in Predicates : \A d \in {IN_, OUT_} :
                 Has(<<0, p, d>>, v) <=> v \in Mine /\ kv[<<v, p, Opposite(d)>>] # <<>>
           /\ \A p \in Types :
                 /\ Has(<<0, p, IN_>>, v) <=> v \in Mine /\ Has(<<v, TYPE_ID, OUT_>>, p)
                 /\ ~ Has(<<0, p, OUT_>>, v)
           /\ Has(<<0, TYPE_ID, IN_>>, v) <=> Versatile /\ v \in Mine /\
                 \/ kv[<<v, PREDICATE_ID, IN_>>] # <<>>
                 \/ kv[<<v, PREDICATE_ID, OUT_>>] # <<>>
                 \/ kv[<<v, TYPE_ID, OUT_>>] # <<>>
           /\ Has(<<0, TYPE_ID, OUT_>>, v) <=>
                 Versatile /\ \E a \in Mine : Has(<<a, TYPE_ID, OUT_>>, v)
           /\ Has(<<0, PREDICATE_ID, OUT_>>, v) <=>
                 Versatile /\ \E a \in Mine : \E d \in {IN_, OUT_} : Has(<<a, PREDICATE_ID, d>>, v)
           /\ ~ Has(<<0, PREDICATE_ID, IN_>>, v)
  <2> USE <1>InitIndex
  <2>1. \A k \in Keys : k[1] \in Mine => \A a : a \in Bulk[k] <=> Has(k, a)
    BY <1>InitValues
  <2>2. kv \in [Keys -> Seq(Nat)]
    BY <1>InitValues
  <2>3. ASSUME NEW q \in Pids, NEW d \in {IN_, OUT_}
        PROVE  Has(<<0, q, d>>, v) <=> v \in Index(Bulk, <<0, q, d>>)
    <3>1. <<0, q, d>> \in Keys
      BY KeyOf, Zenon
    <3> QED
      BY <3>1, <1>InitValues
  <2>4. ASSUME NEW p \in Predicates, NEW d \in {IN_, OUT_}
        PROVE  Has(<<0, p, d>>, v) <=> v \in Mine /\ kv[<<v, p, Opposite(d)>>] # <<>>
    <3>1. v \in Index(Bulk, <<0, p, d>>) <=> v \in Mine /\ kv[<<v, p, Opposite(d)>>] # <<>>
      BY <2>1, <2>2, IndexHas, Zenon
    <3> QED
      BY <2>3, <3>1, Zenon DEF Pids
  <2>5. ASSUME NEW p \in Types
        PROVE  /\ Has(<<0, p, IN_>>, v) <=> v \in Mine /\ Has(<<v, TYPE_ID, OUT_>>, p)
               /\ ~ Has(<<0, p, OUT_>>, v)
    <3>1. /\ v \in Index(Bulk, <<0, p, IN_>>) <=> v \in Mine /\ Has(<<v, TYPE_ID, OUT_>>, p)
          /\ v \notin Index(Bulk, <<0, p, OUT_>>)
      BY <2>1, <2>2, IndexHas, Zenon
    <3> QED
      BY <2>3, <3>1 DEF Pids
  <2>6. Has(<<0, TYPE_ID, IN_>>, v) <=> Versatile /\ v \in Mine /\
           \/ kv[<<v, PREDICATE_ID, IN_>>] # <<>>
           \/ kv[<<v, PREDICATE_ID, OUT_>>] # <<>>
           \/ kv[<<v, TYPE_ID, OUT_>>] # <<>>
    <3>1. v \in Index(Bulk, <<0, TYPE_ID, IN_>>) <=> Versatile /\ v \in Mine /\
             \/ kv[<<v, PREDICATE_ID, IN_>>] # <<>>
             \/ kv[<<v, PREDICATE_ID, OUT_>>] # <<>>
             \/ kv[<<v, TYPE_ID, OUT_>>] # <<>>
      BY <2>1, <2>2, IndexHas, Zenon
    <3> QED
      BY <2>3, <3>1, Zenon DEF Pids
  <2>7. Has(<<0, TYPE_ID, OUT_>>, v) <=> Versatile /\ \E a \in Mine : Has(<<a, TYPE_ID, OUT_>>, v)
    <3>1. v \in Index(Bulk, <<0, TYPE_ID, OUT_>>) <=> Versatile /\ \E a \in Mine : Has(<<a, TYPE_ID, OUT_>>, v)
      BY <2>1, <2>2, IndexHas, Zenon
    <3> QED
      BY <2>3, <3>1, Zenon DEF Pids
  <2>8. Has(<<0, PREDICATE_ID, OUT_>>, v) <=>
           Versatile /\ \E a \in Mine : \E d \in {IN_, OUT_} : Has(<<a, PREDICATE_ID, d>>, v)
    <3>1. v \in Index(Bulk, <<0, PREDICATE_ID, OUT_>>) <=>
             Versatile /\ \E a \in Mine : \E d \in {IN_, OUT_} : Has(<<a, PREDICATE_ID, d>>, v)
      BY <2>1, <2>2, IndexHas, Zenon
    <3> QED
      BY <2>3, <3>1, Zenon DEF Pids
  <2>9. ~ Has(<<0, PREDICATE_ID, IN_>>, v)
    <3>1. v \notin Index(Bulk, <<0, PREDICATE_ID, IN_>>)
      BY <2>1, <2>2, IndexHas, Zenon
    <3> QED
      BY <2>3, <3>1, Zenon DEF Pids
  <2> QED
    BY <2>4, <2>5, <2>6, <2>7, <2>8, <2>9, Zenon
<1>InitCauses.
    ASSUME Init
    PROVE  CauseInv
  <2> USE <1>InitCauses
  <2>1. \A k, v : Sourced(k, v) <=> Has(k, v)
    BY <1>InitThreads DEF Sourced
  <2>2. ASSUME NEW k \in DerivedKeys \ Lists, NEW v \in Nat
        PROVE  Has(k, v) <=> Cause(k, v)
    <3>1. k \in Keys /\ k = <<k[1], k[2], k[3]>> /\ k[1] \in Mine \cup {0} /\ k[3] \in {IN_, OUT_}
          /\ (k[1] # 0 => k[2] = PREDICATE_ID)
      BY KeyForm DEF DerivedKeys
    <3>2. CASE k[1] # 0
      <4>1. k[1] \in Mine /\ k = <<k[1], PREDICATE_ID, k[3]>>
        BY <3>1, <3>2
      <4>2. Has(<<k[1], PREDICATE_ID, k[3]>>, v) <=>
               Versatile /\ v \in Predicates \cup {TYPE_ID} /\ kv[<<k[1], v, k[3]>>] # <<>>
        BY <3>1, <4>1, <1>InitVertex, Zenon
      <4>3. k # <<0, TYPE_ID, OUT_>>
        BY <3>2
      <4>4. Cause(k, v) <=> Versatile /\ v \in Predicates \cup {TYPE_ID} /\ kv[<<k[1], v, k[3]>>] # <<>>
        BY <3>2, <4>3, Zenon DEF Cause, CauseOf
      <4> QED
        BY <4>1, <4>2, <4>4
    <3>3. ASSUME NEW p \in Predicates, NEW d \in {IN_, OUT_}, k = <<0, p, d>>
          PROVE  Has(k, v) <=> Cause(k, v)
      <4>1. p \notin Types /\ p # TYPE_ID
        BY Ids
      <4>2. k[1] = 0 /\ k[2] = p /\ k[3] = d /\ k # <<0, TYPE_ID, OUT_>>
        BY <3>3, <4>1
      <4>3. Has(<<0, p, d>>, v) <=> v \in Mine /\ kv[<<v, p, Opposite(d)>>] # <<>>
        BY <1>InitIndex, Zenon
      <4> QED
        BY <3>3, <4>1, <4>2, <4>3, Zenon DEF Cause, CauseOf
    <3>4. ASSUME NEW p \in Types, k \in {<<0, p, IN_>>, <<0, p, OUT_>>}
          PROVE  Has(k, v) <=> Cause(k, v)
      <4>1. p \notin Predicates /\ p # TYPE_ID /\ IN_ # OUT_
        BY Ids
      <4>2. k[1] = 0 /\ k[2] = p /\ k # <<0, TYPE_ID, OUT_>>
        BY <3>4, <4>1
      <4>3. /\ Has(<<0, p, IN_>>, v) <=> v \in Mine /\ Has(<<v, TYPE_ID, OUT_>>, p)
            /\ ~ Has(<<0, p, OUT_>>, v)
        BY <1>InitIndex, Zenon
      <4>4. Cause(k, v) <=> k[3] = IN_ /\ v \in Mine /\ Has(<<v, TYPE_ID, OUT_>>, p)
        BY <4>1, <4>2 DEF Cause, CauseOf, Has
      <4>5. (k = <<0, p, IN_>> /\ k[3] = IN_) \/ (k = <<0, p, OUT_>> /\ k[3] # IN_)
        BY <3>4, <4>1
      <4> QED
        BY <4>3, <4>4, <4>5, Zenon
    <3>5. CASE k = <<0, TYPE_ID, OUT_>>
      <4>1. k[1] = 0 /\ k[2] \notin Predicates /\ k[2] \notin Types
        BY <3>5, Ids
      <4>2. Has(<<0, TYPE_ID, OUT_>>, v) <=> Versatile /\ \E a \in Mine : Has(<<a, TYPE_ID, OUT_>>, v)
        BY <1>InitIndex, Zenon
      <4>3. Cause(k, v) <=> Versatile /\ v \in Types /\ kv[<<0, v, IN_>>] # <<>>
        BY <3>5, <4>1 DEF Cause, CauseOf
      <4>4. \A a \in Mine : Has(<<a, TYPE_ID, OUT_>>, v) => v \in Types
        <5>1. \A x \in Triples : x[2] = TYPE_ID => x[3] \in Types
          BY KnownTriples DEF Known
        <5> QED
          BY <5>1, <1>InitOut
      <4>5. ASSUME v \in Types
            PROVE  kv[<<0, v, IN_>>] # <<>> <=> \E a \in Mine : Has(<<a, TYPE_ID, OUT_>>, v)
        <5>1. kv[<<0, v, IN_>>] \in Seq(Nat)
          BY <4>5, <1>InitValues, KeyOf, Zenon DEF Pids
        <5>2. \A a : Has(<<0, v, IN_>>, a) <=> a \in Mine /\ Has(<<a, TYPE_ID, OUT_>>, v)
          BY <4>5, <1>InitIndex, Zenon
        <5> QED
          BY <5>1, <5>2, Emptiness, Zenon DEF Has
      <4> QED
        BY <3>5, <4>2, <4>3, <4>4, <4>5, Zenon
    <3>6. CASE k = <<0, PREDICATE_ID, IN_>>
      <4>1. k[1] = 0 /\ k[2] \notin Predicates /\ k[2] \notin Types /\ k # <<0, TYPE_ID, OUT_>>
        BY <3>6, Ids
      <4>2. ~ Has(<<0, PREDICATE_ID, IN_>>, v)
        BY <1>InitIndex, Zenon
      <4> QED
        BY <3>6, <4>1, <4>2, Zenon DEF Cause, CauseOf
    <3>7. k \notin {<<0, TYPE_ID, IN_>>, <<0, PREDICATE_ID, OUT_>>}
      BY DEF Lists
    <3> QED
      BY <3>1, <3>2, <3>3, <3>4, <3>5, <3>6, <3>7, IndexKinds, Zenon
  <2> QED
    BY <2>1, <2>2 DEF CauseInv

\* The keys with a buddy and the lists.
<1>InitLists.
    ASSUME Init
    PROVE  ListInv /\ RacedInv
  <2> USE <1>InitLists
  <2>1. \A k, v : (Sourced(k, v) <=> Has(k, v)) /\ \A t \in Threads : ~ ChecksOf(t, k)
    BY <1>InitThreads DEF Sourced
  <2>2. ASSUME NEW k \in PairedKeys
        PROVE  Has(ListOf(k), EntryOf(k)) <=> Versatile /\ (kv[k] # <<>> \/ kv[Flip(k)] # <<>>)
    <3>1. k \in Keys /\ k = <<k[1], k[2], k[3]>> /\ k[1] \in Mine \cup {0} /\ k[3] \in {IN_, OUT_}
          /\ (k[1] # 0 => k[2] = PREDICATE_ID) /\ (k[1] = 0 => k[2] \in Predicates)
      BY KeyForm DEF PairedKeys
    <3>2. CASE k[1] # 0
      <4>1. PICK a \in Mine : k[1] = a
        BY <3>1, <3>2, Zenon
      <4>2. k \in {<<a, PREDICATE_ID, IN_>>, <<a, PREDICATE_ID, OUT_>>}
            /\ {k, Flip(k)} = {<<a, PREDICATE_ID, IN_>>, <<a, PREDICATE_ID, OUT_>>}
        BY <3>1, <3>2, <4>1, Opposites, Zenon DEF Flip
      <4>3. ListOf(k) = <<0, TYPE_ID, IN_>> /\ EntryOf(k) = a
        BY <3>2, <4>1 DEF ListOf, EntryOf
      <4>4. Has(<<0, TYPE_ID, IN_>>, a) <=> Versatile /\ a \in Mine /\
               \/ kv[<<a, PREDICATE_ID, IN_>>] # <<>>
               \/ kv[<<a, PREDICATE_ID, OUT_>>] # <<>>
               \/ kv[<<a, TYPE_ID, OUT_>>] # <<>>
        BY <1>InitIndex, Zenon
      <4>5. Versatile /\ kv[<<a, TYPE_ID, OUT_>>] # <<>> => kv[<<a, PREDICATE_ID, OUT_>>] # <<>>
        <5>1. Has(<<a, PREDICATE_ID, OUT_>>, TYPE_ID) <=>
                Versatile /\ TYPE_ID \in Predicates \cup {TYPE_ID} /\ kv[<<a, TYPE_ID, OUT_>>] # <<>>
          BY <1>InitVertex, Zenon
        <5>2. kv[<<a, PREDICATE_ID, OUT_>>] \in Seq(Nat)
          BY <1>InitValues, KeyOf, Zenon DEF Pids
        <5> QED
          BY <5>1, <5>2, Emptiness, Zenon DEF Has
      <4>6. kv[k] # <<>> \/ kv[Flip(k)] # <<>> <=>
               kv[<<a, PREDICATE_ID, IN_>>] # <<>> \/ kv[<<a, PREDICATE_ID, OUT_>>] # <<>>
        BY <4>2
      <4> QED
        BY <4>3, <4>4, <4>5, <4>6, Zenon
    <3>3. CASE k[1] = 0
      <4>1. PICK p \in Predicates : k[2] = p
        BY <3>1, <3>3, Zenon
      <4>2. {k, Flip(k)} = {<<0, p, IN_>>, <<0, p, OUT_>>}
        BY <3>1, <3>3, <4>1, Opposites, Zenon DEF Flip
      <4>3. ListOf(k) = <<0, PREDICATE_ID, OUT_>> /\ EntryOf(k) = p
        BY <3>3, <4>1 DEF ListOf, EntryOf
      <4>4. Has(<<0, PREDICATE_ID, OUT_>>, p) <=>
               Versatile /\ \E a \in Mine : \E d \in {IN_, OUT_} : Has(<<a, PREDICATE_ID, d>>, p)
        BY <1>InitIndex, Zenon
      <4>5. ASSUME NEW a \in Mine, NEW d \in {IN_, OUT_}
            PROVE  Has(<<a, PREDICATE_ID, d>>, p) <=> Versatile /\ kv[<<a, p, d>>] # <<>>
        BY <1>InitVertex, Zenon
      <4>6. ASSUME NEW d \in {IN_, OUT_}
            PROVE  kv[<<0, p, d>>] # <<>> <=> \E a \in Mine : kv[<<a, p, Opposite(d)>>] # <<>>
        <5>1. kv[<<0, p, d>>] \in Seq(Nat)
          BY <1>InitValues, KeyOf, Zenon DEF Pids
        <5>2. \A a : Has(<<0, p, d>>, a) <=> a \in Mine /\ kv[<<a, p, Opposite(d)>>] # <<>>
          BY <1>InitIndex, Zenon
        <5> QED
          BY <5>1, <5>2, Emptiness, Zenon DEF Has
      <4>7. kv[k] # <<>> \/ kv[Flip(k)] # <<>> <=> kv[<<0, p, IN_>>] # <<>> \/ kv[<<0, p, OUT_>>] # <<>>
        BY <4>2, Zenon
      <4>8. Has(<<0, PREDICATE_ID, OUT_>>, p) <=>
               Versatile /\ ((\E a \in Mine : kv[<<a, p, IN_>>] # <<>>) \/ \E a \in Mine : kv[<<a, p, OUT_>>] # <<>>)
        BY <4>4, <4>5, Zenon
      <4>9. /\ kv[<<0, p, IN_>>] # <<>> <=> \E a \in Mine : kv[<<a, p, OUT_>>] # <<>>
            /\ kv[<<0, p, OUT_>>] # <<>> <=> \E a \in Mine : kv[<<a, p, IN_>>] # <<>>
        BY <4>6, Opposites, Zenon
      <4> QED
        BY <4>3, <4>7, <4>8, <4>9, Zenon
    <3> QED
      BY <3>2, <3>3
  <2>3. ASSUME NEW v PROVE Has(<<0, TYPE_ID, IN_>>, v) => v \in Mine
    BY <1>InitIndex, Zenon
  <2>4. ASSUME NEW v, Has(<<0, PREDICATE_ID, OUT_>>, v) PROVE v \in Predicates \cup {TYPE_ID}
    <3>1. PICK a \in Mine, d \in {IN_, OUT_} : Has(<<a, PREDICATE_ID, d>>, v)
      BY <2>4, <1>InitIndex, Zenon
    <3> QED
      BY <3>1, <1>InitVertex, Zenon
  <2>5. Has(<<0, PREDICATE_ID, OUT_>>, TYPE_ID) <=>
           Versatile /\ \E x \in Triples : x[1] \in Mine /\ x[2] = TYPE_ID
    <3>1. Has(<<0, PREDICATE_ID, OUT_>>, TYPE_ID) <=>
             Versatile /\ \E a \in Mine : \E d \in {IN_, OUT_} : Has(<<a, PREDICATE_ID, d>>, TYPE_ID)
      BY <1>InitIndex, Zenon
    <3>2. ASSUME NEW a \in Mine
          PROVE  /\ Has(<<a, PREDICATE_ID, OUT_>>, TYPE_ID) <=>
                       Versatile /\ \E x \in Triples : x[1] = a /\ x[2] = TYPE_ID
                 /\ ~ Has(<<a, PREDICATE_ID, IN_>>, TYPE_ID)
      BY <1>InitPredicatesOut, <1>InitPredicatesIn
    <3> QED
      BY <3>1, <3>2, Zenon
  <2>6. ListInv
    BY <2>1, <2>2, <2>3, <2>4, <2>5, Zenon DEF ListInv
  <2>7. RacedInv
    BY <2>1, <2>2 DEF RacedInv
  <2> QED
    BY <2>6, <2>7, Zenon
<1> QED
  BY <1>InitThreads, <1>InitKeys, <1>InitCauses, <1>InitLists, Zenon DEF IndexInv

\* and from then on.
THEOREM IndexInvariant == Spec => []IndexInv
<1>1. Init => IndexInv
  BY IndexInvInit
<1>2. IndexInv /\ [Next]_vars => IndexInv'
  BY IndexInvNext
<1> QED
  BY <1>1, <1>2, PTL DEF Spec

-----------------------------------------------------------------------------
(* The properties of the store when all threads are done.                  *)

\* A list has each of its values once if it is as long as their set is large.
LEMMA InjectiveOnce ==
    ASSUME NEW s \in Seq(Nat)
    PROVE  Cardinality(Range(s)) = Len(s) <=> IsInjective(s)
<1> DEFINE n == Len(s)
           S == Range(s)
<1>1. n \in Nat /\ s \in [1 .. n -> S] /\ DOMAIN s = 1 .. n
  BY DEF Range
<1>2. s \in Surjection(1 .. n, S)
  BY <1>1 DEF Surjection, Range
<1>3. IsFiniteSet(1 .. n) /\ Cardinality(1 .. n) = n
  <2>1. \A m \in Nat : 1 \in Int /\ m \in Int /\ (IF 1 > m THEN 0 ELSE m - 1 + 1) = m
    OBVIOUS
  <2> QED
    BY <1>1, <2>1, FS_Interval, Zenon
<1> HIDE DEF n, S
<1>4. Cardinality(S) = Cardinality(1 .. n) <=> s \in Injection(1 .. n, S)
  BY <1>2, <1>3, FS_Surjection
<1>5. s \in Injection(1 .. n, S) <=> IsInjective(s)
  BY <1>1 DEF Injection
<1> QED
  BY <1>3, <1>4, <1>5 DEF n, S

\* Then each of them occurs once.
LEMMA InjectiveCount ==
    ASSUME NEW s \in Seq(Nat), IsInjective(s), NEW v
    PROVE  Cardinality({i \in DOMAIN s : s[i] = v}) = IF v \in Range(s) THEN 1 ELSE 0
<1> DEFINE I == {i \in DOMAIN s : s[i] = v}
<1>1. CASE v \in Range(s)
  <2>1. PICK i \in DOMAIN s : s[i] = v
    BY <1>1 DEF Range
  <2>2. I = {i}
    BY <2>1 DEF IsInjective
  <2> QED
    BY <1>1, <2>2, FS_Singleton, Zenon
<1>2. CASE v \notin Range(s)
  <2>1. I = {}
    BY <1>2 DEF Range
  <2> QED
    BY <1>2, <2>1, FS_EmptySet, Zenon
<1> QED
  BY <1>1, <1>2

LEMMA DoneOnce ==
    ASSUME IndexInv, NEW k \in DerivedKeys
    PROVE  Once(k)
<1>1. k \in Keys /\ IsInjective(kv[k])
  BY DEF IndexInv, OnceInv, DerivedKeys
<1> QED
  BY <1>1, DoneValues, InjectiveOnce, Zenon DEF Once

\* The keys of the vertices hold the triples.
LEMMA DoneNormalStored == IndexInv => NormalStored
<1> SUFFICES ASSUME IndexInv, Done, NEW k \in NormalKeys
             PROVE  Stored[k] = Normal(All, k) /\ (check_dup => Once(k))
  BY DEF NormalStored
<1>1. k \in Keys /\ k[1] # 0 /\ k[2] # PREDICATE_ID /\ k[3] \in {IN_, OUT_}
  BY KeyForm DEF NormalKeys
<1>2. ASSUME NEW x \in All PROVE x = <<x[1], x[2], x[3]>>
  BY AllKnown, KnownTriples, Zenon DEF IndexInv, TypeInv
<1>3. ASSUME NEW v PROVE v \in Stored[k] <=> v \in Normal(All, k)
  <2>1. v \in Stored[k] <=> Has(k, v)
    BY <1>1, DoneValues
  <2>2. CASE k[3] = OUT_
    <3>1. v \in Normal(All, k) <=> \E x \in All : x[1] = k[1] /\ x[2] = k[2] /\ x[3] = v
      BY <1>1, <2>2, NormalOf
    <3>2. (\E x \in All : x[1] = k[1] /\ x[2] = k[2] /\ x[3] = v) <=> <<k[1], k[2], v>> \in All
      BY <1>2
    <3> QED
      BY <2>1, <2>2, <3>1, <3>2, DoneNormal, Zenon
  <2>3. CASE k[3] = IN_
    <3>1. v \in Normal(All, k) <=>
             \E x \in All : x[3] = k[1] /\ x[2] = k[2] /\ x[2] # TYPE_ID /\ x[1] = v
      BY <1>1, <2>3, NormalOf
    <3>2. (\E x \in All : x[3] = k[1] /\ x[2] = k[2] /\ x[2] # TYPE_ID /\ x[1] = v) <=>
             k[2] # TYPE_ID /\ <<v, k[2], k[1]>> \in All
      BY <1>2, Zenon
    <3> QED
      BY <2>1, <2>3, <3>1, <3>2, DoneNormal, Zenon
  <2> QED
    BY <1>1, <2>2, <2>3, Zenon
<1>4. check_dup => IsInjective(kv[k])
  BY DEF IndexInv, NormalInv
<1> QED
  BY <1>1, <1>3, <1>4, DoneValues, InjectiveOnce, Zenon DEF Once

\* When the threads of dynamic_load_data are done, insert_triple_out and
\* insert_triple_in have stored every triple with its subject and its object
\* and nothing else, whatever their order; and once, with check_dup.
THEOREM NormalStoredInvariant == Spec => []NormalStored
  BY IndexInvariant, DoneNormalStored, PTL

LEMMA DonePredicateIndex == IndexInv => PredicateIndex
<1> SUFFICES ASSUME IndexInv, Done, NEW k \in Keys, k[1] = 0, k[2] \in Predicates \cup Types
             PROVE  Stored[k] = Index(Stored, k) /\ Once(k)
  BY DEF PredicateIndex
<1>1. k = <<0, k[2], k[3]>> /\ k[3] \in {IN_, OUT_}
  BY KeyForm
<1>2. Once(k)
  BY DoneOnce DEF DerivedKeys
<1>3. ASSUME NEW v PROVE v \in Stored[k] <=> v \in Index(Stored, k)
  <2>1. v \in Stored[k] <=> Has(k, v)
    BY DoneValues
  <2>2. CASE k[2] \in Predicates
    <3>1. v \in Index(Stored, <<0, k[2], k[3]>>) <=> v \in Mine /\ kv[<<v, k[2], Opposite(k[3])>>] # <<>>
      BY <1>1, <2>2, StoredIndex, ZenonT(30)
    <3>2. Has(<<0, k[2], k[3]>>, v) <=> v \in Mine /\ kv[<<v, k[2], Opposite(k[3])>>] # <<>>
      BY <1>1, <2>2, DonePredicate, Zenon
    <3> QED
      BY <1>1, <2>1, <3>1, <3>2, Zenon
  <2>3. CASE k[2] \in Types
    <3>1. v \in Index(Stored, <<0, k[2], k[3]>>) <=> k[3] = IN_ /\ v \in Mine /\ Has(<<v, TYPE_ID, OUT_>>, k[2])
      BY <1>1, <2>3, StoredIndex, Ids, Zenon
    <3>2. Has(<<0, k[2], k[3]>>, v) <=> k[3] = IN_ /\ v \in Mine /\ Has(<<v, TYPE_ID, OUT_>>, k[2])
      BY <1>1, <2>3, DoneType, Zenon
    <3> QED
      BY <1>1, <2>1, <3>1, <3>2, Zenon
  <2> QED
    BY <2>2, <2>3, Zenon
<1> QED
  BY <1>2, <1>3, Zenon

\* The indexes (1) and (2) then list exactly the vertices that have the
\* predicate or the type, each once, whatever the order of the insertions:
\* only the first edge of a key and a type that is no duplicate go on to the
\* index in insert_triple_out and insert_triple_in.
THEOREM PredicateIndexInvariant == Spec => []PredicateIndex
  BY IndexInvariant, DonePredicateIndex, PTL

LEMMA DoneVersatileIndex == IndexInv => VersatileIndex
<1> SUFFICES ASSUME IndexInv, Done, NEW k \in Keys, k[1] = 0, k[2] \in {TYPE_ID, PREDICATE_ID}
             PROVE  /\ Stored[k] \subseteq Index(Stored, k) /\ Once(k)
                    /\ BulkLoaded(k) \subseteq Stored[k]
                    /\ \A v \in Index(Stored, k) \ Stored[k] : v \in Overlooked(k) \/ Raced(k, v)
  BY DEF VersatileIndex
<1>1. Once(k)
  BY DoneOnce DEF DerivedKeys
<1>2. BulkLoaded(k) \subseteq Stored[k] /\ \A v : v \in Stored[k] <=> Has(k, v)
  BY DoneValues DEF IndexInv, FileInv
<1>3. CASE k = <<0, TYPE_ID, IN_>>
  BY <1>1, <1>2, <1>3, DoneVertices, MissingVertices, Zenon
<1>4. CASE k = <<0, TYPE_ID, OUT_>>
  BY <1>1, <1>2, <1>4, DoneTypesIndex, Zenon
<1>5. CASE k = <<0, PREDICATE_ID, OUT_>>
  BY <1>1, <1>2, <1>5, DonePredicates, MissingPredicates, Zenon DEF Overlooked
<1>6. CASE k = <<0, PREDICATE_ID, IN_>>
  BY <1>1, <1>2, <1>6, DoneNoList, StoredIndex, Zenon
<1> QED
  BY <1>3, <1>4, <1>5, <1>6, KeyForm, Zenon

\* The lists of all vertices, types and predicates then name nothing that
\* does not exist, and nothing twice, although two threads that fill a key
\* and its buddy key both decide by check_key_exist whether to insert: the
\* header of a key is there before the thread that fills it looks at the
\* other.  They keep all they had, and a vertex or predicate that is new is
\* left out only if two threads bring it in, one with an edge from a subject
\* and one with an edge from an object; TYPE_ID is left out by any thread.
THEOREM VersatileIndexInvariant == Spec => []VersatileIndex
  BY IndexInvariant, DoneVersatileIndex, PTL

-----------------------------------------------------------------------------
(* The integrity check.                                                    *)

\* How often a value occurs in a key that has no duplicates.
LEMMA DoneCount ==
    ASSUME IndexInv, NEW k \in Keys, k \in DerivedKeys \/ k[2] = TYPE_ID, NEW v
    PROVE  Count(k, v) = IF Has(k, v) THEN 1 ELSE 0
<1>1. kv[k] \in Seq(Nat)
  BY DoneValues
<1>2. IsInjective(kv[k])
  <2>1. CASE k \in DerivedKeys
    BY <2>1, Zenon DEF IndexInv, OnceInv
  <2>2. CASE k \notin DerivedKeys /\ k[2] = TYPE_ID
    <3>1. k \in NormalKeys
      BY <2>2 DEF DerivedKeys, NormalKeys
    <3> QED
      BY <2>2, <3>1, Zenon DEF IndexInv, NormalInv
  <2> QED
    BY <2>1, <2>2, Zenon
<1>3. Count(k, v) = Cardinality({i \in DOMAIN kv[k] : kv[k][i] = v})
  BY DEF Count
<1>4. Cardinality({i \in DOMAIN kv[k] : kv[k][i] = v}) = IF v \in Range(kv[k]) THEN 1 ELSE 0
  BY <1>1, <1>2, InjectiveCount, Zenon
<1> QED
  BY <1>3, <1>4, Zenon DEF Has

LEMMA ListedHas ==
    ASSUME IndexInv, NEW v \in Mine, NEW p, NEW d \in {IN_, OUT_}
    PROVE  Listed(v, p, d) <=> Has(<<0, TYPE_ID, IN_>>, v) /\ Has(<<v, PREDICATE_ID, d>>, p)
<1>1. <<0, TYPE_ID, IN_>> \in Keys /\ <<0, TYPE_ID, IN_>> \in DerivedKeys
  BY ListKeys DEF DerivedKeys
<1>2. <<v, PREDICATE_ID, d>> \in Keys /\ <<v, PREDICATE_ID, d>> \in DerivedKeys
  BY KeyOf, Zenon DEF DerivedKeys, Pids
<1>3. Count(<<0, TYPE_ID, IN_>>, v) = 1 <=> Has(<<0, TYPE_ID, IN_>>, v)
  BY <1>1, DoneCount
<1>4. Count(<<v, PREDICATE_ID, d>>, p) = 1 <=> Has(<<v, PREDICATE_ID, d>>, p)
  BY <1>2, DoneCount
<1> QED
  BY <1>3, <1>4, Zenon DEF Listed

\* What the integrity check of the index vertex of a predicate finds out, ...
LEMMA CheckPredicate ==
    ASSUME IndexInv, Done, NEW p \in Predicates, NEW d \in {IN_, OUT_}, kv[<<0, p, d>>] # <<>>
    PROVE  check_on_vertex(<<0, p, d>>, TRUE, TRUE) <=>
              (Versatile => /\ Has(<<0, PREDICATE_ID, OUT_>>, p)
                            /\ \A v \in Mine : kv[<<v, p, Opposite(d)>>] # <<>> => Has(<<0, TYPE_ID, IN_>>, v))
<1> DEFINE k == <<0, p, d>>
           P == Has(<<0, PREDICATE_ID, OUT_>>, p)
           V == \A v \in Mine : kv[<<v, p, Opposite(d)>>] # <<>> => Has(<<0, TYPE_ID, IN_>>, v)
<1>1. k \in Keys /\ k[1] = 0 /\ k[2] = p /\ k[3] = d /\ kv[k] # <<>>
  BY KeyOf, Zenon DEF Pids
<1>2. \A v : v \in Stored[k] <=> v \in Mine /\ kv[<<v, p, Opposite(d)>>] # <<>>
  <2>1. \A v : Has(k, v) <=> v \in Mine /\ kv[<<v, p, Opposite(d)>>] # <<>>
    BY DonePredicate, Zenon
  <2> HIDE DEF k
  <2> QED
    BY <1>1, <2>1, DoneValues, Zenon
<1> HIDE DEF k
<1>3. ASSUME NEW v \in Stored[k] PROVE v \in Mine /\ <<v, p, Opposite(d)>> \in exists
  <2>1. v \in Mine /\ kv[<<v, p, Opposite(d)>>] # <<>>
    BY <1>2, <1>3, Zenon
  <2>2. <<v, p, Opposite(d)>> \in Keys
    BY <2>1, Opposites, KeyOf, Zenon DEF Pids
  <2> QED
    BY <2>1, <2>2, DoneExists, Zenon
<1>4. Count(<<0, PREDICATE_ID, OUT_>>, p) = 1 <=> P
  BY ListKeys, DoneCount DEF DerivedKeys
<1>5. Count(<<0, TYPE_ID, OUT_>>, p) = 0
  <2>1. ~ Has(<<0, TYPE_ID, OUT_>>, p)
    BY DoneTypes, Ids, Zenon
  <2> QED
    BY <2>1, ListKeys, DoneCount, Zenon DEF DerivedKeys
<1>6. Versatile => ((\A v \in Stored[k] : Listed(v, p, Opposite(d))) <=> V)
  <2> SUFFICES ASSUME Versatile, NEW v \in Mine, kv[<<v, p, Opposite(d)>>] # <<>>
               PROVE  Listed(v, p, Opposite(d)) <=> Has(<<0, TYPE_ID, IN_>>, v)
    BY <1>2, Zenon
  <2>1. Opposite(d) \in {IN_, OUT_}
    BY Opposites
  <2>2. Has(<<v, PREDICATE_ID, Opposite(d)>>, p)
    BY <2>1, DoneVertex, Zenon
  <2> QED
    BY <2>1, <2>2, ListedHas, Zenon
<1> HIDE DEF P, V
<1>7. is_tpid(k[2]) /\ ~ is_vid(k[1])
  BY <1>1, Ids, Zenon DEF is_tpid, is_vid
<1>8. CASE d = IN_
  <2>1. idx_check_indir(k)
    <3> SUFFICES ASSUME NEW v \in Stored[k]
                 PROVE  /\ Count(<<v, TYPE_ID, OUT_>>, p) <= 1
                        /\ <<v, p, OUT_>> \in exists
      BY <1>1 DEF idx_check_indir
    <3>1. <<v, TYPE_ID, OUT_>> \in Keys /\ <<v, TYPE_ID, OUT_>>[2] = TYPE_ID
      BY <1>3, KeyOf, Zenon DEF Pids
    <3>2. Count(<<v, TYPE_ID, OUT_>>, p) \in {0, 1}
      BY <3>1, DoneCount, Zenon
    <3>3. Count(<<v, TYPE_ID, OUT_>>, p) <= 1
      BY ONLY <3>2
    <3> QED
      BY <1>3, <1>8, <3>3, Opposites, Zenon
  <2>2. Versatile => (ver_idx_check_indir(k) <=> P /\ V)
    BY <1>1, <1>4, <1>5, <1>6, <1>8, Opposites DEF ver_idx_check_indir
  <2>3. check_on_vertex(k, TRUE, TRUE) <=> idx_check_indir(k) /\ (Versatile => ver_idx_check_indir(k))
    BY <1>1, <1>7, <1>8, Ids, Zenon DEF check_on_vertex
  <2> QED
    BY <2>1, <2>2, <2>3, Zenon DEF k, P, V
<1>9. CASE d = OUT_
  <2>1. idx_check_outdir(k)
    BY <1>1, <1>3, <1>9, Opposites, Zenon DEF idx_check_outdir
  <2>2. Versatile => (ver_idx_check_outdir(k) <=> P /\ V)
    BY <1>1, <1>4, <1>6, <1>9, Opposites, Zenon DEF ver_idx_check_outdir
  <2>3. check_on_vertex(k, TRUE, TRUE) <=> idx_check_outdir(k) /\ (Versatile => ver_idx_check_outdir(k))
    BY <1>1, <1>7, <1>9, Ids, Zenon DEF check_on_vertex
  <2> QED
    BY <2>1, <2>2, <2>3, Zenon DEF k, P, V
<1> QED
  BY <1>8, <1>9, Zenon

\* ... that of a type: it is always right; ...
LEMMA CheckType ==
    ASSUME IndexInv, Done, NEW p \in Types, NEW d \in {IN_, OUT_}, kv[<<0, p, d>>] # <<>>
    PROVE  check_on_vertex(<<0, p, d>>, TRUE, TRUE)
<1> DEFINE k == <<0, p, d>>
<1>1. k \in Keys /\ k[1] = 0 /\ k[2] = p /\ k[3] = d /\ kv[k] # <<>>
  BY KeyOf, Zenon DEF Pids
<1>2. \A v : Has(k, v) <=> d = IN_ /\ v \in Mine /\ Has(<<v, TYPE_ID, OUT_>>, p)
  BY DoneType, Zenon
<1> HIDE DEF k
<1>3. d = IN_
  BY <1>1, <1>2, DoneValues, Zenon
<1>4. ASSUME NEW v \in Stored[k] PROVE Count(<<v, TYPE_ID, OUT_>>, p) = 1
  <2>1. v \in Mine /\ Has(<<v, TYPE_ID, OUT_>>, p)
    BY <1>1, <1>2, <1>4, DoneValues, Zenon
  <2>2. <<v, TYPE_ID, OUT_>> \in Keys /\ <<v, TYPE_ID, OUT_>>[2] = TYPE_ID
    BY <2>1, KeyOf, Zenon DEF Pids
  <2> QED
    BY <2>1, <2>2, DoneCount, Zenon
<1>5. idx_check_indir(k)
  BY <1>1, <1>4 DEF idx_check_indir
<1>6. Versatile => ver_idx_check_indir(k)
  <2>1. Versatile => Has(<<0, TYPE_ID, OUT_>>, p)
    BY <1>1, <1>3, DoneTypes, Zenon DEF k
  <2>2. Versatile => Count(<<0, TYPE_ID, OUT_>>, p) = 1
    BY <2>1, ListKeys, DoneCount, Zenon DEF DerivedKeys
  <2> QED
    BY <1>1, <2>2, Zenon DEF ver_idx_check_indir
<1>7. ~ is_vid(k[1])
  BY <1>1, Ids, Zenon DEF is_vid
<1>8. check_on_vertex(k, TRUE, TRUE)
  BY <1>1, <1>3, <1>5, <1>6, <1>7, Ids, Zenon DEF check_on_vertex
<1> QED
  BY <1>8, Zenon DEF k

\* ... that of the types of a vertex; ...
LEMMA CheckTyped ==
    ASSUME IndexInv, Done, NEW a \in Mine, NEW d \in {IN_, OUT_}, kv[<<a, TYPE_ID, d>>] # <<>>
    PROVE  d = OUT_ /\ (check_on_vertex(<<a, TYPE_ID, d>>, TRUE, TRUE) <=>
              (Versatile => Has(<<0, TYPE_ID, IN_>>, a)))
<1> DEFINE k == <<a, TYPE_ID, d>>
<1>1. k \in Keys /\ k[1] = a /\ k[2] = TYPE_ID /\ k[3] = d /\ kv[k] # <<>>
  BY KeyOf, Zenon DEF Pids
<1>2. \A v : Has(k, v) => d = OUT_ /\ v \in Types /\ a \notin Types
  BY DoneTyped, Zenon
<1> HIDE DEF k
<1>3. d = OUT_ /\ a \notin Types
  BY <1>1, <1>2, DoneValues, Zenon
<1>4. nt_check(k)
  <2> SUFFICES ASSUME NEW y \in Stored[k] PROVE Count(<<0, y, IN_>>, a) = 1
    BY <1>1, Zenon DEF nt_check
  <2>1. Has(k, y) /\ y \in Types
    BY <1>1, <1>2, DoneValues, Zenon
  <2>2. Has(<<0, y, IN_>>, a)
    BY <1>3, <2>1, DoneType, Zenon DEF k
  <2>3. <<0, y, IN_>> \in Keys /\ <<0, y, IN_>> \in DerivedKeys
    BY <2>1, KeyOf, Zenon DEF DerivedKeys, Pids
  <2> QED
    BY <2>2, <2>3, DoneCount, Zenon
<1>5. Versatile => (ver_nt_check(k) <=> Has(<<0, TYPE_ID, IN_>>, a))
  <2>1. Versatile => Has(<<a, PREDICATE_ID, OUT_>>, TYPE_ID)
    BY <1>1, <1>3, DoneVertex, Zenon DEF k
  <2>2. Listed(a, TYPE_ID, OUT_) <=> Has(<<0, TYPE_ID, IN_>>, a) /\ Has(<<a, PREDICATE_ID, OUT_>>, TYPE_ID)
    BY ListedHas, Zenon
  <2> QED
    BY <1>1, <2>1, <2>2, Zenon DEF ver_nt_check
<1>6. is_vid(k[1]) /\ ~ is_tpid(k[2]) /\ k[1] # 0
  BY <1>1, <1>3, Ids, Zenon DEF is_vid, is_tpid
<1>7. check_on_vertex(k, TRUE, TRUE) <=> nt_check(k) /\ (Versatile => ver_nt_check(k))
  BY <1>1, <1>3, <1>6, Zenon DEF check_on_vertex
<1> QED
  BY <1>3, <1>4, <1>5, <1>7, Zenon DEF k

\* ... and that of its other keys, which always passes, as do the lists.
LEMMA CheckVertex ==
    ASSUME IndexInv, Done, NEW a \in Mine, NEW p \in Predicates, NEW d \in {IN_, OUT_},
           kv[<<a, p, d>>] # <<>>
    PROVE  check_on_vertex(<<a, p, d>>, TRUE, TRUE)
<1> DEFINE k == <<a, p, d>>
           e == IF d = OUT_ THEN IN_ ELSE OUT_
<1>1. k[1] = a /\ k[2] = p /\ k[3] = d
  OBVIOUS
<1>2. e = Opposite(d) /\ e \in {IN_, OUT_} /\ Opposite(e) = d
  BY Ids, Opposites
<1> HIDE DEF e
<1>3. Has(<<0, p, e>>, a)
  BY <1>2, DonePredicate, Zenon
<1>4. <<0, p, e>> \in Keys /\ <<0, p, e>> \in DerivedKeys
  BY <1>2, KeyOf, Zenon DEF DerivedKeys, Pids
<1>5. Count(<<0, p, e>>, a) = 1
  BY <1>3, <1>4, DoneCount, Zenon
<1> HIDE DEF k
<1>6. np_check(k, IF k[3] = OUT_ THEN IN_ ELSE OUT_)
  BY <1>1, <1>5, Zenon DEF np_check, e
<1>7. k[1] # 0 /\ k[2] # TYPE_ID
  BY <1>1, Ids, Zenon
<1>8. check_on_vertex(k, TRUE, TRUE)
  BY <1>6, <1>7, Zenon DEF check_on_vertex
<1> QED
  BY <1>8, Zenon DEF k

LEMMA CheckLists ==
    ASSUME NEW k \in Keys, k[2] = PREDICATE_ID \/ (k[1] = 0 /\ k[2] = TYPE_ID)
    PROVE  check_on_vertex(k, TRUE, TRUE)
<1>1. ~ is_tpid(k[2]) /\ (k[1] = 0 => ~ is_vid(k[1])) /\ (k[2] = PREDICATE_ID => k[2] # TYPE_ID)
  BY Ids DEF is_tpid, is_vid
<1> QED
  BY <1>1 DEF check_on_vertex

\* What the whole check finds out.
PredicatesPass ==
    \A p \in Predicates : \A d \in {IN_, OUT_} : kv[<<0, p, d>>] # <<>> =>
        /\ Has(<<0, PREDICATE_ID, OUT_>>, p)
        /\ \A v \in Mine : kv[<<v, p, Opposite(d)>>] # <<>> => Has(<<0, TYPE_ID, IN_>>, v)

TypesPass ==
    \A a \in Mine : kv[<<a, TYPE_ID, OUT_>>] # <<>> => Has(<<0, TYPE_ID, IN_>>, a)

LEMMA CheckFinds ==
    ASSUME IndexInv, Done
    PROVE  gstore_check(TRUE, TRUE) <=> (Versatile => PredicatesPass /\ TypesPass)
<1>1. \A k \in Keys : k \in exists <=> kv[k] # <<>>
  BY DoneExists
<1>2. exists \subseteq Keys
  BY DEF IndexInv, TypeInv
<1>3. ASSUME gstore_check(TRUE, TRUE), Versatile PROVE PredicatesPass /\ TypesPass
  <2>1. \A k \in Keys : kv[k] # <<>> => check_on_vertex(k, TRUE, TRUE)
    BY <1>1, <1>3, Zenon DEF gstore_check
  <2>2. \A p \in Predicates : \A d \in {IN_, OUT_} : <<0, p, d>> \in Keys
    BY KeyOf, Zenon DEF Pids
  <2>3. \A a \in Mine : <<a, TYPE_ID, OUT_>> \in Keys
    BY KeyOf, Zenon DEF Pids
  <2>4. PredicatesPass
    BY <1>3, <2>1, <2>2, CheckPredicate, Zenon DEF PredicatesPass
  <2>5. TypesPass
    BY <1>3, <2>1, <2>3, CheckTyped, Zenon DEF TypesPass
  <2> QED
    BY <2>4, <2>5, Zenon
<1>4. ASSUME Versatile => PredicatesPass /\ TypesPass, NEW k \in exists
      PROVE  check_on_vertex(k, TRUE, TRUE)
  <2>1. k \in Keys /\ kv[k] # <<>>
    BY <1>1, <1>2, Zenon
  <2>2. k = <<k[1], k[2], k[3]>> /\ k[1] \in Mine \cup {0} /\ k[2] \in Pids /\ k[3] \in {IN_, OUT_}
    BY <2>1, KeyForm
  <2>3. CASE k[2] = PREDICATE_ID \/ (k[1] = 0 /\ k[2] = TYPE_ID)
    BY <2>1, <2>3, CheckLists, Zenon
  <2>4. CASE k[1] = 0 /\ k[2] \in Predicates
    BY <1>4, <2>1, <2>2, <2>4, CheckPredicate, Zenon DEF PredicatesPass
  <2>5. CASE k[1] = 0 /\ k[2] \in Types
    BY <2>1, <2>2, <2>5, CheckType, Zenon
  <2>6. CASE k[1] \in Mine /\ k[2] = TYPE_ID
    BY <1>4, <2>1, <2>2, <2>6, CheckTyped, Zenon DEF TypesPass
  <2>7. CASE k[1] \in Mine /\ k[2] \in Predicates
    BY <2>1, <2>2, <2>7, CheckVertex, Zenon
  <2>8. CASE k[1] \in Mine /\ k[2] \in Types
    BY <2>1, <2>2, <2>8, DoneNoType, ZenonT(30)
  <2> QED
    BY <2>2, <2>3, <2>4, <2>5, <2>6, <2>7, <2>8, Zenon DEF Pids
<1> QED
  BY <1>3, <1>4, Zenon DEF gstore_check

VerticesListed ==
    \A v \in Index(Stored, <<0, TYPE_ID, IN_>>) : Has(<<0, TYPE_ID, IN_>>, v)

PredicatesListed ==
    \A p \in Index(Stored, <<0, PREDICATE_ID, OUT_>>) \ {TYPE_ID} : Has(<<0, PREDICATE_ID, OUT_>>, p)

\* The checks cover what may be left out of the two lists, ...
LEMMA PassedListed ==
    ASSUME IndexInv, Done, Versatile => PredicatesPass /\ TypesPass
    PROVE  VerticesListed /\ PredicatesListed
<1>1. ASSUME NEW v \in Index(Stored, <<0, TYPE_ID, IN_>>) PROVE Has(<<0, TYPE_ID, IN_>>, v)
  <2>1. PICK d \in {IN_, OUT_} : Versatile /\ v \in Mine /\ kv[<<v, PREDICATE_ID, d>>] # <<>>
    BY IndexVertices
  <2>2. <<v, PREDICATE_ID, d>> \in Keys
    BY <2>1, KeyOf, Zenon DEF Pids
  <2>3. PICK q : Has(<<v, PREDICATE_ID, d>>, q)
    BY <2>1, <2>2, DoneValues, Zenon
  <2>4. q \in Predicates \cup {TYPE_ID} /\ kv[<<v, q, d>>] # <<>>
    BY <2>1, <2>3, DoneVertex, Zenon
  <2>5. CASE q \in Predicates
    <3>1. Opposite(d) \in {IN_, OUT_} /\ Opposite(Opposite(d)) = d
      BY Opposites
    <3>2. Has(<<0, q, Opposite(d)>>, v)
      BY <2>1, <2>4, <2>5, <3>1, DonePredicate, Zenon
    <3>3. <<0, q, Opposite(d)>> \in Keys
      BY <2>5, <3>1, KeyOf, Zenon DEF Pids
    <3>4. kv[<<0, q, Opposite(d)>>] # <<>>
      BY <3>2, <3>3, DoneValues, Zenon
    <3> QED
      BY <2>1, <2>4, <2>5, <3>1, <3>4, Zenon DEF PredicatesPass
  <2>6. CASE q = TYPE_ID
    <3>1. d = OUT_
      BY <2>1, <2>4, <2>6, CheckTyped, Zenon
    <3> QED
      BY <2>1, <2>4, <2>6, <3>1, Zenon DEF TypesPass
  <2> QED
    BY <2>4, <2>5, <2>6, Zenon
<1>2. ASSUME NEW p \in Index(Stored, <<0, PREDICATE_ID, OUT_>>) \ {TYPE_ID}
      PROVE  Has(<<0, PREDICATE_ID, OUT_>>, p)
  <2>1. Versatile /\ p \in Predicates /\ \E d \in {IN_, OUT_} : kv[<<0, p, d>>] # <<>>
    BY IndexPredicates
  <2> QED
    BY <2>1, Zenon DEF PredicatesPass
<1> QED
  BY <1>1, <1>2 DEF VerticesListed, PredicatesListed

\* ... and fault nothing else.
LEMMA ListedPassed ==
    ASSUME IndexInv, Done, Versatile, VerticesListed, PredicatesListed
    PROVE  PredicatesPass /\ TypesPass
<1>1. ASSUME NEW p \in Predicates, NEW d \in {IN_, OUT_}, kv[<<0, p, d>>] # <<>>
      PROVE  Has(<<0, PREDICATE_ID, OUT_>>, p)
  <2>1. p \in Index(Stored, <<0, PREDICATE_ID, OUT_>>) /\ p # TYPE_ID
    BY <1>1, IndexPredicates, Ids, Zenon
  <2> QED
    BY <2>1, Zenon DEF PredicatesListed
<1>2. ASSUME NEW p \in Predicates, NEW e \in {IN_, OUT_}, NEW v \in Mine, kv[<<v, p, e>>] # <<>>
      PROVE  Has(<<0, TYPE_ID, IN_>>, v)
  <2>1. Has(<<v, PREDICATE_ID, e>>, p)
    BY <1>2, DoneVertex, Zenon
  <2>2. <<v, PREDICATE_ID, e>> \in Keys
    BY KeyOf, Zenon DEF Pids
  <2>3. kv[<<v, PREDICATE_ID, e>>] # <<>>
    BY <2>1, <2>2, DoneValues, Zenon
  <2>4. v \in Index(Stored, <<0, TYPE_ID, IN_>>)
    BY <2>3, IndexVertices, Zenon
  <2> QED
    BY <2>4 DEF VerticesListed
<1>3. PredicatesPass
  BY <1>1, <1>2, Opposites, ZenonT(30) DEF PredicatesPass
<1>4. TypesPass
  BY StoredIndex, Zenon DEF TypesPass, VerticesListed
<1> QED
  BY <1>3, <1>4, Zenon

LEMMA DoneGsckExact == IndexInv => GsckExact
<1> SUFFICES ASSUME IndexInv, Done
             PROVE  gstore_check(TRUE, TRUE) <=>
                      \A k \in Keys : k[1] = 0 =>
                          /\ Stored[k] \subseteq Index(Stored, k) /\ Once(k)
                          /\ Index(Stored, k) \ Overlooked(k) \subseteq Stored[k]
  BY Zenon DEF GsckExact
<1>1. \A k \in Keys : \A v : v \in Stored[k] <=> Has(k, v)
  BY DoneValues
<1>2. <<0, TYPE_ID, IN_>> \in Keys /\ <<0, PREDICATE_ID, OUT_>> \in Keys
  BY ListKeys, Zenon DEF DerivedKeys
<1>3. \A k \in Keys : k[1] = 0 => Stored[k] \subseteq Index(Stored, k) /\ Once(k)
  <2> SUFFICES ASSUME NEW k \in Keys, k[1] = 0 PROVE Stored[k] \subseteq Index(Stored, k) /\ Once(k)
    OBVIOUS
  <2>1. CASE k[2] \in Predicates \cup Types
    BY <2>1, DonePredicateIndex, Zenon DEF PredicateIndex
  <2>2. CASE k[2] \in {TYPE_ID, PREDICATE_ID}
    BY <2>2, DoneVersatileIndex, Zenon DEF VersatileIndex
  <2> QED
    BY <2>1, <2>2, KeyForm, Zenon DEF Pids
<1>4. ASSUME \A k \in Keys : k[1] = 0 => Index(Stored, k) \ Overlooked(k) \subseteq Stored[k]
      PROVE  VerticesListed /\ PredicatesListed
  <2>1. Overlooked(<<0, TYPE_ID, IN_>>) = {} /\ Overlooked(<<0, PREDICATE_ID, OUT_>>) = {TYPE_ID}
    BY ListKeys DEF Overlooked
  <2>2. Index(Stored, <<0, TYPE_ID, IN_>>) \subseteq Stored[<<0, TYPE_ID, IN_>>]
    BY <1>2, <1>4, <2>1, Zenon
  <2>3. Index(Stored, <<0, PREDICATE_ID, OUT_>>) \ {TYPE_ID} \subseteq Stored[<<0, PREDICATE_ID, OUT_>>]
    BY <1>2, <1>4, <2>1, Zenon
  <2> QED
    BY <1>1, <1>2, <2>2, <2>3, Zenon DEF VerticesListed, PredicatesListed
<1>5. ASSUME VerticesListed, PredicatesListed, NEW k \in Keys, k[1] = 0
      PROVE  Index(Stored, k) \ Overlooked(k) \subseteq Stored[k]
  <2>1. CASE k[2] \in Predicates \cup Types
    BY <2>1, <1>5, DonePredicateIndex, Zenon DEF PredicateIndex
  <2>2. CASE k = <<0, TYPE_ID, IN_>>
    BY <1>1, <1>2, <1>5, <2>2, Zenon DEF VerticesListed
  <2>3. CASE k = <<0, TYPE_ID, OUT_>>
    BY <1>1, <2>3, DoneTypesIndex, Zenon
  <2>4. CASE k = <<0, PREDICATE_ID, OUT_>>
    BY <1>1, <1>2, <1>5, <2>4, Zenon DEF PredicatesListed, Overlooked
  <2>5. CASE k = <<0, PREDICATE_ID, IN_>>
    BY <2>5, StoredIndex, Zenon
  <2> QED
    BY <1>5, <2>1, <2>2, <2>3, <2>4, <2>5, KeyForm, Zenon DEF Pids
<1>6. gstore_check(TRUE, TRUE) <=> VerticesListed /\ PredicatesListed
  BY CheckFinds, PassedListed, ListedPassed, Zenon
<1> QED
  BY <1>3, <1>4, <1>5, <1>6, Zenon

\* gsck, run when no thread is loading, finds no fault exactly when the index
\* vertices list what they should, each once; only TYPE_ID missing from the
\* list of all predicates goes unnoticed by ver_nt_check.
THEOREM GsckExactInvariant == Spec => []GsckExact
  BY IndexInvariant, DoneGsckExact, PTL
=============================================================================
