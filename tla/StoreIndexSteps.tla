-------------------------- MODULE StoreIndexSteps ---------------------------
(***************************************************************************)
(* What the insertions of dynamic_load_data make of the keys of a store:   *)
(* every step preserves the invariant, and what the invariant says of the  *)
(* keys when all threads are done.                                         *)
(***************************************************************************)
EXTENDS StoreIndexInvariant, TLAPS

(* IDs, triples and keys.                                                  *)

\* The IDs of predicates, types, vertices and of the index are distinct.
LEMMA Ids ==
    /\ TYPE_ID \in Nat /\ PREDICATE_ID \in Nat /\ TYPE_ID # PREDICATE_ID
    /\ IN_ # OUT_
    /\ Mine \subseteq Nat /\ 0 \notin Mine
    /\ TYPE_ID \notin Predicates /\ PREDICATE_ID \notin Predicates
    /\ TYPE_ID \notin Types /\ PREDICATE_ID \notin Types
    /\ \A p \in Predicates : p \notin Types
    /\ Versatile \in BOOLEAN
<1>1. IN_ # OUT_
  BY DEF IN_, OUT_
<1>2. TYPE_ID \notin Predicates
  BY DEF Predicates
<1> QED
  BY <1>1, <1>2, StoreIndexAssumption DEF TYPE_ID, PREDICATE_ID

\* What is loaded are triples of IDs.
LEMMA KnownTriples ==
    ASSUME NEW x \in Known
    PROVE  /\ x = <<x[1], x[2], x[3]>>
           /\ x[1] \in Nat /\ x[2] \in Nat /\ x[3] \in Nat
           /\ x[2] # TYPE_ID => x[2] \in Predicates
           /\ x[2] = TYPE_ID => x[3] \in Types /\ x[1] \notin Types
<1>1. x \in Nat \X Nat \X Nat
  <2>1. CASE x \in Triples
    BY <2>1, StoreIndexAssumption
  <2>2. CASE x \notin Triples
    <3>1. PICK f \in Loads : x \in UNION {Range(f[t]) : t \in DOMAIN f}
      BY <2>2 DEF Known
    <3>2. PICK t \in DOMAIN f : x \in Range(f[t])
      BY <3>1
    <3>3. f \in Seq(Seq(Nat \X Nat \X Nat))
      BY StoreIndexAssumption
    <3>4. f[t] \in Seq(Nat \X Nat \X Nat)
      BY <3>2, <3>3
    <3> QED
      BY <3>2, <3>4 DEF Range
  <2> QED
    BY <2>1, <2>2
<1>2. x[2] # TYPE_ID => x[2] \in Predicates
  BY DEF Predicates
<1>3. x[2] = TYPE_ID => x[3] \in Types /\ x[1] \notin Types
  BY StoreIndexAssumption DEF Types
<1> QED
  BY <1>1, <1>2, <1>3

LEMMA PredicatesAndTypes == Predicates \subseteq Nat /\ Types \subseteq Nat
  BY KnownTriples DEF Predicates, Types

LEMMA KeyForm ==
    ASSUME NEW k \in Keys
    PROVE  /\ k = <<k[1], k[2], k[3]>>
           /\ k[1] \in Mine \cup {0} /\ k[2] \in Pids /\ k[3] \in {IN_, OUT_}
           /\ Flip(k) \in Keys /\ Flip(k) # k /\ Flip(Flip(k)) = k
  BY Ids DEF Keys, Flip, Opposite

LEMMA KeyOf ==
    ASSUME NEW a \in Mine \cup {0}, NEW p \in Pids, NEW d \in {IN_, OUT_}
    PROVE  <<a, p, d>> \in Keys
  BY DEF Keys

LEMMA Opposites == Opposite(IN_) = OUT_ /\ Opposite(OUT_) = IN_
  BY Ids DEF Opposite

-----------------------------------------------------------------------------
(* What a thread owes at each step.                                        *)

LEMMA NoDue ==
    ASSUME NEW step \in NormalSteps \cup {"idle", "end"}, NEW x, NEW k, NEW v
    PROVE  ~ Due(step, x, k, v) /\ ~ Checking(step, x, k)
  BY DEF NormalSteps, Due, Checking

LEMMA KeyShapes ==
    ASSUME NEW a \in Mine, NEW q \in Predicates \cup Types, NEW d \in {IN_, OUT_}
    PROVE  /\ <<0, q, d>> \in DerivedKeys \ Lists
           /\ <<a, PREDICATE_ID, d>> \in DerivedKeys \ Lists
           /\ <<a, q, d>> \in NormalKeys /\ <<a, TYPE_ID, d>> \in NormalKeys
<1>1. /\ <<0, q, d>> \in Keys /\ <<a, PREDICATE_ID, d>> \in Keys
      /\ <<a, q, d>> \in Keys /\ <<a, TYPE_ID, d>> \in Keys
  BY KeyOf, Zenon DEF Pids
<1>2. q # TYPE_ID /\ q # PREDICATE_ID /\ a # 0 /\ TYPE_ID # PREDICATE_ID
  BY Ids
<1>3. <<0, q, d>> \notin Lists /\ <<a, PREDICATE_ID, d>> \notin Lists
  BY <1>2 DEF Lists
<1> QED
  BY <1>1, <1>2, <1>3 DEF DerivedKeys, NormalKeys

LEMMA ListKeys ==
    /\ <<0, TYPE_ID, OUT_>> \in DerivedKeys \ Lists
    /\ <<0, TYPE_ID, IN_>> \in DerivedKeys /\ <<0, PREDICATE_ID, OUT_>> \in DerivedKeys
    /\ <<0, TYPE_ID, IN_>> # <<0, PREDICATE_ID, OUT_>>
  BY Ids, KeyOf, Zenon DEF DerivedKeys, Lists, Pids

DerivedSteps == InsertSteps \ NormalSteps

\* The two kinds of keys that have a buddy, and the lists they feed.
LEMMA PairedPredicate ==
    ASSUME NEW p \in Predicates, NEW d \in {IN_, OUT_}
    PROVE  /\ <<0, p, d>> \in PairedKeys
           /\ Flip(<<0, p, d>>) = <<0, p, Opposite(d)>>
           /\ ListOf(<<0, p, d>>) = <<0, PREDICATE_ID, OUT_>> /\ EntryOf(<<0, p, d>>) = p
  BY Ids, KeyOf, Zenon DEF PairedKeys, Flip, ListOf, EntryOf, Pids

LEMMA PairedVertex ==
    ASSUME NEW a \in Mine, NEW d \in {IN_, OUT_}
    PROVE  /\ <<a, PREDICATE_ID, d>> \in PairedKeys
           /\ Flip(<<a, PREDICATE_ID, d>>) = <<a, PREDICATE_ID, Opposite(d)>>
           /\ ListOf(<<a, PREDICATE_ID, d>>) = <<0, TYPE_ID, IN_>>
           /\ EntryOf(<<a, PREDICATE_ID, d>>) = a
<1>1. <<a, PREDICATE_ID, d>> \in Keys /\ a # 0
  BY Ids, KeyOf, Zenon DEF Pids
<1> QED
  BY <1>1 DEF PairedKeys, Flip, ListOf, EntryOf

\* The end of a triple that fills the key: its subject or its object.
Side(k) == IF k[1] = 0 THEN Opposite(k[3]) ELSE k[3]

-----------------------------------------------------------------------------
(* The calls of a thread.                                                  *)

CallsOf(T) == Seq({"triple_out", "triple_in"} \X T)

LEMMA AllKnown == files \in Loads => All \subseteq Known
  BY DEF All, Known, Threads

\* The step a thread is at when it has done with a call.
LEMMA Starts ==
    ASSUME NEW T, NEW calls \in CallsOf(T)
    PROVE  /\ Start(calls) \in NormalSteps \cup {"idle", "end"}
           /\ Start(calls) = "idle" <=> calls = <<>>
           /\ Suits(Start(calls), calls[1][2])
           /\ \A x : calls # <<>> /\ calls[1] = <<"triple_out", x>> /\ x[1] \in Mine =>
                 Start(calls) \in {"o1", "o6"}
           /\ \A x : calls # <<>> /\ calls[1] = <<"triple_in", x>> /\ x[3] \in Mine /\ x[2] # TYPE_ID =>
                 Start(calls) = "i1"
<1>1. CASE calls = <<>>
  BY <1>1 DEF Start, Suits, TypeSteps, OutSteps, InSteps, VersatileSteps
<1>2. CASE calls # <<>>
  <2>1. calls[1] \in {"triple_out", "triple_in"} \X T
    BY <1>2 DEF CallsOf
  <2> DEFINE c == calls[1]
  <2>2. c[1] \in {"triple_out", "triple_in"} /\ Start(calls) = First(c)
    BY <1>2, <2>1 DEF Start
  <2>3. calls[1][2] = c[2] /\ \A a, x : calls[1] = <<a, x>> => c[1] = a /\ c[2] = x
    OBVIOUS
  <2> HIDE DEF c
  <2>4. First(c) \in NormalSteps \cup {"end"} /\ Suits(First(c), c[2])
    BY DEF First, Suits, TypeSteps, OutSteps, InSteps, VersatileSteps, NormalSteps
  <2>5. /\ c[1] = "triple_out" /\ c[2][1] \in Mine => First(c) \in {"o1", "o6"}
        /\ c[1] = "triple_in" /\ c[2][3] \in Mine /\ c[2][2] # TYPE_ID => First(c) = "i1"
    BY DEF First
  <2> QED
    BY <1>2, <2>2, <2>3, <2>4, <2>5 DEF NormalSteps
<1> QED
  BY <1>1, <1>2

-----------------------------------------------------------------------------
(* One insertion.                                                          *)

KeyAt(t) == Insert(pc[t], Current(t))[1]

ValueAt(t) == Insert(pc[t], Current(t))[2]

FirstAt(t) == kv[KeyAt(t)] = <<>>

DupAt(t) == ~ FirstAt(t) /\ dedup(pc[t]) /\ ValueAt(t) \in Range(kv[KeyAt(t)])

NextAt(t) == AfterInsert(pc[t], FirstAt(t), DupAt(t))

\* What an insertion makes due.
MadeDue(t, k, v) ==
    LET x == Current(t)
    IN  \/ pc[t] = "o1" /\ ~ DupAt(t) /\ k = <<0, x[3], IN_>> /\ v = x[1]
        \/ pc[t] = "o1" /\ FirstAt(t) /\ Versatile /\ k = <<x[1], PREDICATE_ID, OUT_>> /\ v = TYPE_ID
        \/ pc[t] = "o4" /\ FirstAt(t) /\ Versatile /\ k = <<0, TYPE_ID, OUT_>> /\ v = x[3]
        \/ pc[t] = "o6" /\ FirstAt(t) /\ k = <<0, x[2], IN_>> /\ v = x[1]
        \/ pc[t] = "o6" /\ FirstAt(t) /\ Versatile /\ k = <<x[1], PREDICATE_ID, OUT_>> /\ v = x[2]
        \/ pc[t] = "i1" /\ FirstAt(t) /\ k = <<0, x[2], OUT_>> /\ v = x[3]
        \/ pc[t] = "i1" /\ FirstAt(t) /\ Versatile /\ k = <<x[3], PREDICATE_ID, IN_>> /\ v = x[2]

-----------------------------------------------------------------------------
(* What an insertion causes.                                               *)

\* The insertion of val into key makes v an entry of the derived key k.
Causes(key, val, k, v) ==
    \/ k[1] = 0 /\ k[2] \in Predicates /\ v \in Mine /\ key = <<v, k[2], Opposite(k[3])>>
    \/ k[1] = 0 /\ k[2] \in Types /\ k[3] = IN_ /\ v \in Mine /\ key = <<v, TYPE_ID, OUT_>> /\ val = k[2]
    \/ k[1] # 0 /\ Versatile /\ v \in Predicates \cup {TYPE_ID} /\ key = <<k[1], v, k[3]>>
    \/ k = <<0, TYPE_ID, OUT_>> /\ Versatile /\ v \in Types /\ key = <<0, v, IN_>>

-----------------------------------------------------------------------------
(* The other steps.                                                        *)

\* Every step preserves the invariant.
LEMMA IndexInvNext == IndexInv /\ [Next]_vars => IndexInv'

\* Only derived keys are owed an entry.
<1>DueKeys.
    ASSUME NEW step, NEW x \in Known, Suits(step, x), NEW k, NEW v, Due(step, x, k, v)
    PROVE  /\ k \in DerivedKeys /\ v \in Nat
           /\ k \in Lists => Versatile
           /\ k = <<0, PREDICATE_ID, OUT_>> => v \in Predicates
           /\ k = <<0, TYPE_ID, IN_>> => v \in Mine
  <2> USE <1>DueKeys
  <2>0. Lists = {<<0, PREDICATE_ID, OUT_>>, <<0, TYPE_ID, IN_>>}
    BY DEF Lists
  <2>1. CASE step \in TypeSteps
    <3>1. x[1] \in Mine /\ x[2] = TYPE_ID /\ x[3] \in Types
      BY <2>1, KnownTriples DEF Suits
    <3>2. CASE k = <<0, x[3], IN_>> /\ v = x[1]
      BY <3>1, <3>2, <2>0, KeyShapes, Ids, Zenon
    <3>3. CASE k = <<x[1], PREDICATE_ID, OUT_>> /\ v = TYPE_ID
      BY <3>1, <3>3, <2>0, KeyShapes, Ids, Zenon
    <3>4. CASE k = <<0, TYPE_ID, OUT_>> /\ v = x[3]
      BY <3>1, <3>4, <2>0, ListKeys, PredicatesAndTypes, Zenon
    <3>5. CASE step = "o3" /\ k = <<0, TYPE_ID, IN_>> /\ v = x[1]
      BY <3>1, <3>5, <2>0, ListKeys, Ids, Zenon DEF Suits, VersatileSteps
    <3> QED
      BY <2>1, <3>2, <3>3, <3>4, <3>5 DEF Due, TypeSteps
  <2>2. CASE step \in OutSteps
    <3>1. x[1] \in Mine /\ x[2] \in Predicates
      BY <2>2, KnownTriples DEF Suits
    <3>2. CASE k = <<0, x[2], IN_>> /\ v = x[1]
      BY <3>1, <3>2, <2>0, KeyShapes, Ids, Zenon
    <3>3. CASE k = <<x[1], PREDICATE_ID, OUT_>> /\ v = x[2]
      BY <3>1, <3>3, <2>0, KeyShapes, PredicatesAndTypes, Zenon
    <3>4. CASE step = "o8" /\ k = <<0, PREDICATE_ID, OUT_>> /\ v = x[2]
      BY <3>1, <3>4, <2>0, ListKeys, PredicatesAndTypes, Zenon DEF Suits, VersatileSteps
    <3>5. CASE step = "o10" /\ k = <<0, TYPE_ID, IN_>> /\ v = x[1]
      BY <3>1, <3>5, <2>0, ListKeys, Ids, Zenon DEF Suits, VersatileSteps
    <3> QED
      BY <2>2, <3>2, <3>3, <3>4, <3>5 DEF Due, OutSteps
  <2>3. CASE step \in InSteps
    <3>1. x[3] \in Mine /\ x[2] \in Predicates
      BY <2>3, KnownTriples DEF Suits
    <3>2. CASE k = <<0, x[2], OUT_>> /\ v = x[3]
      BY <3>1, <3>2, <2>0, KeyShapes, Ids, Zenon
    <3>3. CASE k = <<x[3], PREDICATE_ID, IN_>> /\ v = x[2]
      BY <3>1, <3>3, <2>0, KeyShapes, PredicatesAndTypes, Zenon
    <3>4. CASE step = "i3" /\ k = <<0, PREDICATE_ID, OUT_>> /\ v = x[2]
      BY <3>1, <3>4, <2>0, ListKeys, PredicatesAndTypes, Zenon DEF Suits, VersatileSteps
    <3>5. CASE step = "i5" /\ k = <<0, TYPE_ID, IN_>> /\ v = x[3]
      BY <3>1, <3>5, <2>0, ListKeys, Ids, Zenon DEF Suits, VersatileSteps
    <3> QED
      BY <2>3, <3>2, <3>3, <3>4, <3>5 DEF Due, InSteps
  <2> QED
    BY <2>1, <2>2, <2>3 DEF Due, TypeSteps, OutSteps, InSteps

\* The insertions into derived keys are those that are due, ...
<1>DerivedInsert.
    ASSUME NEW step \in DerivedSteps, NEW x
    PROVE  /\ Suits(step, x) => Due(step, x, Insert(step, x)[1], Insert(step, x)[2])
           /\ Insert(step, x) = <<Insert(step, x)[1], Insert(step, x)[2]>>
  <2>1. CASE step \in {"o2", "o3", "o4", "o5"}
    BY <2>1, ZenonT(30) DEF Insert, Due
  <2>2. CASE step \in {"o7", "o8", "o9", "o10"}
    BY <2>2, ZenonT(30) DEF Insert, Due, Suits, VersatileSteps
  <2>3. CASE step \in {"i2", "i3", "i4", "i5"}
    BY <2>3, Zenon DEF Insert, Due, Suits, VersatileSteps
  <2> QED
    BY <2>1, <2>2, <2>3 DEF DerivedSteps, InsertSteps, NormalSteps

\* ... and the others fill the normal keys.
<1>NormalInsert.
    ASSUME NEW step \in NormalSteps, NEW x \in Known, Suits(step, x)
    PROVE  /\ step \in {"o1", "o6"} => Insert(step, x) = <<<<x[1], x[2], OUT_>>, x[3]>>
           /\ step = "i1" => Insert(step, x) = <<<<x[3], x[2], IN_>>, x[1]>>
           /\ Insert(step, x)[1] \in NormalKeys /\ Insert(step, x)[2] \in Nat
  <2> USE <1>NormalInsert
  <2>1. CASE step = "o1"
    <3>1. x[1] \in Mine /\ x[2] = TYPE_ID /\ x[3] \in Types
      BY <2>1, KnownTriples DEF Suits, TypeSteps
    <3>2. Insert(step, x) = <<<<x[1], x[2], OUT_>>, x[3]>>
      BY <2>1, <3>1 DEF Insert
    <3>3. <<x[1], x[2], OUT_>> \in NormalKeys
      BY <3>1, KeyShapes, Zenon
    <3>4. x[3] \in Nat
      BY KnownTriples
    <3> QED
      BY <2>1, <3>2, <3>3, <3>4
  <2>2. CASE step = "o6"
    <3>1. x[1] \in Mine /\ x[2] \in Predicates
      BY <2>2, KnownTriples DEF Suits, OutSteps
    <3>2. Insert(step, x) = <<<<x[1], x[2], OUT_>>, x[3]>>
      BY <2>2, <3>1 DEF Insert
    <3>3. <<x[1], x[2], OUT_>> \in NormalKeys
      BY <3>1, KeyShapes, Zenon
    <3>4. x[3] \in Nat
      BY KnownTriples
    <3> QED
      BY <2>2, <3>2, <3>3, <3>4
  <2>3. CASE step = "i1"
    <3>1. x[3] \in Mine /\ x[2] \in Predicates
      BY <2>3, KnownTriples DEF Suits, InSteps
    <3>2. Insert(step, x) = <<<<x[3], x[2], IN_>>, x[1]>>
      BY <2>3, <3>1 DEF Insert
    <3>3. <<x[3], x[2], IN_>> \in NormalKeys
      BY <3>1, KeyShapes, Zenon
    <3>4. x[1] \in Nat
      BY KnownTriples
    <3> QED
      BY <2>3, <3>2, <3>3, <3>4
  <2> QED
    BY <2>1, <2>2, <2>3 DEF NormalSteps
<1>InsertKeys.
    ASSUME NEW step \in InsertSteps, NEW x \in Known, Suits(step, x)
    PROVE  Insert(step, x)[1] \in Keys /\ Insert(step, x)[2] \in Nat
  <2> USE <1>InsertKeys
  <2>1. CASE step \in NormalSteps
    BY <2>1, <1>NormalInsert DEF NormalKeys
  <2>2. CASE step \in DerivedSteps
    BY <2>2, <1>DerivedInsert, <1>DueKeys DEF DerivedKeys
  <2> QED
    BY <2>1, <2>2 DEF DerivedSteps

\* A call goes from one of its steps to another.
<1>AfterSuits.
    ASSUME NEW step, NEW x, Suits(step, x), NEW b \in BOOLEAN, NEW dup \in BOOLEAN
    PROVE  /\ step \in InsertSteps =>
                 /\ AfterInsert(step, b, dup) \in Steps \ (NormalSteps \cup {"idle"})
                 /\ Suits(AfterInsert(step, b, dup), x)
           /\ step \in CheckSteps =>
                 /\ AfterCheck(step, b) \in Steps \ (NormalSteps \cup {"idle"})
                 /\ Suits(AfterCheck(step, b), x)
  <2> USE <1>AfterSuits
  <2> USE Ids DEF AfterInsert, AfterCheck, Suits, VersatileSteps, Steps, NormalSteps,
                  TypeSteps, OutSteps, InSteps
  <2>1. CASE step \in {"o1", "o2", "o3", "o4", "o5", "c2"}
    BY <2>1 DEF InsertSteps, CheckSteps
  <2>2. CASE step \in {"o6", "o7", "c7", "o8", "o9", "c9", "o10"}
    BY <2>2 DEF InsertSteps, CheckSteps
  <2>3. CASE step \in {"i1", "i2", "d2", "i3", "i4", "d4", "i5"}
    BY <2>3 DEF InsertSteps, CheckSteps
  <2> QED
    BY <2>1, <2>2, <2>3, Zenon DEF InsertSteps, CheckSteps

\* An insertion into a derived key settles what was due.  The first vertex of
\* a type makes the type an entry of the list of types.
<1>DerivedAfter.
    ASSUME NEW step \in DerivedSteps, NEW x \in Known, Suits(step, x),
           NEW first \in BOOLEAN, NEW k, NEW v
    PROVE  Due(AfterInsert(step, first, FALSE), x, k, v) <=>
              \/ Due(step, x, k, v) /\ ~ (k = Insert(step, x)[1] /\ v = Insert(step, x)[2])
              \/ step = "o4" /\ first /\ Versatile /\ k = <<0, TYPE_ID, OUT_>> /\ v = x[3]
  <2> USE <1>DerivedAfter
  <2>1. CASE step \in {"o2", "o3", "o4", "o5"}
    <3>1. x[1] \in Mine /\ x[3] \in Types
      BY <2>1, KnownTriples DEF Suits, TypeSteps
    <3>2. x[1] # 0 /\ x[3] # TYPE_ID
      BY <3>1, Ids
    <3>3. CASE step = "o2"
      BY <3>2, <3>3 DEF Insert, AfterInsert, Due
    <3>4. CASE step = "o3"
      BY <3>2, <3>4 DEF Insert, AfterInsert, Due
    <3>5. CASE step = "o4"
      BY <3>2, <3>5, Ids DEF Insert, AfterInsert, Due
    <3>6. CASE step = "o5"
      BY <3>2, <3>6 DEF Insert, AfterInsert, Due
    <3> QED
      BY <2>1, <3>3, <3>4, <3>5, <3>6, Zenon
  <2>2. CASE step \in {"o7", "o8", "o9", "o10"}
    <3>1. x[1] \in Mine
      BY <2>2 DEF Suits, OutSteps
    <3>2. x[1] # 0
      BY <3>1, Ids
    <3>3. CASE step = "o7"
      BY <3>2, <3>3, Ids DEF Insert, AfterInsert, Due
    <3>4. CASE step = "o8"
      BY <3>2, <3>4 DEF Insert, AfterInsert, Due
    <3>5. CASE step = "o9"
      BY <3>2, <3>5 DEF Insert, AfterInsert, Due
    <3>6. CASE step = "o10"
      BY <3>2, <3>6 DEF Insert, AfterInsert, Due
    <3> QED
      BY <2>2, <3>3, <3>4, <3>5, <3>6, Zenon
  <2>3. CASE step \in {"i2", "i3", "i4", "i5"}
    <3>1. x[3] \in Mine
      BY <2>3 DEF Suits, InSteps
    <3>2. x[3] # 0
      BY <3>1, Ids
    <3>3. CASE step = "i2"
      BY <3>2, <3>3, Ids DEF Insert, AfterInsert, Due
    <3>4. CASE step = "i3"
      BY <3>2, <3>4 DEF Insert, AfterInsert, Due
    <3>5. CASE step = "i4"
      BY <3>2, <3>5 DEF Insert, AfterInsert, Due
    <3>6. CASE step = "i5"
      BY <3>2, <3>6 DEF Insert, AfterInsert, Due
    <3> QED
      BY <2>3, <3>3, <3>4, <3>5, <3>6, Zenon
  <2> QED
    BY <2>1, <2>2, <2>3, Zenon DEF DerivedSteps, InsertSteps, NormalSteps

\* What an insertion of a TYPE triple makes due; it makes no thread look at
\* a buddy key.
<1>TypeAfter.
    ASSUME NEW x, NEW first \in BOOLEAN, NEW dup \in BOOLEAN, first => ~ dup, NEW k, NEW v
    PROVE  Due(AfterInsert("o1", first, dup), x, k, v) <=>
              \/ ~ dup /\ k = <<0, x[3], IN_>> /\ v = x[1]
              \/ first /\ Versatile /\ k = <<x[1], PREDICATE_ID, OUT_>> /\ v = TYPE_ID
  BY <1>TypeAfter, Ids DEF AfterInsert, Due
<1>TypeUnchecked.
    ASSUME NEW x, NEW first \in BOOLEAN, NEW dup \in BOOLEAN, NEW k
    PROVE  ~ Checking(AfterInsert("o1", first, dup), x, k)
  BY Ids DEF AfterInsert, Checking

\* A thread looks at the buddy key after the first insertion into a key that
\* has one.
<1>CheckingAfter.
    ASSUME NEW step \in DerivedSteps, NEW x \in Known, Suits(step, x),
           NEW first \in BOOLEAN, NEW k
    PROVE  Checking(AfterInsert(step, first, FALSE), x, k) <=>
              first /\ k = Insert(step, x)[1] /\ k \in PairedKeys
  <2> USE <1>CheckingAfter
  <2> DEFINE next == AfterInsert(step, first, FALSE)
  <2>1. CASE step \in {"o2", "o3", "o4", "o5"}
    <3>1. x[1] \in Mine /\ x[3] \in Types
      BY <2>1, KnownTriples DEF Suits, TypeSteps
    <3>2. CASE step = "o2"
      <4>1. Insert(step, x)[1] = <<x[1], PREDICATE_ID, OUT_>> /\ <<x[1], PREDICATE_ID, OUT_>> \in PairedKeys
        BY <3>1, <3>2, PairedVertex, Zenon DEF Insert
      <4> QED
        BY <3>2, <4>1 DEF AfterInsert, Checking
    <3>3. CASE step \in {"o3", "o4", "o5"}
      <4>1. Insert(step, x)[1] \in {<<0, TYPE_ID, IN_>>, <<0, x[3], IN_>>, <<0, TYPE_ID, OUT_>>}
        BY <3>3 DEF Insert
      <4>2. Insert(step, x)[1] \notin PairedKeys
        BY <3>1, <4>1, Ids DEF PairedKeys
      <4>3. ~ Checking(next, x, k)
        BY <3>3 DEF AfterInsert, Checking
      <4> QED
        BY <4>2, <4>3, Zenon
    <3> QED
      BY <2>1, <3>2, <3>3, Zenon
  <2>2. CASE step \in {"o7", "o8", "o9", "o10"}
    <3>1. x[1] \in Mine /\ x[2] \in Predicates
      BY <2>2, KnownTriples DEF Suits, OutSteps
    <3>2. CASE step = "o7"
      <4>1. Insert(step, x)[1] = <<0, x[2], IN_>> /\ <<0, x[2], IN_>> \in PairedKeys
        BY <3>1, <3>2, PairedPredicate, Zenon DEF Insert
      <4> QED
        BY <3>2, <4>1 DEF AfterInsert, Checking
    <3>3. CASE step = "o9"
      <4>1. Insert(step, x)[1] = <<x[1], PREDICATE_ID, OUT_>> /\ <<x[1], PREDICATE_ID, OUT_>> \in PairedKeys
        BY <3>1, <3>3, PairedVertex, Zenon DEF Insert
      <4> QED
        BY <3>3, <4>1 DEF AfterInsert, Checking
    <3>4. CASE step \in {"o8", "o10"}
      <4>1. Insert(step, x)[1] \in {<<0, TYPE_ID, IN_>>, <<0, PREDICATE_ID, OUT_>>}
        BY <3>4 DEF Insert
      <4>2. Insert(step, x)[1] \notin PairedKeys
        BY <4>1, Ids DEF PairedKeys
      <4>3. ~ Checking(next, x, k)
        BY <3>4 DEF AfterInsert, Checking
      <4> QED
        BY <4>2, <4>3, Zenon
    <3> QED
      BY <2>2, <3>2, <3>3, <3>4, Zenon
  <2>3. CASE step \in {"i2", "i3", "i4", "i5"}
    <3>1. x[3] \in Mine /\ x[2] \in Predicates
      BY <2>3, KnownTriples DEF Suits, InSteps
    <3>2. CASE step = "i2"
      <4>1. Insert(step, x)[1] = <<0, x[2], OUT_>> /\ <<0, x[2], OUT_>> \in PairedKeys
        BY <3>1, <3>2, PairedPredicate, Zenon DEF Insert
      <4> QED
        BY <3>2, <4>1 DEF AfterInsert, Checking
    <3>3. CASE step = "i4"
      <4>1. Insert(step, x)[1] = <<x[3], PREDICATE_ID, IN_>> /\ <<x[3], PREDICATE_ID, IN_>> \in PairedKeys
        BY <3>1, <3>3, PairedVertex, Zenon DEF Insert
      <4> QED
        BY <3>3, <4>1 DEF AfterInsert, Checking
    <3>4. CASE step \in {"i3", "i5"}
      <4>1. Insert(step, x)[1] \in {<<0, TYPE_ID, IN_>>, <<0, PREDICATE_ID, OUT_>>}
        BY <3>4 DEF Insert
      <4>2. Insert(step, x)[1] \notin PairedKeys
        BY <4>1, Ids DEF PairedKeys
      <4>3. ~ Checking(next, x, k)
        BY <3>4 DEF AfterInsert, Checking
      <4> QED
        BY <4>2, <4>3, Zenon
    <3> QED
      BY <2>3, <3>2, <3>3, <3>4, Zenon
  <2> QED
    BY <2>1, <2>2, <2>3, Zenon DEF DerivedSteps, InsertSteps, NormalSteps

\* The check of the buddy key makes an entry of the list due, or not.
<1>CheckAfter.
    ASSUME NEW step \in CheckSteps, NEW x \in Known, Suits(step, x), NEW found \in BOOLEAN
    PROVE  \E key \in PairedKeys :
              /\ \A k : Checking(step, x, k) <=> k = key
              /\ Buddy(step, x) = Flip(key)
              /\ \A k : ~ Checking(AfterCheck(step, found), x, k)
              /\ \A k, v : Due(AfterCheck(step, found), x, k, v) <=>
                    \/ Due(step, x, k, v)
                    \/ ~ found /\ Versatile /\ k = ListOf(key) /\ v = EntryOf(key)
  <2> USE <1>CheckAfter
  <2>1. CASE step \in {"c2", "c9"}
    <3> DEFINE key == <<x[1], PREDICATE_ID, OUT_>>
    <3>1. x[1] \in Mine /\ Versatile
      BY <2>1 DEF Suits, TypeSteps, OutSteps, VersatileSteps
    <3>2. key \in PairedKeys /\ Buddy(step, x) = Flip(key)
      BY <2>1, <3>1, PairedVertex, Opposites DEF Buddy
    <3>3. ListOf(key) = <<0, TYPE_ID, IN_>> /\ EntryOf(key) = x[1]
      BY <3>1, PairedVertex, Zenon
    <3>4. \A k : /\ Checking(step, x, k) <=> k = key
                 /\ ~ Checking(AfterCheck(step, found), x, k)
      BY <2>1 DEF Checking, AfterCheck
    <3> HIDE DEF key
    <3>5. \A k, v : Due(AfterCheck(step, found), x, k, v) <=>
                      \/ Due(step, x, k, v)
                      \/ ~ found /\ Versatile /\ k = ListOf(key) /\ v = EntryOf(key)
      BY <2>1, <3>1, <3>3 DEF AfterCheck, Due
    <3> QED
      BY <3>2, <3>4, <3>5
  <2>2. CASE step = "d4"
    <3> DEFINE key == <<x[3], PREDICATE_ID, IN_>>
    <3>1. x[3] \in Mine /\ Versatile
      BY <2>2 DEF Suits, InSteps, VersatileSteps
    <3>2. key \in PairedKeys /\ Buddy(step, x) = Flip(key)
      BY <2>2, <3>1, PairedVertex, Opposites, Zenon DEF Buddy
    <3>3. ListOf(key) = <<0, TYPE_ID, IN_>> /\ EntryOf(key) = x[3]
      BY <3>1, PairedVertex, Zenon
    <3>4. \A k : /\ Checking(step, x, k) <=> k = key
                 /\ ~ Checking(AfterCheck(step, found), x, k)
      BY <2>2 DEF Checking, AfterCheck
    <3> HIDE DEF key
    <3>5. \A k, v : Due(AfterCheck(step, found), x, k, v) <=>
                      \/ Due(step, x, k, v)
                      \/ ~ found /\ Versatile /\ k = ListOf(key) /\ v = EntryOf(key)
      BY <2>2, <3>1, <3>3 DEF AfterCheck, Due
    <3> QED
      BY <3>2, <3>4, <3>5
  <2>3. CASE step = "c7"
    <3> DEFINE key == <<0, x[2], IN_>>
    <3>1. x[2] \in Predicates
      BY <2>3, KnownTriples DEF Suits, OutSteps
    <3>2. key \in PairedKeys /\ Buddy(step, x) = Flip(key)
      BY <2>3, <3>1, PairedPredicate, Opposites, Zenon DEF Buddy
    <3>3. ListOf(key) = <<0, PREDICATE_ID, OUT_>> /\ EntryOf(key) = x[2]
      BY <3>1, PairedPredicate, Zenon
    <3>4. \A k : /\ Checking(step, x, k) <=> k = key
                 /\ ~ Checking(AfterCheck(step, found), x, k)
      BY <2>3, Ids DEF Checking, AfterCheck
    <3> HIDE DEF key
    <3>5. \A k, v : Due(AfterCheck(step, found), x, k, v) <=>
                      \/ Due(step, x, k, v)
                      \/ ~ found /\ Versatile /\ k = ListOf(key) /\ v = EntryOf(key)
      BY <2>3, <3>3, Ids DEF AfterCheck, Due
    <3> QED
      BY <3>2, <3>4, <3>5
  <2>4. CASE step = "d2"
    <3> DEFINE key == <<0, x[2], OUT_>>
    <3>1. x[2] \in Predicates
      BY <2>4, KnownTriples DEF Suits, InSteps
    <3>2. key \in PairedKeys /\ Buddy(step, x) = Flip(key)
      BY <2>4, <3>1, PairedPredicate, Opposites, Zenon DEF Buddy
    <3>3. ListOf(key) = <<0, PREDICATE_ID, OUT_>> /\ EntryOf(key) = x[2]
      BY <3>1, PairedPredicate, Zenon
    <3>4. \A k : /\ Checking(step, x, k) <=> k = key
                 /\ ~ Checking(AfterCheck(step, found), x, k)
      BY <2>4, Ids DEF Checking, AfterCheck
    <3> HIDE DEF key
    <3>5. \A k, v : Due(AfterCheck(step, found), x, k, v) <=>
                      \/ Due(step, x, k, v)
                      \/ ~ found /\ Versatile /\ k = ListOf(key) /\ v = EntryOf(key)
      BY <2>4, <3>3, Ids DEF AfterCheck, Due
    <3> QED
      BY <3>2, <3>4, <3>5
  <2> QED
    BY <2>1, <2>2, <2>3, <2>4 DEF CheckSteps
<1>CurrentTriple.
    ASSUME TypeInv, ThreadInv, NEW t \in Threads, pc[t] # "idle"
    PROVE  Current(t) \in All /\ Current(t) \in Known /\ Suits(pc[t], Current(t))
  <2> USE <1>CurrentTriple
  <2>1. todo[t] # <<>> /\ todo[t] \in Seq({"triple_out", "triple_in"} \X All)
    BY DEF TypeInv, ThreadInv
  <2>2. todo[t][1] \in {"triple_out", "triple_in"} \X All
    BY <2>1
  <2> QED
    BY <2>2, AllKnown DEF Current, ThreadInv, TypeInv

\* Where a thread is after a step of its call.
<1>GotoStep.
    ASSUME TypeInv, ThreadInv, NEW t \in Threads, pc[t] # "idle",
           NEW step \in Steps \ (NormalSteps \cup {"idle"}), Suits(step, Current(t)),
           Goto(t, step), files' = files
    PROVE  /\ todo' \in [Threads -> CallsOf(All)] /\ pc' \in [Threads -> Steps]
           /\ \A u \in Threads \ {t} : pc'[u] = pc[u] /\ todo'[u] = todo[u]
           /\ pc'[t] = "idle" <=> todo'[t] = <<>>
           /\ Suits(pc'[t], Current(t)')
           /\ \A k, v : DueOf(t, k, v)' <=> Due(step, Current(t), k, v)
           /\ \A k : ChecksOf(t, k)' <=> Checking(step, Current(t), k)
           /\ \A x \in All : \A i \in 2 .. Len(todo[t]) :
                 /\ todo[t][i] = <<"triple_out", x>> /\ x[1] \in Mine => OutPending(t, x)'
                 /\ todo[t][i] = <<"triple_in", x>> /\ x[3] \in Mine /\ x[2] # TYPE_ID => InPending(t, x)'
  <2> USE <1>GotoStep
  <2>1. /\ todo \in [Threads -> CallsOf(All)] /\ pc \in [Threads -> Steps]
        /\ todo[t] \in CallsOf(All) /\ todo[t] # <<>>
    BY DEF TypeInv, ThreadInv, CallsOf
  <2>2. CASE step = "end"
    <3> DEFINE rest == Tail(todo[t])
    <3>1. rest \in CallsOf(All) /\ Len(rest) = Len(todo[t]) - 1
          /\ \A i \in 2 .. Len(todo[t]) : i - 1 \in 1 .. Len(rest) /\ rest[i - 1] = todo[t][i]
      BY <2>1 DEF CallsOf
    <3>2. /\ todo' = [todo EXCEPT ![t] = rest]
          /\ pc' = [pc EXCEPT ![t] = Start(rest)]
      BY <2>2 DEF Goto
    <3> HIDE DEF rest
    <3>3. Start(rest) \in Steps
      BY <3>1, Starts DEF Steps, NormalSteps, TypeSteps, OutSteps, InSteps
    <3>4. todo'[t] = rest /\ pc'[t] = Start(rest) /\ Current(t)' = rest[1][2]
      BY <2>1, <3>2 DEF Current
    <3>5. \A k, v : ~ Due(step, Current(t), k, v) /\ ~ Checking(step, Current(t), k)
      BY <2>2, NoDue
    <3>6. \A k, v : ~ DueOf(t, k, v)' /\ ~ ChecksOf(t, k)'
      BY <3>1, <3>4, NoDue, Starts, Zenon DEF DueOf, ChecksOf
    <3>7. ASSUME NEW x \in All, NEW i \in 2 .. Len(todo[t])
          PROVE  /\ todo[t][i] = <<"triple_out", x>> /\ x[1] \in Mine => OutPending(t, x)'
                 /\ todo[t][i] = <<"triple_in", x>> /\ x[3] \in Mine /\ x[2] # TYPE_ID => InPending(t, x)'
      <4>1. rest[i - 1] = todo[t][i] /\ i - 1 \in 1 .. Len(rest)
        BY <3>1
      <4>2. CASE i = 2
        <5>1. rest[1] = todo[t][i] /\ rest # <<>>
          BY <4>1, <4>2, <3>1 DEF CallsOf
        <5>2. \A a : rest[1] = <<a, x>> => rest[1][2] = x
          OBVIOUS
        <5> QED
          BY <5>1, <5>2, <3>1, <3>4, Starts DEF OutPending, InPending
      <4>3. CASE i # 2
        <5>1. i - 1 \in 2 .. Len(todo'[t]) /\ todo'[t][i - 1] = todo[t][i]
          BY <4>1, <4>3, <3>1, <3>4
        <5> QED
          BY <5>1 DEF OutPending, InPending
      <4> QED
        BY <4>2, <4>3
    <3>8. Suits(pc'[t], Current(t)') /\ (pc'[t] = "idle" <=> todo'[t] = <<>>)
      BY <3>1, <3>4, Starts
    <3>9. todo' \in [Threads -> CallsOf(All)] /\ pc' \in [Threads -> Steps]
      BY <2>1, <3>1, <3>2, <3>3
    <3>10. \A u \in Threads \ {t} : pc'[u] = pc[u] /\ todo'[u] = todo[u]
      BY <2>1, <3>2
    <3> QED
      BY <3>5, <3>6, <3>7, <3>8, <3>9, <3>10
  <2>3. CASE step # "end"
    <3>1. pc' = [pc EXCEPT ![t] = step] /\ todo' = todo
      BY <2>3 DEF Goto
    <3>2. pc'[t] = step /\ Current(t)' = Current(t) /\ todo'[t] = todo[t]
      BY <2>1, <3>1 DEF Current
    <3>3. \A k, v : DueOf(t, k, v)' <=> Due(step, Current(t), k, v)
      BY <3>2 DEF DueOf
    <3>4. \A k : ChecksOf(t, k)' <=> Checking(step, Current(t), k)
      BY <3>2 DEF ChecksOf
    <3>5. \A x \in All : \A i \in 2 .. Len(todo[t]) :
                /\ todo[t][i] = <<"triple_out", x>> => OutPending(t, x)'
                /\ todo[t][i] = <<"triple_in", x>> => InPending(t, x)'
      BY <3>2 DEF OutPending, InPending
    <3>6. Suits(pc'[t], Current(t)') /\ (pc'[t] = "idle" <=> todo'[t] = <<>>)
      BY <2>1, <3>2
    <3>7. todo' \in [Threads -> CallsOf(All)] /\ pc' \in [Threads -> Steps]
      BY <2>1, <3>1
    <3>8. \A u \in Threads \ {t} : pc'[u] = pc[u] /\ todo'[u] = todo[u]
      BY <2>1, <3>1
    <3> QED
      BY <3>3, <3>4, <3>5, <3>6, <3>7, <3>8
  <2> QED
    BY <2>2, <2>3
<1>Appended.
    ASSUME NEW s \in Seq(Nat), NEW v \in Nat
    PROVE  /\ Append(s, v) \in Seq(Nat) /\ Append(s, v) # <<>>
           /\ Range(Append(s, v)) = Range(s) \cup {v}
           /\ IsInjective(s) /\ v \notin Range(s) => IsInjective(Append(s, v))
  <2> DEFINE a == Append(s, v)
  <2>1. /\ a \in Seq(Nat) /\ Len(a) = Len(s) + 1 /\ a[Len(s) + 1] = v
        /\ \A i \in 1 .. Len(s) : a[i] = s[i]
        /\ DOMAIN a = 1 .. Len(s) + 1 /\ DOMAIN s = 1 .. Len(s) /\ Len(s) \in Nat
    OBVIOUS
  <2> HIDE DEF a
  <2>2. a # <<>>
    BY <2>1
  <2>3. Range(a) = Range(s) \cup {v}
    <3>1. ASSUME NEW y \in Range(a) PROVE y \in Range(s) \cup {v}
      <4>1. PICK i \in 1 .. Len(s) + 1 : y = a[i]
        BY <2>1 DEF Range
      <4>2. i \in 1 .. Len(s) \/ i = Len(s) + 1
        BY <2>1
      <4> QED
        BY <2>1, <4>1, <4>2, Zenon DEF Range
    <3>2. ASSUME NEW i \in 1 .. Len(s) PROVE s[i] \in Range(a)
      <4>1. i \in 1 .. Len(s) + 1 /\ a[i] = s[i]
        BY <2>1
      <4> QED
        BY <2>1, <4>1, Zenon DEF Range
    <3>3. v \in Range(a)
      <4>1. Len(s) + 1 \in 1 .. Len(s) + 1
        BY <2>1
      <4> QED
        BY <2>1, <4>1 DEF Range
    <3> QED
      BY <2>1, <3>1, <3>2, <3>3, Zenon DEF Range
  <2>4. ASSUME IsInjective(s), v \notin Range(s), NEW i \in DOMAIN a, NEW j \in DOMAIN a, a[i] = a[j]
        PROVE  i = j
    <3>1. i \in 1 .. Len(s) => s[i] \in Range(s) /\ a[i] = s[i]
      BY <2>1 DEF Range
    <3>2. j \in 1 .. Len(s) => s[j] \in Range(s) /\ a[j] = s[j]
      BY <2>1 DEF Range
    <3>3. i \in 1 .. Len(s) /\ j \in 1 .. Len(s) => i = j
      BY <2>1, <2>4, <3>1, <3>2 DEF IsInjective
    <3> QED
      BY <2>1, <2>4, <3>1, <3>2, <3>3
  <2>5. IsInjective(s) /\ v \notin Range(s) => IsInjective(a)
    BY <2>4 DEF IsInjective
  <2> QED
    BY <2>1, <2>2, <2>3, <2>5 DEF a

\* What insert_vertex_edge does to the values of its key.
<1>EdgeStep.
    ASSUME TypeInv, ThreadInv, NEW t \in Threads, insert_vertex_edge(t)
    PROVE  /\ pc[t] \in InsertSteps /\ pc[t] # "idle"
           /\ KeyAt(t) \in Keys /\ ValueAt(t) \in Nat /\ KeyAt(t) \in exists
           /\ FirstAt(t) \in BOOLEAN /\ DupAt(t) \in BOOLEAN /\ (FirstAt(t) => ~ DupAt(t))
           /\ kv' \in [Keys -> Seq(Nat)]
           /\ \A k \in Keys \ {KeyAt(t)} : kv'[k] = kv[k]
           /\ kv'[KeyAt(t)] = IF DupAt(t) THEN kv[KeyAt(t)] ELSE Append(kv[KeyAt(t)], ValueAt(t))
           /\ half' = [half EXCEPT ![t] = FALSE] /\ Goto(t, NextAt(t))
           /\ UNCHANGED <<check_dup, files, exists>>
  <2> USE <1>EdgeStep
  <2>1. half[t] /\ pc[t] \in InsertSteps /\ KeyAt(t) \in exists
    BY DEF insert_vertex_edge, ThreadInv, KeyAt
  <2>2. pc[t] # "idle"
    BY <2>1 DEF InsertSteps
  <2>3. KeyAt(t) \in Keys /\ ValueAt(t) \in Nat
    BY <2>1, <2>2, <1>CurrentTriple, <1>InsertKeys DEF KeyAt, ValueAt
  <2>4. kv \in [Keys -> Seq(Nat)] /\ kv[KeyAt(t)] \in Seq(Nat)
    BY <2>3, Zenon DEF TypeInv
  <2>5. /\ kv' = IF DupAt(t) THEN kv ELSE [kv EXCEPT ![KeyAt(t)] = Append(@, ValueAt(t))]
        /\ half' = [half EXCEPT ![t] = FALSE] /\ Goto(t, NextAt(t))
        /\ UNCHANGED <<check_dup, files, exists>>
    BY DEF insert_vertex_edge, KeyAt, ValueAt, FirstAt, DupAt, NextAt
  <2>6. FirstAt(t) \in BOOLEAN /\ DupAt(t) \in BOOLEAN /\ (FirstAt(t) => ~ DupAt(t))
    BY DEF FirstAt, DupAt
  <2>7. Append(kv[KeyAt(t)], ValueAt(t)) \in Seq(Nat)
    BY <2>3, <2>4, <1>Appended
  <2> QED
    BY <2>1, <2>2, <2>3, <2>4, <2>5, <2>6, <2>7, Zenon
<1>EdgeFixed.
    ASSUME TypeInv, ThreadInv, NEW t \in Threads, insert_vertex_edge(t)
    PROVE  Threads' = Threads /\ All' = All /\ check_dup' = check_dup
  <2> USE <1>EdgeFixed
  <2>1. files' = files /\ check_dup' = check_dup
    BY <1>EdgeStep
  <2>2. Threads' = Threads
    BY <2>1 DEF Threads
  <2>3. All' = All
    BY <2>1, <2>2 DEF All
  <2> QED
    BY <2>1, <2>2, <2>3
<1>NextSuits.
    ASSUME TypeInv, ThreadInv, NEW t \in Threads, insert_vertex_edge(t)
    PROVE  NextAt(t) \in Steps \ (NormalSteps \cup {"idle"}) /\ Suits(NextAt(t), Current(t))
  <2> USE <1>NextSuits
  <2>1. FirstAt(t) \in BOOLEAN /\ DupAt(t) \in BOOLEAN /\ pc[t] \in InsertSteps /\ pc[t] # "idle"
    BY <1>EdgeStep
  <2>2. Current(t) \in Known /\ Suits(pc[t], Current(t))
    BY <2>1, <1>CurrentTriple
  <2> QED
    BY <2>1, <2>2, <1>AfterSuits DEF NextAt
<1>EdgeValues.
    ASSUME TypeInv, ThreadInv, NEW t \in Threads, insert_vertex_edge(t)
    PROVE  /\ \A k \in Keys : \A v : Has(k, v)' <=> Has(k, v) \/ (k = KeyAt(t) /\ v = ValueAt(t))
           /\ \A k \in Keys : kv'[k] # <<>> <=> kv[k] # <<>> \/ k = KeyAt(t)
  <2> USE <1>EdgeValues
  <2>1. /\ KeyAt(t) \in Keys /\ ValueAt(t) \in Nat /\ kv[KeyAt(t)] \in Seq(Nat)
        /\ \A k \in Keys \ {KeyAt(t)} : kv'[k] = kv[k]
        /\ kv'[KeyAt(t)] = IF DupAt(t) THEN kv[KeyAt(t)] ELSE Append(kv[KeyAt(t)], ValueAt(t))
    BY <1>EdgeStep DEF TypeInv
  <2>2. CASE DupAt(t)
    BY <2>1, <2>2 DEF DupAt, FirstAt, Has
  <2>3. CASE ~ DupAt(t)
    <3>1. /\ kv'[KeyAt(t)] # <<>>
          /\ Range(kv'[KeyAt(t)]) = Range(kv[KeyAt(t)]) \cup {ValueAt(t)}
      BY <2>1, <2>3, <1>Appended
    <3> QED
      BY <2>1, <3>1, Zenon DEF Has
  <2> QED
    BY <2>2, <2>3

\* The dues and the checks after an insertion.
<1>EdgeDues.
    ASSUME TypeInv, ThreadInv, NEW t \in Threads, insert_vertex_edge(t)
    PROVE  /\ \A k, v : DueOf(t, k, v)' <=>
                 (DueOf(t, k, v) /\ ~ (k = KeyAt(t) /\ v = ValueAt(t))) \/ MadeDue(t, k, v)
           /\ \A k : ChecksOf(t, k)' <=> FirstAt(t) /\ k = KeyAt(t) /\ k \in PairedKeys
           /\ \A u \in Threads \ {t} : \A k, v :
                 (DueOf(u, k, v)' <=> DueOf(u, k, v)) /\ (ChecksOf(u, k)' <=> ChecksOf(u, k))
           /\ KeyAt(t) \in DerivedKeys => DueOf(t, KeyAt(t), ValueAt(t)) /\ pc[t] \in DerivedSteps
           /\ pc[t] \in DerivedSteps => KeyAt(t) \in DerivedKeys
  <2> USE <1>EdgeDues
  <2> DEFINE x == Current(t)
  <2>1. x \in Known /\ Suits(pc[t], x) /\ pc[t] # "idle" /\ pc[t] \in InsertSteps
    BY <1>EdgeStep, <1>CurrentTriple
  <2>2. FirstAt(t) \in BOOLEAN /\ DupAt(t) \in BOOLEAN /\ (FirstAt(t) => ~ DupAt(t))
    BY <1>EdgeStep
  <2>3. NextAt(t) \in Steps \ (NormalSteps \cup {"idle"}) /\ Suits(NextAt(t), x)
    BY <1>NextSuits, Zenon
  <2>4. /\ \A k, v : DueOf(t, k, v)' <=> Due(NextAt(t), x, k, v)
        /\ \A k : ChecksOf(t, k)' <=> Checking(NextAt(t), x, k)
        /\ \A u \in Threads \ {t} : pc'[u] = pc[u] /\ todo'[u] = todo[u]
    BY <2>1, <2>3, <1>GotoStep, <1>EdgeStep
  <2>5. \A u \in Threads \ {t} : \A k, v :
           (DueOf(u, k, v)' <=> DueOf(u, k, v)) /\ (ChecksOf(u, k)' <=> ChecksOf(u, k))
    BY <2>4, Zenon DEF DueOf, ChecksOf, Current
  <2>6. CASE pc[t] \in DerivedSteps
    <3>1. ~ DupAt(t) /\ pc[t] \notin NormalSteps
      BY <2>6 DEF DupAt, dedup, DerivedSteps, NormalSteps
    <3>2. NextAt(t) = AfterInsert(pc[t], FirstAt(t), FALSE)
      BY <2>2, <3>1, Zenon DEF NextAt
    <3>3. Due(pc[t], x, KeyAt(t), ValueAt(t))
      BY <2>1, <2>6, <1>DerivedInsert DEF KeyAt, ValueAt
    <3>4. KeyAt(t) \in DerivedKeys
      BY <2>1, <3>3, <1>DueKeys
    <3>5. \A k, v : Due(NextAt(t), x, k, v) <=>
             \/ Due(pc[t], x, k, v) /\ ~ (k = KeyAt(t) /\ v = ValueAt(t))
             \/ pc[t] = "o4" /\ FirstAt(t) /\ Versatile /\ k = <<0, TYPE_ID, OUT_>> /\ v = x[3]
      <4> TAKE k, v
      <4>1. CASE FirstAt(t)
        <5>1. NextAt(t) = AfterInsert(pc[t], TRUE, FALSE)
          BY <2>2, <3>2, <4>1
        <5>2. Due(AfterInsert(pc[t], TRUE, FALSE), x, k, v) <=>
                \/ Due(pc[t], x, k, v) /\ ~ (k = Insert(pc[t], x)[1] /\ v = Insert(pc[t], x)[2])
                \/ pc[t] = "o4" /\ TRUE /\ Versatile /\ k = <<0, TYPE_ID, OUT_>> /\ v = x[3]
          <6> HIDE DEF x
          <6> QED
            BY <2>1, <2>6, <1>DerivedAfter, Zenon
        <5> QED
          BY <4>1, <5>1, <5>2, Zenon DEF KeyAt, ValueAt
      <4>2. CASE ~ FirstAt(t)
        <5>1. NextAt(t) = AfterInsert(pc[t], FALSE, FALSE)
          BY <2>2, <3>2, <4>2, Zenon
        <5>2. Due(AfterInsert(pc[t], FALSE, FALSE), x, k, v) <=>
                \/ Due(pc[t], x, k, v) /\ ~ (k = Insert(pc[t], x)[1] /\ v = Insert(pc[t], x)[2])
                \/ pc[t] = "o4" /\ FALSE /\ Versatile /\ k = <<0, TYPE_ID, OUT_>> /\ v = x[3]
          <6> HIDE DEF x
          <6> QED
            BY <2>1, <2>6, <1>DerivedAfter, Zenon
        <5> QED
          BY <4>2, <5>1, <5>2, Zenon DEF KeyAt, ValueAt
      <4> QED
        BY <4>1, <4>2
    <3>6. \A k, v : MadeDue(t, k, v) <=>
             pc[t] = "o4" /\ FirstAt(t) /\ Versatile /\ k = <<0, TYPE_ID, OUT_>> /\ v = x[3]
      BY <3>1 DEF MadeDue, NormalSteps
    <3>7. \A k : Checking(NextAt(t), x, k) <=> FirstAt(t) /\ k = KeyAt(t) /\ k \in PairedKeys
      BY <2>1, <2>2, <2>6, <3>2, <1>CheckingAfter, Zenon DEF KeyAt
    <3> HIDE DEF x
    <3> QED
      BY <2>4, <2>5, <2>6, <3>3, <3>4, <3>5, <3>6, <3>7 DEF DueOf, x
  <2>7. CASE pc[t] \in NormalSteps
    <3>1. KeyAt(t) \in NormalKeys /\ KeyAt(t) \notin DerivedKeys /\ KeyAt(t) \notin PairedKeys
      <4>1. KeyAt(t) \in NormalKeys
        BY <2>1, <2>7, <1>NormalInsert DEF KeyAt
      <4> QED
        BY <4>1 DEF NormalKeys, DerivedKeys, PairedKeys
    <3>2. \A k, v : ~ DueOf(t, k, v)
      BY <2>7, NoDue DEF DueOf
    <3>3. \A k, v : ~ Checking(NextAt(t), x, k) /\ (Due(NextAt(t), x, k, v) <=> MadeDue(t, k, v))
      <4> TAKE k, v
      <4>1. CASE pc[t] = "o1"
        <5>1. MadeDue(t, k, v) <=>
                 \/ ~ DupAt(t) /\ k = <<0, x[3], IN_>> /\ v = x[1]
                 \/ FirstAt(t) /\ Versatile /\ k = <<x[1], PREDICATE_ID, OUT_>> /\ v = TYPE_ID
          BY <4>1 DEF MadeDue
        <5>2. NextAt(t) = AfterInsert("o1", FirstAt(t), DupAt(t))
          BY <4>1, Zenon DEF NextAt
        <5>3. ~ Checking(NextAt(t), x, k)
          BY <2>2, <5>2, <1>TypeUnchecked, Zenon
        <5>4. Due(AfterInsert("o1", FirstAt(t), DupAt(t)), x, k, v) <=> MadeDue(t, k, v)
          <6> HIDE DEF x
          <6> QED
            BY <2>2, <5>1, <1>TypeAfter
        <5> QED
          BY <5>2, <5>3, <5>4
      <4>2. CASE pc[t] = "o6"
        <5>1. MadeDue(t, k, v) <=>
                 \/ FirstAt(t) /\ k = <<0, x[2], IN_>> /\ v = x[1]
                 \/ FirstAt(t) /\ Versatile /\ k = <<x[1], PREDICATE_ID, OUT_>> /\ v = x[2]
          BY <4>2 DEF MadeDue
        <5>2. CASE FirstAt(t)
          <6>1. NextAt(t) = AfterInsert(pc[t], TRUE, FALSE)
            BY <2>2, <5>2, Zenon DEF NextAt
          <6>2. NextAt(t) = "o7"
            BY <4>2, <6>1 DEF AfterInsert
          <6> QED
            BY <5>1, <5>2, <6>2 DEF Due, Checking
        <5>3. CASE ~ FirstAt(t)
          <6>1. NextAt(t) = AfterInsert(pc[t], FALSE, DupAt(t))
            BY <2>2, <5>3, Zenon DEF NextAt
          <6>2. NextAt(t) = "end"
            BY <4>2, <6>1 DEF AfterInsert
          <6> QED
            BY <5>1, <5>3, <6>2, NoDue
        <5> QED
          BY <5>2, <5>3
      <4>3. CASE pc[t] = "i1"
        <5>1. MadeDue(t, k, v) <=>
                 \/ FirstAt(t) /\ k = <<0, x[2], OUT_>> /\ v = x[3]
                 \/ FirstAt(t) /\ Versatile /\ k = <<x[3], PREDICATE_ID, IN_>> /\ v = x[2]
          BY <4>3 DEF MadeDue
        <5>2. CASE FirstAt(t)
          <6>1. NextAt(t) = AfterInsert(pc[t], TRUE, FALSE)
            BY <2>2, <5>2, Zenon DEF NextAt
          <6>2. NextAt(t) = "i2"
            BY <4>3, <6>1 DEF AfterInsert
          <6> QED
            BY <5>1, <5>2, <6>2 DEF Due, Checking
        <5>3. CASE ~ FirstAt(t)
          <6>1. NextAt(t) = AfterInsert(pc[t], FALSE, DupAt(t))
            BY <2>2, <5>3, Zenon DEF NextAt
          <6>2. NextAt(t) = "end"
            BY <4>3, <6>1 DEF AfterInsert
          <6> QED
            BY <5>1, <5>3, <6>2, NoDue
        <5> QED
          BY <5>2, <5>3
      <4> QED
        BY <2>7, <4>1, <4>2, <4>3 DEF NormalSteps
    <3> QED
      BY <2>4, <2>5, <2>7, <3>1, <3>2, <3>3 DEF DerivedSteps
  <2> QED
    BY <2>1, <2>6, <2>7 DEF DerivedSteps
<1>CauseStep.
    ASSUME NEW g, NEW h, NEW key, NEW val,
           \A k \in Keys : h[k] # <<>> <=> g[k] # <<>> \/ k = key,
           \A k \in Keys : \A v : v \in Range(h[k]) <=> v \in Range(g[k]) \/ (k = key /\ v = val),
           NEW k \in Keys, NEW v
    PROVE  CauseOf(h, k, v) <=> CauseOf(g, k, v) \/ Causes(key, val, k, v)
  <2> USE <1>CauseStep
  <2>1. k[1] \in Mine \cup {0} /\ k[2] \in Pids /\ k[3] \in {IN_, OUT_} /\ Opposite(k[3]) \in {IN_, OUT_}
    BY KeyForm, Opposites
  <2>2. v \in Mine /\ k[2] \in Predicates => <<v, k[2], Opposite(k[3])>> \in Keys
    BY <2>1, KeyOf, Zenon
  <2>3. v \in Mine => <<v, TYPE_ID, OUT_>> \in Keys
    BY KeyOf, Zenon DEF Pids
  <2>4. v \in Predicates \cup {TYPE_ID} => <<k[1], v, k[3]>> \in Keys
    BY <2>1, KeyOf, Zenon DEF Pids
  <2>5. v \in Types => <<0, v, IN_>> \in Keys
    BY KeyOf, Zenon DEF Pids
  <2> QED
    BY <2>2, <2>3, <2>4, <2>5, Zenon DEF CauseOf, Causes

\* The keys that cause entries, by the kind of the entry.
<1>CauseShapes.
    ASSUME NEW key, NEW val, NEW k \in Keys, NEW v, Causes(key, val, k, v)
    PROVE  \/ /\ k[1] = 0 /\ k[2] \in Predicates /\ v \in Mine /\ key = <<v, k[2], Opposite(k[3])>>
              /\ \A g : CauseOf(g, k, v) <=> g[key] # <<>>
           \/ /\ k[1] = 0 /\ k[2] \in Types /\ k[3] = IN_ /\ v \in Mine /\ key = <<v, TYPE_ID, OUT_>> /\ val = k[2]
              /\ \A g : CauseOf(g, k, v) <=> val \in Range(g[key])
           \/ /\ k[1] \in Mine /\ Versatile /\ v \in Predicates \cup {TYPE_ID} /\ key = <<k[1], v, k[3]>>
              /\ \A g : CauseOf(g, k, v) <=> g[key] # <<>>
           \/ /\ k = <<0, TYPE_ID, OUT_>> /\ Versatile /\ v \in Types /\ key = <<0, v, IN_>>
              /\ \A g : CauseOf(g, k, v) <=> g[key] # <<>>
  <2> USE <1>CauseShapes
  <2>1. k[1] \in Mine \cup {0}
    BY KeyForm, Zenon
  <2>2. CASE k[1] = 0 /\ k[2] \in Predicates /\ v \in Mine /\ key = <<v, k[2], Opposite(k[3])>>
    <3>1. k[2] \notin Types /\ k[2] # TYPE_ID
      BY <2>2, Ids
    <3>2. k # <<0, TYPE_ID, OUT_>>
      BY <3>1
    <3> QED
      BY <2>2, <3>1, <3>2 DEF CauseOf
  <2>3. CASE k[1] = 0 /\ k[2] \in Types /\ k[3] = IN_ /\ v \in Mine /\ key = <<v, TYPE_ID, OUT_>> /\ val = k[2]
    <3>1. k[2] \notin Predicates /\ k[2] # TYPE_ID
      BY <2>3, Ids, Zenon
    <3>2. k # <<0, TYPE_ID, OUT_>>
      BY <3>1
    <3> QED
      BY <2>3, <3>1, <3>2 DEF CauseOf
  <2>4. CASE k[1] # 0 /\ Versatile /\ v \in Predicates \cup {TYPE_ID} /\ key = <<k[1], v, k[3]>>
    <3>1. k # <<0, TYPE_ID, OUT_>>
      BY <2>4
    <3> QED
      BY <2>1, <2>4, <3>1 DEF CauseOf
  <2>5. CASE k = <<0, TYPE_ID, OUT_>> /\ Versatile /\ v \in Types /\ key = <<0, v, IN_>>
    <3>1. k[1] = 0 /\ k[2] \notin Predicates /\ k[2] \notin Types
      BY <2>5, Ids
    <3> QED
      BY <2>5, <3>1 DEF CauseOf
  <2> QED
    BY <2>2, <2>3, <2>4, <2>5 DEF Causes
<1>MadeCaused.
    ASSUME TypeInv, ThreadInv, NEW t \in Threads, insert_vertex_edge(t), NEW k, NEW v
    PROVE  /\ MadeDue(t, k, v) => k \in DerivedKeys \ Lists /\ v \in Nat
           /\ k \in DerivedKeys \ Lists =>
                 (MadeDue(t, k, v) <=> Causes(KeyAt(t), ValueAt(t), k, v) /\ ~ Cause(k, v))
  <2> USE <1>MadeCaused
  <2> DEFINE x == Current(t)
  <2>1. x \in Known /\ Suits(pc[t], x) /\ pc[t] \in InsertSteps
    BY <1>EdgeStep, <1>CurrentTriple
  <2>2. /\ pc[t] \in TypeSteps => x[1] \in Mine /\ x[2] = TYPE_ID /\ x[3] \in Types
        /\ pc[t] \in OutSteps => x[1] \in Mine /\ x[2] \in Predicates
        /\ pc[t] \in InSteps => x[3] \in Mine /\ x[2] \in Predicates
    BY <2>1, KnownTriples DEF Suits
  <2>3. /\ pc[t] \in {"o1", "o6"} => KeyAt(t) = <<x[1], x[2], OUT_>> /\ ValueAt(t) = x[3]
        /\ pc[t] = "i1" => KeyAt(t) = <<x[3], x[2], IN_>> /\ ValueAt(t) = x[1]
        /\ pc[t] = "o4" => KeyAt(t) = <<0, x[3], IN_>> /\ ValueAt(t) = x[1]
    <3>1. pc[t] \in NormalSteps =>
             /\ pc[t] \in {"o1", "o6"} => Insert(pc[t], x) = <<<<x[1], x[2], OUT_>>, x[3]>>
             /\ pc[t] = "i1" => Insert(pc[t], x) = <<<<x[3], x[2], IN_>>, x[1]>>
      BY <2>1, <1>NormalInsert
    <3>2. pc[t] = "o4" => Insert(pc[t], x) = <<<<0, x[3], IN_>>, x[1]>>
      BY DEF Insert
    <3> QED
      BY <3>1, <3>2 DEF KeyAt, ValueAt, NormalSteps
  <2> HIDE DEF x
  <2>4. ASSUME MadeDue(t, k, v)
        PROVE  /\ k \in DerivedKeys \ Lists /\ v \in Nat
               /\ Causes(KeyAt(t), ValueAt(t), k, v) /\ ~ Cause(k, v)
    <3>1. ASSUME Causes(KeyAt(t), ValueAt(t), k, v), k \in Keys, FirstAt(t) PROVE ~ Cause(k, v)
      <4>1. kv[KeyAt(t)] = <<>> /\ \A a : a \notin Range(kv[KeyAt(t)])
        BY <3>1 DEF FirstAt, Range
      <4>2. \/ CauseOf(kv, k, v) <=> kv[KeyAt(t)] # <<>>
            \/ CauseOf(kv, k, v) <=> ValueAt(t) \in Range(kv[KeyAt(t)])
        BY <3>1, <1>CauseShapes
      <4> QED
        BY <4>1, <4>2, Zenon DEF Cause
    <3>2. CASE pc[t] = "o1"
      <4>1. x[1] \in Mine /\ x[3] \in Types /\ KeyAt(t) = <<x[1], TYPE_ID, OUT_>> /\ ValueAt(t) = x[3]
        BY <2>2, <2>3, <3>2 DEF TypeSteps
      <4>2. CASE ~ DupAt(t) /\ k = <<0, x[3], IN_>> /\ v = x[1]
        <5>1. k \in DerivedKeys \ Lists /\ v \in Nat
          BY <4>1, <4>2, KeyShapes, Ids, Zenon
        <5>2. Causes(KeyAt(t), ValueAt(t), k, v)
          BY <4>1, <4>2 DEF Causes
        <5>3. ~ FirstAt(t) => x[3] \notin Range(kv[<<x[1], TYPE_ID, OUT_>>])
          BY <3>2, <4>1, <4>2 DEF DupAt, dedup
        <5>4. k[1] = 0 /\ k[2] \notin Predicates /\ k # <<0, TYPE_ID, OUT_>>
          BY <4>1, <4>2, Ids
        <5>5. ~ FirstAt(t) => ~ Cause(k, v)
          BY <4>2, <5>3, <5>4 DEF Cause, CauseOf
        <5> QED
          BY <3>1, <5>1, <5>2, <5>5 DEF DerivedKeys
      <4>3. CASE FirstAt(t) /\ Versatile /\ k = <<x[1], PREDICATE_ID, OUT_>> /\ v = TYPE_ID
        <5>1. k \in DerivedKeys \ Lists /\ v \in Nat
          BY <4>1, <4>3, KeyShapes, Ids, Zenon
        <5>2. Causes(KeyAt(t), ValueAt(t), k, v)
          BY <4>1, <4>3, Ids DEF Causes
        <5> QED
          BY <3>1, <4>3, <5>1, <5>2 DEF DerivedKeys
      <4> QED
        BY <2>4, <3>2, <4>2, <4>3 DEF MadeDue, x
    <3>3. CASE pc[t] = "o4"
      <4>1. x[1] \in Mine /\ x[3] \in Types /\ KeyAt(t) = <<0, x[3], IN_>>
        BY <2>2, <2>3, <3>3 DEF TypeSteps
      <4>2. FirstAt(t) /\ Versatile /\ k = <<0, TYPE_ID, OUT_>> /\ v = x[3]
        BY <2>4, <3>3 DEF MadeDue, x
      <4>3. k \in DerivedKeys \ Lists /\ v \in Nat
        BY <4>1, <4>2, ListKeys, PredicatesAndTypes, Zenon
      <4>4. Causes(KeyAt(t), ValueAt(t), k, v)
        BY <4>1, <4>2 DEF Causes
      <4> QED
        BY <3>1, <4>2, <4>3, <4>4 DEF DerivedKeys
    <3>4. CASE pc[t] = "o6"
      <4>1. x[1] \in Mine /\ x[2] \in Predicates /\ KeyAt(t) = <<x[1], x[2], OUT_>> /\ FirstAt(t)
        BY <2>2, <2>3, <2>4, <3>4 DEF OutSteps, MadeDue
      <4>2. \/ k = <<0, x[2], IN_>> /\ v = x[1]
            \/ Versatile /\ k = <<x[1], PREDICATE_ID, OUT_>> /\ v = x[2]
        BY <2>4, <3>4 DEF MadeDue, x
      <4>3. k \in DerivedKeys \ Lists /\ v \in Nat
        BY <4>1, <4>2, KeyShapes, Ids, PredicatesAndTypes, Zenon
      <4>4. Causes(KeyAt(t), ValueAt(t), k, v)
        BY <4>1, <4>2, Ids, Opposites DEF Causes
      <4> QED
        BY <3>1, <4>1, <4>3, <4>4 DEF DerivedKeys
    <3>5. CASE pc[t] = "i1"
      <4>1. x[3] \in Mine /\ x[2] \in Predicates /\ KeyAt(t) = <<x[3], x[2], IN_>> /\ FirstAt(t)
        BY <2>2, <2>3, <2>4, <3>5 DEF InSteps, MadeDue
      <4>2. \/ k = <<0, x[2], OUT_>> /\ v = x[3]
            \/ Versatile /\ k = <<x[3], PREDICATE_ID, IN_>> /\ v = x[2]
        BY <2>4, <3>5 DEF MadeDue, x
      <4>3. k \in DerivedKeys \ Lists /\ v \in Nat
        BY <4>1, <4>2, KeyShapes, Ids, PredicatesAndTypes, Zenon
      <4>4. Causes(KeyAt(t), ValueAt(t), k, v)
        BY <4>1, <4>2, Ids, Opposites DEF Causes
      <4> QED
        BY <3>1, <4>1, <4>3, <4>4 DEF DerivedKeys
    <3> QED
      BY <2>4, <3>2, <3>3, <3>4, <3>5, Zenon DEF MadeDue
  <2>5. ASSUME k \in DerivedKeys \ Lists, Causes(KeyAt(t), ValueAt(t), k, v), ~ Cause(k, v)
        PROVE  MadeDue(t, k, v)
    <3>1. k \in Keys /\ k = <<k[1], k[2], k[3]>> /\ k[3] \in {IN_, OUT_} /\ (k[1] # 0 => k[2] = PREDICATE_ID)
      BY <2>5, KeyForm DEF DerivedKeys
    <3>2. KeyAt(t) \in NormalKeys => pc[t] \in NormalSteps
      BY <2>1, <1>EdgeDues, Zenon DEF NormalKeys, DerivedKeys, DerivedSteps
    <3>3. CASE /\ k[1] = 0 /\ k[2] \in Predicates /\ v \in Mine /\ KeyAt(t) = <<v, k[2], Opposite(k[3])>>
               /\ \A g : CauseOf(g, k, v) <=> g[KeyAt(t)] # <<>>
      <4>1. FirstAt(t) /\ Opposite(k[3]) \in {IN_, OUT_}
        BY <2>5, <3>1, <3>3, Opposites DEF FirstAt, Cause
      <4>2. pc[t] \in NormalSteps
        BY <3>2, <3>3, <4>1, KeyShapes, Zenon
      <4>3. k[2] # TYPE_ID
        BY <3>3, Ids
      <4>4. pc[t] = "o1" => x[2] = TYPE_ID
        BY <2>2 DEF TypeSteps
      <4>5. CASE pc[t] = "o6"
        <5>1. v = x[1] /\ k[2] = x[2] /\ Opposite(k[3]) = OUT_
          BY <2>3, <3>3, <4>5
        <5>2. k = <<0, x[2], IN_>>
          BY <3>1, <3>3, <5>1, Opposites, Ids
        <5> QED
          BY <4>1, <4>5, <5>1, <5>2 DEF MadeDue, x
      <4>6. CASE pc[t] = "i1"
        <5>1. v = x[3] /\ k[2] = x[2] /\ Opposite(k[3]) = IN_
          BY <2>3, <3>3, <4>6
        <5>2. k = <<0, x[2], OUT_>>
          BY <3>1, <3>3, <5>1, Opposites, Ids
        <5> QED
          BY <4>1, <4>6, <5>1, <5>2, Zenon DEF MadeDue, x
      <4> QED
        BY <2>3, <3>3, <4>2, <4>3, <4>4, <4>5, <4>6 DEF NormalSteps
    <3>4. CASE /\ k[1] = 0 /\ k[2] \in Types /\ k[3] = IN_ /\ v \in Mine /\ KeyAt(t) = <<v, TYPE_ID, OUT_>>
               /\ ValueAt(t) = k[2] /\ \A g : CauseOf(g, k, v) <=> ValueAt(t) \in Range(g[KeyAt(t)])
      <4>1. ~ DupAt(t)
        BY <2>5, <3>4 DEF DupAt, Cause
      <4>2. pc[t] \in NormalSteps
        BY <3>2, <3>4, KeyShapes, Zenon
      <4>3. pc[t] = "o1"
        <5>1. pc[t] \in {"o6", "i1"} => x[2] \in Predicates
          BY <2>2 DEF OutSteps, InSteps
        <5> QED
          BY <2>3, <3>4, <4>2, <5>1, Ids DEF NormalSteps
      <4>4. v = x[1] /\ k = <<0, x[3], IN_>>
        BY <2>3, <3>1, <3>4, <4>3
      <4> QED
        BY <4>1, <4>3, <4>4, Zenon DEF MadeDue, x
    <3>5. CASE /\ k[1] \in Mine /\ Versatile /\ v \in Predicates \cup {TYPE_ID} /\ KeyAt(t) = <<k[1], v, k[3]>>
               /\ \A g : CauseOf(g, k, v) <=> g[KeyAt(t)] # <<>>
      <4>1. FirstAt(t)
        BY <2>5, <3>5 DEF FirstAt, Cause
      <4>2. k[1] # 0 /\ k = <<k[1], PREDICATE_ID, k[3]>>
        BY <3>1, <3>5, Ids, Zenon
      <4>3. pc[t] \in NormalSteps
        BY <3>1, <3>2, <3>5, KeyShapes, Ids DEF NormalKeys, Keys, Pids
      <4>4. CASE pc[t] = "o1"
        BY <2>2, <2>3, <3>5, <4>1, <4>2, <4>4 DEF MadeDue, x, TypeSteps
      <4>5. CASE pc[t] = "o6"
        BY <2>3, <3>5, <4>1, <4>2, <4>5 DEF MadeDue, x
      <4>6. CASE pc[t] = "i1"
        BY <2>3, <3>5, <4>1, <4>2, <4>6 DEF MadeDue, x
      <4> QED
        BY <4>3, <4>4, <4>5, <4>6, Zenon DEF NormalSteps
    <3>6. CASE /\ k = <<0, TYPE_ID, OUT_>> /\ Versatile /\ v \in Types /\ KeyAt(t) = <<0, v, IN_>>
               /\ \A g : CauseOf(g, k, v) <=> g[KeyAt(t)] # <<>>
      <4>1. FirstAt(t)
        BY <2>5, <3>6 DEF FirstAt, Cause
      <4>2. v \notin Predicates /\ v # TYPE_ID /\ v # PREDICATE_ID
        BY <3>6, Ids
      <4>3. KeyAt(t)[1] = 0 /\ KeyAt(t)[2] = v /\ KeyAt(t)[3] = IN_
        BY <3>6
      <4>4. CASE pc[t] \in {"o1", "o2", "o6", "o9"}
        <5>1. x[1] # 0
          BY <2>2, <4>4, Ids DEF TypeSteps, OutSteps
        <5>2. KeyAt(t)[1] = x[1]
          BY <4>4 DEF KeyAt, Insert, x
        <5> QED
          BY <4>3, <5>1, <5>2
      <4>5. CASE pc[t] \in {"i1", "i4"}
        <5>1. x[3] # 0
          BY <2>2, <4>5, Ids DEF InSteps
        <5>2. KeyAt(t)[1] = x[3]
          BY <4>5 DEF KeyAt, Insert, x
        <5> QED
          BY <4>3, <5>1, <5>2
      <4>6. CASE pc[t] \in {"o3", "o5", "o8", "o10", "i3", "i5"}
        <5>1. KeyAt(t)[2] \in {TYPE_ID, PREDICATE_ID}
          BY <4>6 DEF KeyAt, Insert
        <5> QED
          BY <4>2, <4>3, <5>1
      <4>7. CASE pc[t] \in {"o7", "i2"}
        <5>1. x[2] \in Predicates
          BY <2>2, <4>7 DEF OutSteps, InSteps
        <5>2. KeyAt(t)[2] = x[2]
          BY <4>7, Zenon DEF KeyAt, Insert, x
        <5> QED
          BY <4>2, <4>3, <5>1, <5>2
      <4>8. CASE pc[t] = "o4"
        <5>1. KeyAt(t)[2] = x[3]
          BY <2>3, <4>8
        <5> QED
          BY <3>6, <4>1, <4>3, <4>8, <5>1 DEF MadeDue, x
      <4> QED
        BY <2>1, <4>4, <4>5, <4>6, <4>7, <4>8 DEF InsertSteps
    <3> QED
      BY <2>5, <3>1, <3>3, <3>4, <3>5, <3>6, <1>CauseShapes
  <2> QED
    BY <2>4, <2>5

\* What is there or due stays so, and what an insertion makes due is new.
<1>EdgeSources.
    ASSUME TypeInv, ThreadInv, NEW t \in Threads, insert_vertex_edge(t)
    PROVE  /\ \A k \in DerivedKeys : \A v : Sourced(k, v)' <=> Sourced(k, v) \/ MadeDue(t, k, v)
           /\ \A k \in Lists : \A v : Sourced(k, v)' <=> Sourced(k, v)
           /\ \A k \in DerivedKeys \ Lists : \A v :
                 Cause(k, v)' <=> Cause(k, v) \/ MadeDue(t, k, v)
  <2> USE <1>EdgeSources
  <2>1. Threads' = Threads
    BY <1>EdgeFixed
  <2>2. /\ \A k, v : DueOf(t, k, v)' <=>
              (DueOf(t, k, v) /\ ~ (k = KeyAt(t) /\ v = ValueAt(t))) \/ MadeDue(t, k, v)
        /\ \A u \in Threads \ {t} : \A k, v : DueOf(u, k, v)' <=> DueOf(u, k, v)
        /\ KeyAt(t) \in DerivedKeys => DueOf(t, KeyAt(t), ValueAt(t))
    BY <1>EdgeDues
  <2>3. ASSUME NEW k \in DerivedKeys, NEW v
        PROVE  Sourced(k, v)' <=> Sourced(k, v) \/ MadeDue(t, k, v)
    <3>1. k \in Keys
      BY DEF DerivedKeys
    <3>2. Has(k, v)' <=> Has(k, v) \/ (k = KeyAt(t) /\ v = ValueAt(t))
      BY <3>1, <1>EdgeValues
    <3>3. k = KeyAt(t) /\ v = ValueAt(t) => DueOf(t, k, v)
      BY <2>2
    <3> QED
      BY <2>1, <2>2, <3>2, <3>3 DEF Sourced
  <2>4. ASSUME NEW k \in DerivedKeys \ Lists, NEW v
        PROVE  Cause(k, v)' <=> Cause(k, v) \/ MadeDue(t, k, v)
    <3>1. k \in Keys
      BY DEF DerivedKeys
    <3>2. /\ \A a \in Keys : kv'[a] # <<>> <=> kv[a] # <<>> \/ a = KeyAt(t)
          /\ \A a \in Keys : \A b : b \in Range(kv'[a]) <=> b \in Range(kv[a]) \/ (a = KeyAt(t) /\ b = ValueAt(t))
      BY <1>EdgeValues DEF Has
    <3>3. CauseOf(kv', k, v) <=> CauseOf(kv, k, v) \/ Causes(KeyAt(t), ValueAt(t), k, v)
      BY <3>1, <3>2, <1>CauseStep, Zenon
    <3>4. MadeDue(t, k, v) <=> Causes(KeyAt(t), ValueAt(t), k, v) /\ ~ Cause(k, v)
      BY <1>MadeCaused
    <3> QED
      BY <3>3, <3>4 DEF Cause
  <2>5. \A k \in Lists : k \in DerivedKeys /\ \A v : ~ MadeDue(t, k, v)
    BY ListKeys, <1>MadeCaused DEF Lists
  <2> QED
    BY <2>3, <2>4, <2>5
<1>EdgeThreads.
    ASSUME TypeInv, ThreadInv, NEW t \in Threads, insert_vertex_edge(t)
    PROVE  TypeInv' /\ ThreadInv'
  <2> USE <1>EdgeThreads
  <2>1. Threads' = Threads /\ All' = All
    BY <1>EdgeFixed
  <2>2. /\ pc[t] # "idle" /\ pc[t] \in InsertSteps /\ Goto(t, NextAt(t))
        /\ half' = [half EXCEPT ![t] = FALSE] /\ UNCHANGED <<check_dup, files, exists>>
        /\ kv' \in [Keys -> Seq(Nat)]
        /\ FirstAt(t) \in BOOLEAN /\ DupAt(t) \in BOOLEAN
    BY <1>EdgeStep
  <2>3. NextAt(t) \in Steps \ (NormalSteps \cup {"idle"}) /\ Suits(NextAt(t), Current(t))
    BY <1>NextSuits
  <2>4. /\ todo' \in [Threads -> CallsOf(All)] /\ pc' \in [Threads -> Steps]
        /\ \A u \in Threads \ {t} : pc'[u] = pc[u] /\ todo'[u] = todo[u]
        /\ pc'[t] = "idle" <=> todo'[t] = <<>>
        /\ Suits(pc'[t], Current(t)')
    BY <2>2, <2>3, <1>GotoStep, Zenon
  <2>5. half' \in [Threads -> BOOLEAN] /\ ~ half'[t] /\ \A u \in Threads \ {t} : half'[u] = half[u]
    BY <2>2 DEF TypeInv
  <2>6. TypeInv'
    BY <2>1, <2>2, <2>4, <2>5 DEF TypeInv, CallsOf
  <2>7. \A u \in Threads \ {t} : Current(u)' = Current(u)
    BY <2>4 DEF Current
  <2>8. ASSUME NEW u \in Threads
        PROVE  /\ pc'[u] = "idle" <=> todo'[u] = <<>>
               /\ Suits(pc'[u], Current(u)')
               /\ half'[u] => pc'[u] \in InsertSteps /\ Insert(pc'[u], Current(u)')[1] \in exists'
    <3>1. CASE u = t
      BY <2>4, <2>5, <3>1
    <3>2. CASE u # t
      BY <2>2, <2>4, <2>5, <2>7, <3>2, ZenonT(30) DEF ThreadInv
    <3> QED
      BY <3>1, <3>2
  <2> QED
    BY <2>1, <2>6, <2>8 DEF ThreadInv
<1>EdgeKeys.
    ASSUME TypeInv, ThreadInv, KeysInv, NEW t \in Threads, insert_vertex_edge(t)
    PROVE  KeysInv'
  <2> USE <1>EdgeKeys
  <2>1. /\ Threads' = Threads /\ exists' = exists /\ KeyAt(t) \in exists
        /\ half' = [half EXCEPT ![t] = FALSE]
    BY <1>EdgeFixed, <1>EdgeStep, Zenon
  <2>2. \A u \in Threads \ {t} : half'[u] = half[u] /\ pc'[u] = pc[u] /\ Current(u)' = Current(u)
    <3>1. FirstAt(t) \in BOOLEAN /\ DupAt(t) \in BOOLEAN /\ pc[t] # "idle" /\ Goto(t, NextAt(t))
      BY <1>EdgeStep
    <3>2. NextAt(t) \in Steps \ (NormalSteps \cup {"idle"}) /\ Suits(NextAt(t), Current(t))
      BY <1>NextSuits
    <3>3. \A u \in Threads \ {t} : pc'[u] = pc[u] /\ todo'[u] = todo[u]
      BY <3>1, <3>2, <1>GotoStep, <1>EdgeStep, Zenon
    <3> QED
      BY <2>1, <3>3 DEF Current, TypeInv
  <2>3. \A k \in Keys : kv'[k] # <<>> <=> kv[k] # <<>> \/ k = KeyAt(t)
    BY <1>EdgeValues
  <2>4. ASSUME NEW k \in Keys, k \in exists, kv'[k] = <<>>
        PROVE  \E u \in Threads : half'[u] /\ Insert(pc'[u], Current(u)')[1] = k
    <3>1. kv[k] = <<>> /\ k # KeyAt(t)
      BY <2>3, <2>4
    <3>2. PICK u \in Threads : half[u] /\ Insert(pc[u], Current(u))[1] = k
      BY <2>4, <3>1 DEF KeysInv
    <3>3. u # t
      BY <3>1, <3>2 DEF KeyAt
    <3> QED
      BY <2>2, <3>2, <3>3
  <2> QED
    BY <2>1, <2>3, <2>4 DEF KeysInv

\* A thread that has made its insertion has the rest of its calls to make.
<1>EdgePending.
    ASSUME TypeInv, ThreadInv, NEW t \in Threads, insert_vertex_edge(t),
           NEW u \in Threads, NEW x \in All
    PROVE  /\ OutPending(u, x) /\ x[1] \in Mine =>
                 OutPending(u, x)' \/ (pc[t] \in {"o1", "o6"} /\ Current(t) = x)
           /\ InPending(u, x) /\ x[3] \in Mine /\ x[2] # TYPE_ID =>
                 InPending(u, x)' \/ (pc[t] = "i1" /\ Current(t) = x)
  <2> USE <1>EdgePending
  <2>1. FirstAt(t) \in BOOLEAN /\ DupAt(t) \in BOOLEAN /\ pc[t] # "idle" /\ Goto(t, NextAt(t)) /\ files' = files
    BY <1>EdgeStep
  <2>2. NextAt(t) \in Steps \ (NormalSteps \cup {"idle"}) /\ Suits(NextAt(t), Current(t))
    BY <1>NextSuits
  <2>3. /\ \A w \in Threads \ {t} : pc'[w] = pc[w] /\ todo'[w] = todo[w]
        /\ \A i \in 2 .. Len(todo[t]) :
              /\ todo[t][i] = <<"triple_out", x>> /\ x[1] \in Mine => OutPending(t, x)'
              /\ todo[t][i] = <<"triple_in", x>> /\ x[3] \in Mine /\ x[2] # TYPE_ID => InPending(t, x)'
    BY <2>1, <2>2, <1>GotoStep, Zenon
  <2>4. CASE u = t
    BY <2>3, <2>4 DEF OutPending, InPending
  <2>5. CASE u # t
    BY <2>3, <2>5, Zenon DEF OutPending, InPending, Current
  <2> QED
    BY <2>4, <2>5, Zenon
<1>EdgeNormal.
    ASSUME TypeInv, ThreadInv, NormalInv, NEW t \in Threads, insert_vertex_edge(t)
    PROVE  NormalInv'
  <2> USE <1>EdgeNormal
  <2> DEFINE y == Current(t)
  <2>1. Threads' = Threads /\ All' = All /\ check_dup' = check_dup
    BY <1>EdgeFixed
  <2>2. y \in All /\ y \in Known /\ Suits(pc[t], y) /\ pc[t] \in InsertSteps
    BY <1>EdgeStep, <1>CurrentTriple, Zenon
  <2>3. pc[t] \in NormalSteps =>
           /\ pc[t] \in {"o1", "o6"} => KeyAt(t) = <<y[1], y[2], OUT_>> /\ ValueAt(t) = y[3]
           /\ pc[t] = "i1" => KeyAt(t) = <<y[3], y[2], IN_>> /\ ValueAt(t) = y[1]
    BY <2>2, <1>NormalInsert DEF KeyAt, ValueAt
  <2>4. KeyAt(t) \in NormalKeys => pc[t] \in NormalSteps
    BY <2>2, <1>EdgeDues DEF NormalKeys, DerivedKeys, DerivedSteps
  <2> HIDE DEF y
  <2>5. ASSUME NEW x \in All, x[1] \in Mine
        PROVE  Has(<<x[1], x[2], OUT_>>, x[3])' \/ \E u \in Threads : OutPending(u, x)'
    <3>1. <<x[1], x[2], OUT_>> \in Keys
      <4>1. x \in Known
        BY AllKnown DEF TypeInv
      <4> QED
        BY <2>5, <4>1, KnownTriples, KeyOf, Zenon DEF Pids
    <3>2. Has(<<x[1], x[2], OUT_>>, x[3])' <=>
             Has(<<x[1], x[2], OUT_>>, x[3]) \/ (<<x[1], x[2], OUT_>> = KeyAt(t) /\ x[3] = ValueAt(t))
      BY <3>1, <1>EdgeValues
    <3>3. CASE Has(<<x[1], x[2], OUT_>>, x[3])
      BY <3>2, <3>3
    <3>4. ASSUME NEW u \in Threads, OutPending(u, x)
          PROVE  Has(<<x[1], x[2], OUT_>>, x[3])' \/ OutPending(u, x)'
      <4>1. CASE pc[t] \in {"o1", "o6"} /\ Current(t) = x
        BY <2>3, <3>2, <4>1, Zenon DEF y, NormalSteps
      <4> QED
        BY <2>5, <3>4, <4>1, <1>EdgePending, Zenon
    <3> QED
      BY <2>5, <3>3, <3>4, Zenon DEF NormalInv
  <2>6. ASSUME NEW x \in All, x[3] \in Mine, x[2] # TYPE_ID
        PROVE  Has(<<x[3], x[2], IN_>>, x[1])' \/ \E u \in Threads : InPending(u, x)'
    <3>1. <<x[3], x[2], IN_>> \in Keys
      <4>1. x \in Known
        BY AllKnown DEF TypeInv
      <4> QED
        BY <2>6, <4>1, KnownTriples, KeyOf, Zenon DEF Pids
    <3>2. Has(<<x[3], x[2], IN_>>, x[1])' <=>
             Has(<<x[3], x[2], IN_>>, x[1]) \/ (<<x[3], x[2], IN_>> = KeyAt(t) /\ x[1] = ValueAt(t))
      BY <3>1, <1>EdgeValues
    <3>3. CASE Has(<<x[3], x[2], IN_>>, x[1])
      BY <3>2, <3>3
    <3>4. ASSUME NEW u \in Threads, InPending(u, x)
          PROVE  Has(<<x[3], x[2], IN_>>, x[1])' \/ InPending(u, x)'
      <4>1. CASE pc[t] = "i1" /\ Current(t) = x
        BY <2>3, <3>2, <4>1 DEF y, NormalSteps
      <4> QED
        BY <2>6, <3>4, <4>1, <1>EdgePending, Zenon
    <3> QED
      BY <2>6, <3>3, <3>4 DEF NormalInv
  <2>7. ASSUME NEW k \in NormalKeys, NEW v \in Range(kv'[k])
        PROVE  IF k[3] = OUT_ THEN <<k[1], k[2], v>> \in All
               ELSE k[2] # TYPE_ID /\ <<v, k[2], k[1]>> \in All
    <3>1. v \in Range(kv[k]) \/ (k = KeyAt(t) /\ v = ValueAt(t))
      BY <2>7, <1>EdgeValues, Zenon DEF Has, NormalKeys
    <3>2. CASE v \in Range(kv[k])
      BY <3>2 DEF NormalInv
    <3>3. CASE k = KeyAt(t) /\ v = ValueAt(t)
      <4>1. pc[t] \in NormalSteps /\ y = <<y[1], y[2], y[3]>>
        BY <2>2, <2>4, <3>3, KnownTriples DEF y
      <4>2. CASE pc[t] \in {"o1", "o6"}
        BY <2>2, <2>3, <3>3, <4>1, <4>2 DEF y
      <4>3. CASE pc[t] = "i1"
        <5>1. y[2] # TYPE_ID /\ k[3] = IN_ /\ k[2] = y[2] /\ k[1] = y[3] /\ v = y[1]
          BY <2>2, <2>3, <3>3, <4>1, <4>3 DEF y, Suits, InSteps
        <5> QED
          BY <2>2, <4>1, <5>1, Ids DEF y
      <4> QED
        BY <4>1, <4>2, <4>3 DEF NormalSteps
    <3> QED
      BY <3>1, <3>2, <3>3
  <2>8. ASSUME NEW k \in NormalKeys, check_dup \/ k[2] = TYPE_ID
        PROVE  IsInjective(kv'[k])
    <3>1. k \in Keys /\ kv[k] \in Seq(Nat) /\ IsInjective(kv[k])
      BY <2>8 DEF NormalInv, NormalKeys, TypeInv
    <3>2. CASE k # KeyAt(t) \/ DupAt(t)
      BY <3>1, <3>2, <1>EdgeStep, Zenon
    <3>3. CASE k = KeyAt(t) /\ ~ DupAt(t)
      <4>1. pc[t] \in NormalSteps
        BY <2>4, <3>3
      <4>2. dedup(pc[t])
        <5>1. CASE pc[t] = "o1"
          BY <5>1 DEF dedup
        <5>2. CASE pc[t] \in {"o6", "i1"}
          <6>1. k[2] = y[2] /\ y[2] # TYPE_ID
            BY <2>2, <2>3, <3>3, <4>1, <5>2 DEF y, Suits, OutSteps, InSteps
          <6> QED
            BY <2>8, <5>2, <6>1 DEF dedup
        <5> QED
          BY <4>1, <5>1, <5>2 DEF NormalSteps
      <4>3. ValueAt(t) \notin Range(kv[k])
        BY <3>3, <4>2 DEF DupAt, FirstAt, Range
      <4>4. kv'[k] = Append(kv[k], ValueAt(t)) /\ ValueAt(t) \in Nat
        BY <3>3, <1>EdgeStep, Zenon
      <4> QED
        BY <3>1, <4>3, <4>4, <1>Appended
    <3> QED
      BY <3>2, <3>3
  <2> QED
    BY <2>1, <2>5, <2>6, <2>7, <2>8, Zenon DEF NormalInv
<1>EdgeOnce.
    ASSUME TypeInv, ThreadInv, OnceInv, CauseInv, NEW t \in Threads, insert_vertex_edge(t)
    PROVE  OnceInv' /\ CauseInv'
  <2> USE <1>EdgeOnce
  <2>1. Threads' = Threads
    BY <1>EdgeFixed
  <2>2. /\ \A k, v : DueOf(t, k, v)' <=>
              (DueOf(t, k, v) /\ ~ (k = KeyAt(t) /\ v = ValueAt(t))) \/ MadeDue(t, k, v)
        /\ \A u \in Threads \ {t} : \A k, v : DueOf(u, k, v)' <=> DueOf(u, k, v)
        /\ KeyAt(t) \in DerivedKeys => DueOf(t, KeyAt(t), ValueAt(t)) /\ pc[t] \in DerivedSteps
    BY <1>EdgeDues
  <2>3. /\ \A k \in DerivedKeys : \A v : Sourced(k, v)' <=> Sourced(k, v) \/ MadeDue(t, k, v)
        /\ \A k \in DerivedKeys \ Lists : \A v : Cause(k, v)' <=> Cause(k, v) \/ MadeDue(t, k, v)
    BY <1>EdgeSources
  <2>4. ASSUME NEW k \in DerivedKeys PROVE IsInjective(kv'[k])
    <3>1. k \in Keys /\ kv[k] \in Seq(Nat) /\ IsInjective(kv[k])
      BY DEF OnceInv, DerivedKeys, TypeInv
    <3>2. CASE k # KeyAt(t) \/ DupAt(t)
      BY <3>1, <3>2, <1>EdgeStep
    <3>3. CASE k = KeyAt(t) /\ ~ DupAt(t)
      <4>1. kv'[k] = Append(kv[k], ValueAt(t)) /\ ValueAt(t) \in Nat
        BY <3>3, <1>EdgeStep, Zenon
      <4>2. ValueAt(t) \notin Range(kv[k])
        BY <2>2, <3>3, <4>1 DEF OnceInv, Has
      <4> QED
        BY <3>1, <4>1, <4>2, <1>Appended
    <3> QED
      BY <3>2, <3>3
  <2>5. ASSUME NEW k \in DerivedKeys, NEW v \in Nat, MadeDue(t, k, v)
        PROVE  ~ Sourced(k, v)
    BY <2>5, <1>MadeCaused DEF CauseInv
  <2>6. ASSUME NEW k \in DerivedKeys, NEW v \in Nat, NEW u \in Threads, DueOf(u, k, v)'
        PROVE  ~ Has(k, v)' /\ \A w \in Threads : DueOf(w, k, v)' => w = u
    <3>1. Has(k, v)' <=> Has(k, v) \/ (k = KeyAt(t) /\ v = ValueAt(t))
      BY <1>EdgeValues DEF DerivedKeys
    <3>2. CASE MadeDue(t, k, v)
      <4>1. ~ Has(k, v) /\ \A w \in Threads : ~ DueOf(w, k, v)
        BY <2>5, <3>2 DEF Sourced
      <4>2. ~ (k = KeyAt(t) /\ v = ValueAt(t))
        BY <2>2, <4>1
      <4> QED
        BY <2>2, <2>6, <3>1, <4>1, <4>2
    <3>3. CASE ~ MadeDue(t, k, v)
      <4>1. DueOf(u, k, v) /\ ~ (u = t /\ k = KeyAt(t) /\ v = ValueAt(t))
        BY <2>2, <2>6, <3>3
      <4>2. ~ Has(k, v) /\ \A w \in Threads : DueOf(w, k, v) => w = u
        BY <4>1 DEF OnceInv
      <4>3. ~ (k = KeyAt(t) /\ v = ValueAt(t))
        BY <2>2, <4>1, <4>2, Zenon
      <4> QED
        BY <2>2, <3>1, <3>3, <4>2, <4>3
    <3> QED
      BY <3>2, <3>3, Zenon
  <2>7. OnceInv'
    BY <2>1, <2>4, <2>6 DEF OnceInv
  <2>8. CauseInv'
    BY <2>3 DEF CauseInv
  <2> QED
    BY <2>7, <2>8
<1>PairedShape.
    ASSUME NEW k \in PairedKeys
    PROVE  /\ k \in Keys /\ k \in DerivedKeys \ Lists /\ Flip(k) \in PairedKeys
           /\ ListOf(k) \in Lists /\ EntryOf(k) \in Nat
           /\ ListOf(Flip(k)) = ListOf(k) /\ EntryOf(Flip(k)) = EntryOf(k)
           /\ Flip(k) # k /\ Flip(Flip(k)) = k
           /\ \A j \in PairedKeys : ListOf(j) = ListOf(k) /\ EntryOf(j) = EntryOf(k) => j \in {k, Flip(k)}
  <2>1. /\ k \in Keys /\ k = <<k[1], k[2], k[3]>> /\ k[3] \in {IN_, OUT_} /\ Opposite(k[3]) \in {IN_, OUT_}
        /\ k[1] \in Mine \cup {0} /\ Flip(k) \in Keys /\ Flip(k) # k /\ Flip(Flip(k)) = k
    BY KeyForm, Opposites DEF PairedKeys
  <2>2. Flip(k) = <<k[1], k[2], Opposite(k[3])>> /\ Flip(k)[1] = k[1] /\ Flip(k)[2] = k[2]
    BY DEF Flip
  <2>3. \/ k[1] = 0 /\ k[2] \in Predicates
        \/ k[1] \in Mine /\ k[1] # 0 /\ k[2] = PREDICATE_ID
    BY <2>1, Ids DEF PairedKeys
  <2>4. Flip(k) \in PairedKeys
    BY <2>1, <2>2 DEF PairedKeys
  <2>5. k \in DerivedKeys \ Lists
    <3>1. k[2] # TYPE_ID /\ (k[1] = 0 => k[2] # PREDICATE_ID)
      BY <2>3, Ids
    <3>2. k \notin Lists
      BY <3>1 DEF Lists
    <3> QED
      BY <2>1, <2>3, <3>2 DEF DerivedKeys
  <2>6. ListOf(k) \in Lists /\ EntryOf(k) \in Nat
    BY <2>3, Ids, PredicatesAndTypes, Zenon DEF ListOf, Lists, EntryOf
  <2>7. ListOf(Flip(k)) = ListOf(k) /\ EntryOf(Flip(k)) = EntryOf(k)
    BY <2>2 DEF ListOf, EntryOf
  <2>8. ASSUME NEW j \in PairedKeys, ListOf(j) = ListOf(k), EntryOf(j) = EntryOf(k)
        PROVE  j \in {k, Flip(k)}
    <3>1. j = <<j[1], j[2], j[3]>> /\ j[3] \in {IN_, OUT_}
      BY KeyForm DEF PairedKeys
    <3>2. j[1] = 0 <=> k[1] = 0
      BY <2>8, ListKeys DEF ListOf
    <3>3. j[1] = k[1] /\ j[2] = k[2]
      BY <2>8, <3>2 DEF EntryOf, PairedKeys
    <3>4. j[3] = k[3] \/ j[3] = Opposite(k[3])
      BY <2>1, <3>1, Opposites
    <3> QED
      BY <2>1, <2>2, <3>1, <3>3, <3>4
  <2> QED
    BY <2>1, <2>4, <2>5, <2>6, <2>7, <2>8
<1>EdgeLists.
    ASSUME TypeInv, ThreadInv, KeysInv, ListInv, NEW t \in Threads, insert_vertex_edge(t)
    PROVE  ListInv'
  <2> USE <1>EdgeLists
  <2>1. Threads' = Threads /\ exists' = exists
    BY <1>EdgeFixed, <1>EdgeStep
  <2>2. /\ \A k : ChecksOf(t, k)' <=> FirstAt(t) /\ k = KeyAt(t) /\ k \in PairedKeys
        /\ \A u \in Threads \ {t} : \A k : ChecksOf(u, k)' <=> ChecksOf(u, k)
        /\ KeyAt(t) \in DerivedKeys => DueOf(t, KeyAt(t), ValueAt(t))
    BY <1>EdgeDues, Zenon
  <2>3. /\ \A k \in Keys : \A v : Has(k, v)' <=> Has(k, v) \/ (k = KeyAt(t) /\ v = ValueAt(t))
        /\ \A k \in Keys : kv'[k] # <<>> <=> kv[k] # <<>> \/ k = KeyAt(t)
    BY <1>EdgeValues
  <2>4. ASSUME NEW k \in PairedKeys
        PROVE  Sourced(ListOf(k), EntryOf(k))' <=> Sourced(ListOf(k), EntryOf(k))
    <3>1. ListOf(k) \in Lists
      BY <1>PairedShape
    <3>2. \A a \in Lists : \A b : Sourced(a, b)' <=> Sourced(a, b)
      BY <1>EdgeSources
    <3>3. PICK a, b : a = ListOf(k) /\ b = EntryOf(k)
      OBVIOUS
    <3> QED
      BY <3>1, <3>2, <3>3
  <2>5. ASSUME NEW k \in PairedKeys, NEW u \in Threads, ChecksOf(u, k)'
        PROVE  /\ kv'[k] # <<>>
               /\ \A w \in Threads : ChecksOf(w, k)' => w = u
               /\ Sourced(ListOf(k), EntryOf(k))' => Flip(k) \in exists'
    <3>1. k \in Keys /\ Flip(k) \in Keys
      BY <1>PairedShape DEF PairedKeys
    <3>2. CASE u = t
      <4>1. FirstAt(t) /\ k = KeyAt(t) /\ kv[k] = <<>>
        BY <2>2, <2>5, <3>2 DEF FirstAt
      <4>2. \A w \in Threads : ~ ChecksOf(w, k)
        BY <4>1, ZenonT(30) DEF ListInv
      <4>3. Sourced(ListOf(k), EntryOf(k)) => Flip(k) \in exists
        BY <3>1, <4>1, Zenon DEF ListInv, KeysInv
      <4> QED
        BY <2>1, <2>2, <2>3, <2>4, <3>1, <3>2, <4>1, <4>2, <4>3, ZenonT(30)
    <3>3. CASE u # t
      <4>1. ChecksOf(u, k)
        BY <2>2, <2>5, <3>3, Zenon
      <4>2. /\ kv[k] # <<>> /\ \A w \in Threads : ChecksOf(w, k) => w = u
            /\ Sourced(ListOf(k), EntryOf(k)) => Flip(k) \in exists
        BY <4>1, Zenon DEF ListInv
      <4>3. ~ ChecksOf(t, k)'
        BY <2>2, <4>2, Zenon DEF FirstAt
      <4> QED
        BY <2>1, <2>2, <2>3, <2>4, <3>1, <4>2, <4>3, Zenon
    <3> QED
      BY <3>2, <3>3
  <2>6. ASSUME NEW k \in PairedKeys, Sourced(ListOf(k), EntryOf(k))'
        PROVE  Versatile /\ (kv'[k] # <<>> \/ kv'[Flip(k)] # <<>>)
    <3>1. k \in Keys /\ Flip(k) \in Keys
      BY <1>PairedShape, Zenon DEF PairedKeys
    <3>2. Versatile /\ (kv[k] # <<>> \/ kv[Flip(k)] # <<>>)
      BY <2>4, <2>6, Zenon DEF ListInv
    <3> QED
      BY <2>3, <3>1, <3>2
  <2>7. \A k, v : k \in Lists /\ k = KeyAt(t) /\ v = ValueAt(t) =>
           /\ k = <<0, PREDICATE_ID, OUT_>> => v \in Predicates
           /\ k = <<0, TYPE_ID, IN_>> => v \in Mine
    <3>1. KeyAt(t) \in DerivedKeys => Due(pc[t], Current(t), KeyAt(t), ValueAt(t))
      BY <2>2, Zenon DEF DueOf
    <3>2. Current(t) \in Known /\ Suits(pc[t], Current(t))
      BY <1>EdgeStep, <1>CurrentTriple
    <3>3. KeyAt(t) \in Lists => KeyAt(t) \in DerivedKeys
      BY ListKeys DEF Lists
    <3> QED
      BY <3>1, <3>2, <3>3, <1>DueKeys
  <2>8. /\ <<0, TYPE_ID, IN_>> \in Keys /\ <<0, PREDICATE_ID, OUT_>> \in Keys
        /\ <<0, TYPE_ID, IN_>> \in Lists /\ <<0, PREDICATE_ID, OUT_>> \in Lists
    BY ListKeys DEF DerivedKeys, Lists
  <2>9. /\ \A v \in Nat : Has(<<0, TYPE_ID, IN_>>, v)' => v \in Mine
        /\ \A v \in Nat : Has(<<0, PREDICATE_ID, OUT_>>, v)' => v \in Predicates \cup {TYPE_ID}
        /\ Has(<<0, PREDICATE_ID, OUT_>>, TYPE_ID)' <=> Has(<<0, PREDICATE_ID, OUT_>>, TYPE_ID)
    BY <2>3, <2>7, <2>8, Ids, Zenon DEF ListInv
  <2> QED
    BY <2>1, <2>5, <2>6, <2>9, ZenonT(30) DEF ListInv

\* A thread that fills a key with a buddy, or is about to look at the buddy,
\* has a triple that brings the entry into the list.
<1>Filler.
    ASSUME TypeInv, ThreadInv, FileInv, NEW t \in Threads, pc[t] # "idle", NEW k \in PairedKeys,
           ChecksOf(t, k) \/ (pc[t] \in InsertSteps /\ Insert(pc[t], Current(t))[1] = k)
    PROVE  \E x \in Range(files[t]) : Brings(x, Side(k), ListOf(k), EntryOf(k))
  <2> USE <1>Filler
  <2> DEFINE x == Current(t)
  <2>1. x \in Known /\ Suits(pc[t], x)
    BY <1>CurrentTriple
  <2>2. x \in Range(files[t])
    <3>1. todo[t] \in Seq({"triple_out", "triple_in"} \X All) /\ todo[t] # <<>>
      BY DEF TypeInv, ThreadInv
    <3>2. 1 \in DOMAIN todo[t]
      BY <3>1
    <3> QED
      BY <3>2 DEF FileInv, Current
  <2> HIDE DEF x
  <2>3. k[2] # TYPE_ID /\ (k[1] = 0 => k[2] \in Predicates) /\ (k[1] # 0 => k[2] = PREDICATE_ID)
    BY Ids DEF PairedKeys
  <2>4. \/ k = <<x[1], PREDICATE_ID, OUT_>> /\ x[1] \in Mine
        \/ k = <<0, x[2], IN_>> /\ x[1] \in Mine
        \/ k = <<0, x[2], OUT_>> /\ x[3] \in Mine /\ x[2] # TYPE_ID
        \/ k = <<x[3], PREDICATE_ID, IN_>> /\ x[3] \in Mine /\ x[2] # TYPE_ID
    <3>1. CASE Checking(pc[t], x, k)
      BY <2>1, <3>1 DEF Checking, Suits, TypeSteps, OutSteps, InSteps
    <3>2. CASE pc[t] \in InsertSteps /\ Insert(pc[t], x)[1] = k
      <4>1. pc[t] \notin NormalSteps
        <5>1. k \notin NormalKeys
          BY <2>3 DEF NormalKeys
        <5> QED
          BY <2>1, <3>2, <5>1, <1>NormalInsert, Zenon
      <4>2. PICK v : Due(pc[t], x, k, v)
        BY <2>1, <3>2, <4>1, <1>DerivedInsert, Zenon DEF DerivedSteps
      <4>3. ~ (pc[t] \in {"o2", "c2", "o3", "o4"} /\ k = <<0, x[3], IN_>>)
        <5>1. ASSUME pc[t] \in {"o2", "c2", "o3", "o4"} PROVE x[3] \in Types
          BY <2>1, <5>1, KnownTriples DEF Suits, TypeSteps
        <5> QED
          BY <2>3, <5>1, Ids
      <4>4. /\ pc[t] = "o2" => x[1] \in Mine
            /\ pc[t] \in {"o7", "c7", "o8", "o9"} => x[1] \in Mine
            /\ pc[t] \in {"i2", "d2", "i3", "i4"} => x[3] \in Mine /\ x[2] # TYPE_ID
        BY <2>1 DEF Suits, TypeSteps, OutSteps, InSteps
      <4>5. k # <<0, TYPE_ID, OUT_>> /\ k # <<0, TYPE_ID, IN_>> /\ k # <<0, PREDICATE_ID, OUT_>>
        BY <2>3, Ids
      <4> QED
        BY <4>2, <4>3, <4>4, <4>5, Zenon DEF Due
    <3> QED
      BY <3>1, <3>2 DEF ChecksOf, x
  <2>5. x[1] \in Mine => x[1] # 0
    BY Ids
  <2>6. x[3] \in Mine => x[3] # 0
    BY Ids
  <2>7. Brings(x, Side(k), ListOf(k), EntryOf(k))
    <3>1. CASE k = <<x[1], PREDICATE_ID, OUT_>> /\ x[1] \in Mine
      BY <2>5, <3>1, Ids DEF Brings, Side, ListOf, EntryOf
    <3>2. CASE k = <<0, x[2], IN_>> /\ x[1] \in Mine
      BY <3>2, Ids, Opposites DEF Brings, Side, ListOf, EntryOf
    <3>3. CASE k = <<0, x[2], OUT_>> /\ x[3] \in Mine /\ x[2] # TYPE_ID
      BY <3>3, Ids, Opposites DEF Brings, Side, ListOf, EntryOf
    <3>4. CASE k = <<x[3], PREDICATE_ID, IN_>> /\ x[3] \in Mine /\ x[2] # TYPE_ID
      BY <2>6, <3>4, Ids DEF Brings, Side, ListOf, EntryOf
    <3> QED
      BY <2>4, <3>1, <3>2, <3>3, <3>4
  <2> QED
    BY <2>2, <2>7

\* If one thread fills a key and another its buddy, the entry is raced for.
<1>TwoFillers.
    ASSUME NEW k \in PairedKeys, NEW t \in Threads, NEW u \in Threads, t # u,
           \E x \in Range(files[t]) : Brings(x, Side(k), ListOf(k), EntryOf(k)),
           \E y \in Range(files[u]) : Brings(y, Side(Flip(k)), ListOf(Flip(k)), EntryOf(Flip(k)))
    PROVE  Raced(ListOf(k), EntryOf(k))
  <2> USE <1>TwoFillers
  <2>1. /\ ListOf(k) \in Lists /\ ListOf(Flip(k)) = ListOf(k) /\ EntryOf(Flip(k)) = EntryOf(k)
    BY <1>PairedShape
  <2>2. \/ Side(k) = OUT_ /\ Side(Flip(k)) = IN_
        \/ Side(k) = IN_ /\ Side(Flip(k)) = OUT_
    <3>1. k[3] \in {IN_, OUT_} /\ Flip(k)[1] = k[1] /\ Flip(k)[3] = Opposite(k[3])
      BY KeyForm DEF PairedKeys, Flip
    <3> QED
      BY <3>1, Opposites DEF Side
  <2>3. /\ \E x \in Range(files[t]) : Brings(x, Side(k), ListOf(k), EntryOf(k))
        /\ \E y \in Range(files[u]) : Brings(y, Side(Flip(k)), ListOf(k), EntryOf(k))
    BY <2>1
  <2> QED
    BY <2>1, <2>2, <2>3, Zenon DEF Raced, Lists

\* What the threads have still to do is of their files.
<1>GotoFiles.
    ASSUME TypeInv, FileInv, NEW t \in Threads, NEW step, Goto(t, step), todo[t] # <<>>, files' = files
    PROVE  \A u \in Threads : \A i \in DOMAIN todo'[u] : todo'[u][i][2] \in Range(files[u])
  <2> USE <1>GotoFiles
  <2>1. todo \in [Threads -> CallsOf(All)] /\ todo[t] \in CallsOf(All)
    BY DEF TypeInv, CallsOf
  <2>2. CASE step = "end"
    <3>1. todo' = [todo EXCEPT ![t] = Tail(todo[t])]
      BY <2>2 DEF Goto
    <3>2. ASSUME NEW i \in DOMAIN Tail(todo[t]) PROVE Tail(todo[t])[i][2] \in Range(files[t])
      <4>1. i + 1 \in DOMAIN todo[t] /\ Tail(todo[t])[i] = todo[t][i + 1]
        BY <2>1 DEF CallsOf
      <4> QED
        BY <4>1 DEF FileInv
    <3>3. todo'[t] = Tail(todo[t]) /\ \A u \in Threads \ {t} : todo'[u] = todo[u]
      BY <2>1, <3>1
    <3> QED
      BY <3>2, <3>3, Zenon DEF FileInv
  <2>3. CASE step # "end"
    BY <2>3, Zenon DEF Goto, FileInv
  <2> QED
    BY <2>2, <2>3
<1>EdgeFiles.
    ASSUME TypeInv, ThreadInv, FileInv, NEW t \in Threads, insert_vertex_edge(t)
    PROVE  FileInv'
  <2> USE <1>EdgeFiles
  <2>1. files' = files /\ Threads' = Threads /\ Goto(t, NextAt(t)) /\ pc[t] # "idle"
    BY <1>EdgeFixed, <1>EdgeStep
  <2>2. todo[t] # <<>>
    BY <2>1 DEF ThreadInv
  <2>3. \A u \in Threads : \A i \in DOMAIN todo'[u] : todo'[u][i][2] \in Range(files[u])
    BY <2>1, <2>2, <1>GotoFiles
  <2>4. \A k \in Keys : Range(kv[k]) \subseteq Range(kv'[k])
    BY <1>EdgeValues DEF Has
  <2> QED
    BY <2>1, <2>3, <2>4 DEF FileInv
<1>EdgeRaced.
    ASSUME TypeInv, ThreadInv, RacedInv, NEW t \in Threads, insert_vertex_edge(t)
    PROVE  RacedInv'
  <2> USE <1>EdgeRaced
  <2>1. files' = files /\ Threads' = Threads
    BY <1>EdgeFixed, <1>EdgeStep
  <2>2. /\ \A k : ChecksOf(t, k)' <=> FirstAt(t) /\ k = KeyAt(t) /\ k \in PairedKeys
        /\ \A u \in Threads \ {t} : \A k : ChecksOf(u, k)' <=> ChecksOf(u, k)
    BY <1>EdgeDues
  <2>3. \A k : ~ ChecksOf(t, k)
    <3>1. pc[t] \in InsertSteps
      BY <1>EdgeStep
    <3> QED
      BY <3>1 DEF ChecksOf, Checking, InsertSteps
  <2>4. \A k, v : Raced(k, v)' <=> Raced(k, v)
    BY <2>1, Zenon DEF Raced
  <2>5. ASSUME Versatile, NEW k \in PairedKeys, kv'[k] # <<>>
        PROVE  \/ Sourced(ListOf(k), EntryOf(k))'
               \/ \E u \in Threads : ChecksOf(u, k)'
               \/ Raced(ListOf(k), EntryOf(k))
    <3>1. k \in Keys /\ ListOf(k) \in Lists
      BY <1>PairedShape DEF PairedKeys
    <3>2. CASE kv[k] # <<>>
      <4>1. \/ Sourced(ListOf(k), EntryOf(k))
            \/ \E u \in Threads : ChecksOf(u, k)
            \/ Raced(ListOf(k), EntryOf(k))
        BY <2>5, <3>2 DEF RacedInv
      <4>2. Sourced(ListOf(k), EntryOf(k)) => Sourced(ListOf(k), EntryOf(k))'
        <5>1. \A a \in Lists : \A b : Sourced(a, b)' <=> Sourced(a, b)
          BY <1>EdgeSources
        <5>2. PICK a, b : a = ListOf(k) /\ b = EntryOf(k)
          OBVIOUS
        <5> QED
          BY <3>1, <5>1, <5>2
      <4> QED
        BY <2>2, <2>3, <4>1, <4>2, Zenon
    <3>3. CASE kv[k] = <<>>
      <4>1. k = KeyAt(t) /\ FirstAt(t)
        BY <2>5, <3>1, <3>3, <1>EdgeValues, Zenon DEF FirstAt
      <4> QED
        BY <2>2, <4>1, Zenon
    <3> QED
      BY <3>2, <3>3
  <2> QED
    BY <2>1, <2>4, <2>5 DEF RacedInv

\* A check of the buddy key, or the end of a call that has nothing to insert,
\* changes what its thread owes and nothing else.
<1>Moved.
    ASSUME TypeInv, ThreadInv, KeysInv, NormalInv, NEW t \in Threads, pc[t] # "idle", ~ half[t],
           pc[t] \notin NormalSteps, NEW step \in Steps \ (NormalSteps \cup {"idle"}),
           Suits(step, Current(t)), Goto(t, step), UNCHANGED <<check_dup, files, kv, exists, half>>
    PROVE  TypeInv' /\ ThreadInv' /\ KeysInv' /\ NormalInv'
  <2> USE <1>Moved
  <2>1. Threads' = Threads /\ All' = All
    BY DEF Threads, All
  <2>2. /\ todo' \in [Threads -> CallsOf(All)] /\ pc' \in [Threads -> Steps]
        /\ \A u \in Threads \ {t} : pc'[u] = pc[u] /\ todo'[u] = todo[u]
        /\ pc'[t] = "idle" <=> todo'[t] = <<>>
        /\ Suits(pc'[t], Current(t)')
        /\ \A x \in All : \A i \in 2 .. Len(todo[t]) :
              /\ todo[t][i] = <<"triple_out", x>> /\ x[1] \in Mine => OutPending(t, x)'
              /\ todo[t][i] = <<"triple_in", x>> /\ x[3] \in Mine /\ x[2] # TYPE_ID => InPending(t, x)'
    BY <1>GotoStep, ZenonT(30)
  <2>3. \A u \in Threads \ {t} : Current(u)' = Current(u)
    BY <2>2, Zenon DEF Current
  <2>4. TypeInv'
    BY <2>1, <2>2 DEF TypeInv, CallsOf
  <2>5. ASSUME NEW u \in Threads
        PROVE  /\ pc'[u] = "idle" <=> todo'[u] = <<>>
               /\ Suits(pc'[u], Current(u)')
               /\ half'[u] => pc'[u] \in InsertSteps /\ Insert(pc'[u], Current(u)')[1] \in exists'
    <3>1. CASE u = t
      BY <2>2, <3>1, ZenonT(30)
    <3>2. CASE u # t
      BY <2>2, <2>3, <3>2, ZenonT(30) DEF ThreadInv
    <3> QED
      BY <3>1, <3>2, Zenon
  <2>6. ThreadInv'
    BY <2>1, <2>5, ZenonT(30) DEF ThreadInv
  <2>7. KeysInv'
    <3>1. ASSUME NEW u \in Threads, half[u]
          PROVE  half'[u] /\ Insert(pc'[u], Current(u)')[1] = Insert(pc[u], Current(u))[1]
      <4>1. u # t
        BY <3>1
      <4>2. pc'[u] = pc[u] /\ Current(u)' = Current(u)
        BY <2>2, <2>3, <4>1, ZenonT(30)
      <4> QED
        BY <3>1, <4>2, Zenon
    <3> QED
      BY <2>1, <3>1 DEF KeysInv
  <2>8. ASSUME NEW x \in All, NEW u \in Threads
        PROVE  /\ OutPending(u, x) /\ x[1] \in Mine => OutPending(u, x)'
               /\ InPending(u, x) /\ x[3] \in Mine /\ x[2] # TYPE_ID => InPending(u, x)'
    <3>1. CASE u = t
      BY <2>2, <3>1, ZenonT(30) DEF OutPending, InPending, NormalSteps
    <3>2. CASE u # t
      BY <2>2, <2>3, <3>2, ZenonT(30) DEF OutPending, InPending
    <3> QED
      BY <3>1, <3>2, ZenonT(30)
  <2>9. NormalInv'
    <3>1. /\ \A k \in NormalKeys : kv'[k] = kv[k]
          /\ \A k, v : Has(k, v)' <=> Has(k, v)
      BY DEF Has
    <3>2. ASSUME NEW x \in All, x[1] \in Mine
          PROVE  Has(<<x[1], x[2], OUT_>>, x[3])' \/ \E u \in Threads : OutPending(u, x)'
      BY <2>8, <3>1, <3>2, ZenonT(30) DEF NormalInv
    <3>3. ASSUME NEW x \in All, x[3] \in Mine, x[2] # TYPE_ID
          PROVE  Has(<<x[3], x[2], IN_>>, x[1])' \/ \E u \in Threads : InPending(u, x)'
      BY <2>8, <3>1, <3>3, Zenon DEF NormalInv
    <3> QED
      BY <2>1, <3>1, <3>2, <3>3, Zenon DEF NormalInv
  <2> QED
    BY <2>4, <2>6, <2>7, <2>9, Zenon

\* check_key_exist: an entry of one of the lists becomes due only if it is
\* neither there nor due from another thread.
<1>CheckInv.
    ASSUME IndexInv, NEW t \in Threads, check_key_exist(t)
    PROVE  IndexInv'
  <2> USE <1>CheckInv
  <2> USE DEF IndexInv
  <2>1. /\ pc[t] \in CheckSteps /\ pc[t] # "idle" /\ pc[t] \notin NormalSteps /\ ~ half[t]
        /\ pc[t] \in Steps
    <3>1. pc[t] \in Steps /\ half[t] \in BOOLEAN
      BY DEF TypeInv
    <3>2. pc[t] \notin InsertSteps \cup {"idle", "end"}
      BY DEF check_key_exist
    <3>3. ~ half[t]
      BY <3>1, <3>2, Zenon DEF ThreadInv
    <3> QED
      BY <3>1, <3>2, <3>3
      DEF Steps, TypeSteps, OutSteps, InSteps, InsertSteps, CheckSteps, NormalSteps
  <2>2. Current(t) \in Known /\ Suits(pc[t], Current(t))
    BY <2>1, <1>CurrentTriple
  <2> DEFINE found == Buddy(pc[t], Current(t)) \in exists
             step == AfterCheck(pc[t], found)
  <2>3. step \in Steps \ (NormalSteps \cup {"idle"}) /\ Suits(step, Current(t))
    <3>1. found \in BOOLEAN
      OBVIOUS
    <3>2. \A b \in BOOLEAN : /\ AfterCheck(pc[t], b) \in Steps \ (NormalSteps \cup {"idle"})
                             /\ Suits(AfterCheck(pc[t], b), Current(t))
      BY <2>1, <2>2, <1>AfterSuits
    <3> HIDE DEF found
    <3> QED
      BY <3>1, <3>2
  <2>4. Goto(t, step) /\ UNCHANGED <<check_dup, files, kv, exists, half>>
    BY DEF check_key_exist
  <2>5. PICK key \in PairedKeys :
           /\ \A k : Checking(pc[t], Current(t), k) <=> k = key
           /\ Buddy(pc[t], Current(t)) = Flip(key)
           /\ \A k : ~ Checking(step, Current(t), k)
           /\ \A k, v : Due(step, Current(t), k, v) <=>
                 \/ Due(pc[t], Current(t), k, v)
                 \/ ~ found /\ Versatile /\ k = ListOf(key) /\ v = EntryOf(key)
    <3>1. found \in BOOLEAN
      OBVIOUS
    <3> HIDE DEF found
    <3> QED
      BY <2>1, <2>2, <3>1, <1>CheckAfter, ZenonT(30)
  <2>6. found <=> Flip(key) \in exists
    BY <2>5
  <2> HIDE DEF found, step
  <2>7. TypeInv' /\ ThreadInv' /\ KeysInv' /\ NormalInv'
    BY <2>1, <2>3, <2>4, <1>Moved
  <2>8. Threads' = Threads
    BY <2>4 DEF Threads
  <2>9. /\ \A k, v : DueOf(t, k, v)' <=>
                 DueOf(t, k, v) \/ (~ found /\ Versatile /\ k = ListOf(key) /\ v = EntryOf(key))
        /\ \A k : ChecksOf(t, k) <=> k = key
        /\ \A k : ~ ChecksOf(t, k)'
        /\ \A u \in Threads \ {t} : \A k, v :
              (DueOf(u, k, v)' <=> DueOf(u, k, v)) /\ (ChecksOf(u, k)' <=> ChecksOf(u, k))
        /\ \A k, v : Has(k, v)' <=> Has(k, v)
    <3>1. /\ \A u \in Threads \ {t} : pc'[u] = pc[u] /\ todo'[u] = todo[u]
          /\ \A k, v : DueOf(t, k, v)' <=> Due(step, Current(t), k, v)
          /\ \A k : ChecksOf(t, k)' <=> Checking(step, Current(t), k)
      BY <2>1, <2>3, <2>4, <1>GotoStep, ZenonT(30)
    <3>2. \A u \in Threads \ {t} : Current(u)' = Current(u)
      BY <3>1, ZenonT(30) DEF Current
    <3>3. \A u \in Threads \ {t} : \A k, v :
              (DueOf(u, k, v)' <=> DueOf(u, k, v)) /\ (ChecksOf(u, k)' <=> ChecksOf(u, k))
      BY <3>1, <3>2, Zenon DEF DueOf, ChecksOf
    <3>4. \A k, v : Has(k, v)' <=> Has(k, v)
      BY <2>4 DEF Has
    <3>5. /\ \A k, v : DueOf(t, k, v) <=> Due(pc[t], Current(t), k, v)
          /\ \A k : ChecksOf(t, k) <=> Checking(pc[t], Current(t), k)
      BY DEF DueOf, ChecksOf
    <3> QED
      BY <2>5, <3>1, <3>3, <3>4, <3>5, ZenonT(30)
  <2>10. \A k, v : Sourced(k, v)' <=>
            Sourced(k, v) \/ (~ found /\ Versatile /\ k = ListOf(key) /\ v = EntryOf(key))
    BY <2>8, <2>9 DEF Sourced
  <2>11. /\ kv[key] # <<>> /\ key \in exists
         /\ \A u \in Threads : ChecksOf(u, key) => u = t
         /\ ~ found => ~ Sourced(ListOf(key), EntryOf(key))
         /\ ListOf(key) \in Lists
    BY <2>6, <2>9, <1>PairedShape, ZenonT(30) DEF ListInv, KeysInv
  <2>12. OnceInv'
    <3>1. ASSUME NEW k \in DerivedKeys, NEW v \in Nat, NEW u \in Threads, DueOf(u, k, v)'
          PROVE  ~ Has(k, v)' /\ \A w \in Threads : DueOf(w, k, v)' => w = u
      <4>1. CASE ~ found /\ Versatile /\ k = ListOf(key) /\ v = EntryOf(key)
        <5>1. ~ Has(k, v) /\ \A w \in Threads : ~ DueOf(w, k, v)
          BY <2>11, <4>1 DEF Sourced
        <5> QED
          BY <2>9, <3>1, <5>1, Zenon
      <4>2. CASE ~ (~ found /\ Versatile /\ k = ListOf(key) /\ v = EntryOf(key))
        BY <2>9, <3>1, <4>2 DEF OnceInv
      <4> QED
        BY <4>1, <4>2
    <3>2. \A k \in DerivedKeys : IsInjective(kv'[k])
      BY <2>4 DEF OnceInv
    <3> QED
      BY <2>8, <3>1, <3>2, Zenon DEF OnceInv
  <2>13. CauseInv'
    <3>1. \A k, v : Cause(k, v)' <=> Cause(k, v)
      BY <2>4 DEF Cause
    <3> QED
      BY <2>10, <2>11, <3>1, Zenon DEF CauseInv
  <2>14. ListInv'
    <3>1. ASSUME NEW k \in PairedKeys, ~ found, Versatile, ListOf(k) = ListOf(key), EntryOf(k) = EntryOf(key)
          PROVE  k \in {key, Flip(key)}
      BY <3>1, <1>PairedShape
    <3>2. ASSUME NEW k \in PairedKeys, NEW u \in Threads, ChecksOf(u, k)'
          PROVE  /\ kv'[k] # <<>>
                 /\ \A w \in Threads : ChecksOf(w, k)' => w = u
                 /\ Sourced(ListOf(k), EntryOf(k))' => Flip(k) \in exists'
      <4>1. u # t /\ ChecksOf(u, k)
        BY <2>9, <3>2, Zenon
      <4>2. kv[k] # <<>> /\ \A w \in Threads : ChecksOf(w, k) => w = u
        BY <4>1 DEF ListInv
      <4>3. ASSUME Sourced(ListOf(k), EntryOf(k))' PROVE Flip(k) \in exists
        <5>1. CASE Sourced(ListOf(k), EntryOf(k))
          BY <4>1, <5>1, Zenon DEF ListInv
        <5>2. CASE ~ Sourced(ListOf(k), EntryOf(k))
          <6>1. k \in {key, Flip(key)}
            BY <2>10, <3>1, <4>3, <5>2, Zenon
          <6>2. k # key
            BY <2>11, <4>1
          <6> QED
            BY <2>11, <6>1, <6>2, <1>PairedShape, ZenonT(30)
        <5> QED
          BY <5>1, <5>2, Zenon
      <4> QED
        BY <2>4, <2>9, <4>2, <4>3, Zenon
    <3>3. ASSUME NEW k \in PairedKeys, Sourced(ListOf(k), EntryOf(k))'
          PROVE  Versatile /\ (kv'[k] # <<>> \/ kv'[Flip(k)] # <<>>)
      <4>1. CASE Sourced(ListOf(k), EntryOf(k))
        BY <2>4, <4>1, Zenon DEF ListInv
      <4>2. CASE ~ Sourced(ListOf(k), EntryOf(k))
        <5>1. Versatile /\ k \in {key, Flip(key)}
          BY <2>10, <3>1, <3>3, <4>2, Zenon
        <5> QED
          BY <2>4, <2>11, <5>1, <1>PairedShape, Zenon
      <4> QED
        BY <4>1, <4>2, Zenon
    <3> QED
      BY <2>8, <2>9, <3>2, <3>3, Zenon DEF ListInv
  <2>15. FileInv'
    <3>1. todo[t] # <<>>
      BY <2>1 DEF ThreadInv
    <3>2. \A u \in Threads : \A i \in DOMAIN todo'[u] : todo'[u][i][2] \in Range(files[u])
      BY <2>4, <3>1, <1>GotoFiles
    <3> QED
      BY <2>4, <2>8, <3>2 DEF FileInv
  <2>16. RacedInv'
    <3>1. \A k, v : Raced(k, v)' <=> Raced(k, v)
      BY <2>4, <2>8, Zenon DEF Raced
    <3>2. ASSUME Versatile, NEW k \in PairedKeys, kv[k] # <<>>
          PROVE  \/ Sourced(ListOf(k), EntryOf(k))'
                 \/ \E u \in Threads : ChecksOf(u, k)'
                 \/ Raced(ListOf(k), EntryOf(k))
      <4>1. Sourced(ListOf(k), EntryOf(k)) => Sourced(ListOf(k), EntryOf(k))'
        BY <2>10, Zenon
      <4>2. \/ Sourced(ListOf(k), EntryOf(k))
            \/ \E u \in Threads : ChecksOf(u, k)
            \/ Raced(ListOf(k), EntryOf(k))
        BY <3>2 DEF RacedInv
      <4>3. CASE ChecksOf(t, k) /\ ~ Sourced(ListOf(k), EntryOf(k))
        <5>1. k = key
          BY <2>9, <4>3, Zenon
        <5>2. CASE ~ found
          BY <2>10, <3>2, <5>1, <5>2
        <5>3. CASE found
          <6>1. /\ Flip(key) \in PairedKeys /\ Flip(key) \in Keys /\ Flip(key) # key
                /\ ListOf(Flip(key)) = ListOf(key) /\ EntryOf(Flip(key)) = EntryOf(key)
            BY <1>PairedShape DEF PairedKeys
          <6>2. \E x \in Range(files[t]) : Brings(x, Side(key), ListOf(key), EntryOf(key))
            BY <2>1, <4>3, <5>1, <1>Filler
          <6>3. ASSUME NEW u \in Threads, u # t, pc[u] # "idle",
                       ChecksOf(u, Flip(key)) \/ (pc[u] \in InsertSteps /\ Insert(pc[u], Current(u))[1] = Flip(key))
                PROVE  Raced(ListOf(key), EntryOf(key))
            <7>1. \E y \in Range(files[u]) : Brings(y, Side(Flip(key)), ListOf(Flip(key)), EntryOf(Flip(key)))
              BY <6>1, <6>3, <1>Filler
            <7> QED
              BY <6>2, <6>3, <7>1, <1>TwoFillers
          <6>4. CASE kv[Flip(key)] # <<>>
            <7>1. \/ Sourced(ListOf(key), EntryOf(key))
                  \/ \E u \in Threads : ChecksOf(u, Flip(key))
                  \/ Raced(ListOf(key), EntryOf(key))
              BY <3>2, <6>1, <6>4 DEF RacedInv
            <7>2. ASSUME NEW u \in Threads, ChecksOf(u, Flip(key)) PROVE u # t /\ pc[u] # "idle"
              <8>1. u # t
                BY <2>9, <6>1, <7>2, Zenon
              <8> QED
                BY <7>2, <8>1, NoDue, Zenon DEF ChecksOf
            <7> QED
              BY <4>3, <5>1, <6>3, <7>1, <7>2, Zenon
          <6>5. CASE kv[Flip(key)] = <<>>
            <7>1. PICK u \in Threads : half[u] /\ Insert(pc[u], Current(u))[1] = Flip(key)
              BY <2>6, <5>3, <6>1, <6>5, Zenon DEF KeysInv
            <7>2. u # t /\ pc[u] \in InsertSteps
              BY <2>1, <7>1 DEF ThreadInv
            <7>3. pc[u] # "idle"
              BY <7>2 DEF InsertSteps
            <7> QED
              BY <5>1, <6>3, <7>1, <7>2, <7>3, Zenon
          <6> QED
            BY <6>4, <6>5
        <5> QED
          BY <5>2, <5>3
      <4> QED
        BY <2>9, <4>1, <4>2, <4>3
    <3> QED
      BY <2>4, <2>8, <3>1, <3>2, Zenon DEF RacedInv
  <2> QED
    BY <2>7, <2>12, <2>13, <2>14, <2>15, <2>16, Zenon
<1>SkipInv.
    ASSUME IndexInv, NEW t \in Threads, Skip(t)
    PROVE  IndexInv'
  <2> USE <1>SkipInv
  <2> USE DEF IndexInv
  <2>1. pc[t] = "end" /\ Goto(t, "end") /\ UNCHANGED <<check_dup, files, kv, exists, half>>
    BY DEF Skip
  <2>2. ~ half[t] /\ Suits("end", Current(t)) /\ "end" \in Steps \ (NormalSteps \cup {"idle"})
    BY <2>1, Zenon DEF TypeInv, ThreadInv, InsertSteps, Steps, NormalSteps
  <2>3. TypeInv' /\ ThreadInv' /\ KeysInv' /\ NormalInv'
    BY <2>1, <2>2, <1>Moved, Zenon DEF NormalSteps
  <2>4. Threads' = Threads
    BY <2>1 DEF Threads
  <2>5. \A u \in Threads : \A k, v :
           (DueOf(u, k, v)' <=> DueOf(u, k, v)) /\ (ChecksOf(u, k)' <=> ChecksOf(u, k))
    <3>1. /\ \A u \in Threads \ {t} : pc'[u] = pc[u] /\ todo'[u] = todo[u]
          /\ \A k, v : DueOf(t, k, v)' <=> Due("end", Current(t), k, v)
          /\ \A k : ChecksOf(t, k)' <=> Checking("end", Current(t), k)
      BY <2>1, <2>2, <1>GotoStep, ZenonT(30)
    <3>2. \A u \in Threads \ {t} : Current(u)' = Current(u)
      BY <3>1, Zenon DEF Current
    <3> QED
      BY <2>1, <3>1, <3>2, ZenonT(30) DEF DueOf, ChecksOf
  <2>6. /\ \A k, v : Has(k, v)' <=> Has(k, v)
        /\ \A k, v : Cause(k, v)' <=> Cause(k, v)
    BY <2>1 DEF Has, Cause
  <2>7. \A k, v : Sourced(k, v)' <=> Sourced(k, v)
    BY <2>4, <2>5, <2>6, Zenon DEF Sourced
  <2>8. OnceInv' /\ CauseInv'
    BY <2>1, <2>4, <2>5, <2>6, <2>7 DEF OnceInv, CauseInv
  <2>9. ListInv'
    BY <2>1, <2>4, <2>5, <2>6, <2>7, Zenon DEF ListInv
  <2>10. RacedInv'
    <3>1. \A k, v : Raced(k, v)' <=> Raced(k, v)
      BY <2>1, <2>4, Zenon DEF Raced
    <3> QED
      BY <2>1, <2>4, <2>5, <2>7, <3>1, Zenon DEF RacedInv
  <2>11. FileInv'
    <3>1. todo[t] # <<>>
      BY <2>1 DEF ThreadInv
    <3>2. \A u \in Threads : \A i \in DOMAIN todo'[u] : todo'[u][i][2] \in Range(files[u])
      BY <2>1, <3>1, <1>GotoFiles
    <3> QED
      BY <2>1, <2>4, <3>2 DEF FileInv
  <2> QED
    BY <2>3, <2>8, <2>9, <2>10, <2>11

\* insert_key only adds the key to the header region.
<1>InsertKeyInv.
    ASSUME IndexInv, NEW t \in Threads, insert_key(t)
    PROVE  IndexInv'
  <2> USE <1>InsertKeyInv
  <2> USE DEF IndexInv
  <2>1. /\ pc[t] \in InsertSteps /\ ~ half[t] /\ exists' = exists \cup {KeyAt(t)}
        /\ half' = [half EXCEPT ![t] = TRUE] /\ UNCHANGED <<check_dup, files, kv, todo, pc>>
    BY Zenon DEF insert_key, KeyAt
  <2>2. Threads' = Threads /\ All' = All /\ \A u \in Threads : Current(u)' = Current(u)
    BY <2>1 DEF Threads, All, Current
  <2>3. KeyAt(t) \in Keys
    <3>1. pc[t] # "idle"
      BY <2>1 DEF InsertSteps
    <3> QED
      BY <2>1, <3>1, <1>CurrentTriple, <1>InsertKeys DEF KeyAt
  <2>4. half' \in [Threads -> BOOLEAN] /\ half'[t] /\ \A u \in Threads \ {t} : half'[u] = half[u]
    BY <2>1 DEF TypeInv
  <2>5. TypeInv'
    BY <2>1, <2>2, <2>3, <2>4, Zenon DEF TypeInv
  <2>6. ASSUME NEW u \in Threads
        PROVE  /\ pc'[u] = "idle" <=> todo'[u] = <<>>
               /\ Suits(pc'[u], Current(u)')
               /\ half'[u] => pc'[u] \in InsertSteps /\ Insert(pc'[u], Current(u)')[1] \in exists'
    <3>1. CASE u = t
      BY <2>1, <2>2, <3>1, ZenonT(30) DEF ThreadInv, KeyAt
    <3>2. CASE u # t
      BY <2>1, <2>2, <2>4, <3>2, ZenonT(30) DEF ThreadInv
    <3> QED
      BY <3>1, <3>2
  <2>7. ThreadInv'
    BY <2>2, <2>6, ZenonT(30) DEF ThreadInv
  <2>8. KeysInv'
    <3>1. ASSUME NEW k \in Keys, k \in exists', kv[k] = <<>>
          PROVE  \E u \in Threads : half'[u] /\ Insert(pc[u], Current(u))[1] = k
      <4>1. CASE k = KeyAt(t)
        BY <2>4, <4>1, Zenon DEF KeyAt
      <4>2. CASE k \in exists
        <5>1. PICK u \in Threads : half[u] /\ Insert(pc[u], Current(u))[1] = k
          BY <3>1, <4>2, Zenon DEF KeysInv
        <5> QED
          BY <2>4, <5>1, Zenon
      <4> QED
        BY <2>1, <3>1, <4>1, <4>2, Zenon
    <3>2. ASSUME NEW k \in Keys, kv[k] # <<>> PROVE k \in exists'
      BY <2>1, <3>2 DEF KeysInv
    <3>3. ASSUME NEW k \in Keys, k \in exists', kv'[k] = <<>>
          PROVE  \E u \in Threads' : half'[u] /\ Insert(pc'[u], Current(u)')[1] = k
      <4>1. PICK u \in Threads : half'[u] /\ Insert(pc[u], Current(u))[1] = k
        BY <2>1, <3>1, <3>3, Zenon
      <4>2. u \in Threads' /\ pc'[u] = pc[u] /\ Current(u)' = Current(u)
        BY <2>1, <2>2, <4>1, Zenon
      <4> QED
        BY <4>1, <4>2, Zenon
    <3>4. ASSUME NEW k \in Keys, kv'[k] # <<>> PROVE k \in exists'
      BY <2>1, <3>2, <3>4, Zenon
    <3> QED
      BY <3>3, <3>4, Zenon DEF KeysInv
  <2>9. NormalInv'
    BY <2>1, <2>2, ZenonT(30) DEF NormalInv, Has, OutPending, InPending
  <2>10. /\ \A u \in Threads : \A k, v :
              (DueOf(u, k, v)' <=> DueOf(u, k, v)) /\ (ChecksOf(u, k)' <=> ChecksOf(u, k))
         /\ \A k, v : Has(k, v)' <=> Has(k, v)
         /\ \A k, v : Cause(k, v)' <=> Cause(k, v)
    BY <2>1, <2>2 DEF DueOf, ChecksOf, Has, Cause
  <2>11. \A k, v : Sourced(k, v)' <=> Sourced(k, v)
    BY <2>2, <2>10, Zenon DEF Sourced
  <2>12. OnceInv' /\ CauseInv'
    BY <2>1, <2>2, <2>10, <2>11 DEF OnceInv, CauseInv
  <2>13. ListInv'
    BY <2>1, <2>2, <2>10, <2>11, Zenon DEF ListInv
  <2>14. FileInv'
    BY <2>1, <2>2, Zenon DEF FileInv
  <2>15. RacedInv'
    <3>1. \A k, v : Raced(k, v)' <=> Raced(k, v)
      BY <2>1, <2>2, Zenon DEF Raced
    <3> QED
      BY <2>1, <2>2, <2>10, <2>11, <3>1, Zenon DEF RacedInv
  <2> QED
    BY <2>5, <2>7, <2>8, <2>9, <2>12, <2>13, <2>14, <2>15, Zenon
<1> SUFFICES ASSUME IndexInv, [Next]_vars PROVE IndexInv'
  OBVIOUS
<1>1. ASSUME NEW t \in Threads, insert_vertex_edge(t) PROVE IndexInv'
  BY <1>1, <1>EdgeThreads, <1>EdgeKeys, <1>EdgeNormal, <1>EdgeOnce, <1>EdgeLists, <1>EdgeFiles, <1>EdgeRaced,
     Zenon DEF IndexInv
<1>2. CASE UNCHANGED vars
  <2>1. /\ Threads' = Threads /\ All' = All /\ \A u \in Threads : Current(u)' = Current(u)
        /\ UNCHANGED <<check_dup, files, kv, exists, todo, pc, half>>
    BY <1>2 DEF vars, Threads, All, Current
  <2>2. TypeInv' /\ ThreadInv' /\ KeysInv'
    <3>1. TypeInv'
      BY <2>1, Zenon DEF IndexInv, TypeInv
    <3>2. ThreadInv'
      BY <2>1, ZenonT(30) DEF IndexInv, ThreadInv
    <3>3. KeysInv'
      BY <2>1, Zenon DEF IndexInv, KeysInv
    <3> QED
      BY <3>1, <3>2, <3>3
  <2>3. NormalInv'
    BY <2>1, ZenonT(30) DEF IndexInv, NormalInv, Has, OutPending, InPending
  <2>4. /\ \A u \in Threads : \A k, v :
              (DueOf(u, k, v)' <=> DueOf(u, k, v)) /\ (ChecksOf(u, k)' <=> ChecksOf(u, k))
        /\ \A k, v : Has(k, v)' <=> Has(k, v)
        /\ \A k, v : Cause(k, v)' <=> Cause(k, v)
    BY <2>1 DEF DueOf, ChecksOf, Has, Cause
  <2>5. \A k, v : Sourced(k, v)' <=> Sourced(k, v)
    BY <2>1, <2>4 DEF Sourced
  <2>6. OnceInv' /\ CauseInv'
    BY <2>1, <2>4, <2>5 DEF IndexInv, OnceInv, CauseInv
  <2>7. ListInv'
    BY <2>1, <2>4, <2>5, ZenonT(30) DEF IndexInv, ListInv
  <2>8. FileInv'
    BY <2>1, Zenon DEF IndexInv, FileInv
  <2>9. RacedInv'
    <3>1. \A k, v : Raced(k, v)' <=> Raced(k, v)
      BY <2>1, Zenon DEF Raced
    <3> QED
      BY <2>1, <2>4, <2>5, <3>1, Zenon DEF IndexInv, RacedInv
  <2> QED
    BY <2>2, <2>3, <2>6, <2>7, <2>8, <2>9, Zenon DEF IndexInv
<1> QED
  BY <1>1, <1>2, <1>CheckInv, <1>SkipInv, <1>InsertKeyInv DEF Next, Finished

-----------------------------------------------------------------------------
(* The store when all threads are done.                                    *)

\* What belongs into the keys of a vertex, by the triples, ...
LEMMA NormalOf ==
    ASSUME NEW T, NEW k \in Keys, k[1] # 0, NEW v
    PROVE  /\ k[2] # PREDICATE_ID /\ k[3] = OUT_ =>
                 (v \in Normal(T, k) <=> \E x \in T : x[1] = k[1] /\ x[2] = k[2] /\ x[3] = v)
           /\ k[2] # PREDICATE_ID /\ k[3] = IN_ =>
                 (v \in Normal(T, k) <=>
                    \E x \in T : x[3] = k[1] /\ x[2] = k[2] /\ x[2] # TYPE_ID /\ x[1] = v)
           /\ k[2] = PREDICATE_ID /\ k[3] = OUT_ =>
                 (v \in Normal(T, k) <=> Versatile /\ \E x \in T : x[1] = k[1] /\ x[2] = v)
           /\ k[2] = PREDICATE_ID /\ k[3] = IN_ =>
                 (v \in Normal(T, k) <=>
                    Versatile /\ \E x \in T : x[3] = k[1] /\ x[2] # TYPE_ID /\ x[2] = v)
<1>1. CASE k[2] # PREDICATE_ID
  BY <1>1, Ids DEF Normal
<1>2. CASE k[2] = PREDICATE_ID
  BY <1>2, Ids DEF Normal
<1> QED
  BY <1>1, <1>2

\* ... and what belongs into the index vertices.
LEMMA IndexOf ==
    ASSUME NEW val, NEW v
    PROVE  /\ \A p \in Predicates : \A d \in {IN_, OUT_} :
                 v \in Index(val, <<0, p, d>>) <=> v \in Mine /\ val[<<v, p, Opposite(d)>>] # {}
           /\ \A p \in Types :
                 /\ v \in Index(val, <<0, p, IN_>>) <=> v \in Mine /\ p \in val[<<v, TYPE_ID, OUT_>>]
                 /\ v \notin Index(val, <<0, p, OUT_>>)
           /\ v \in Index(val, <<0, TYPE_ID, IN_>>) <=> Versatile /\ v \in Mine /\
                 \/ val[<<v, PREDICATE_ID, IN_>>] # {}
                 \/ val[<<v, PREDICATE_ID, OUT_>>] # {}
                 \/ val[<<v, TYPE_ID, OUT_>>] # {}
           /\ v \in Index(val, <<0, TYPE_ID, OUT_>>) <=>
                 Versatile /\ \E a \in Mine : v \in val[<<a, TYPE_ID, OUT_>>]
           /\ v \in Index(val, <<0, PREDICATE_ID, OUT_>>) <=>
                 Versatile /\ \E a \in Mine : \E d \in {IN_, OUT_} : v \in val[<<a, PREDICATE_ID, d>>]
           /\ v \notin Index(val, <<0, PREDICATE_ID, IN_>>)
<1>1. ASSUME NEW p \in Predicates, NEW d \in {IN_, OUT_}
      PROVE  v \in Index(val, <<0, p, d>>) <=> v \in Mine /\ val[<<v, p, Opposite(d)>>] # {}
  BY Ids, Zenon DEF Index, Opposite
<1>2. ASSUME NEW p \in Types
      PROVE  /\ v \in Index(val, <<0, p, IN_>>) <=> v \in Mine /\ p \in val[<<v, TYPE_ID, OUT_>>]
             /\ v \notin Index(val, <<0, p, OUT_>>)
  BY Ids, Zenon DEF Index
<1>3. v \in Index(val, <<0, TYPE_ID, IN_>>) <=> Versatile /\ v \in Mine /\
         \/ val[<<v, PREDICATE_ID, IN_>>] # {}
         \/ val[<<v, PREDICATE_ID, OUT_>>] # {}
         \/ val[<<v, TYPE_ID, OUT_>>] # {}
  BY Ids, Zenon DEF Index
<1>4. v \in Index(val, <<0, TYPE_ID, OUT_>>) <=>
         Versatile /\ \E a \in Mine : v \in val[<<a, TYPE_ID, OUT_>>]
  <2>1. Index(val, <<0, TYPE_ID, OUT_>>) =
           IF Versatile THEN UNION {val[<<a, TYPE_ID, OUT_>>] : a \in Mine} ELSE {}
    BY Ids, Zenon DEF Index
  <2>2. CASE Versatile
    <3>1. Index(val, <<0, TYPE_ID, OUT_>>) = UNION {val[<<a, TYPE_ID, OUT_>>] : a \in Mine}
      BY <2>1, <2>2, Zenon
    <3> QED
      BY <2>2, <3>1, Zenon
  <2>3. CASE ~ Versatile
    BY <2>1, <2>3, Zenon
  <2> QED
    BY <2>2, <2>3, Zenon
<1>5. v \in Index(val, <<0, PREDICATE_ID, OUT_>>) <=>
         Versatile /\ \E a \in Mine : \E d \in {IN_, OUT_} : v \in val[<<a, PREDICATE_ID, d>>]
  <2> DEFINE A == UNION {val[<<a, PREDICATE_ID, IN_>>] : a \in Mine}
             B == UNION {val[<<a, PREDICATE_ID, OUT_>>] : a \in Mine}
  <2>1. CASE ~ Versatile
    BY <2>1, Ids, Zenon DEF Index
  <2>2. CASE Versatile
    <3>1. PREDICATE_ID \notin Predicates /\ PREDICATE_ID \notin Types /\ PREDICATE_ID # TYPE_ID /\ IN_ # OUT_
      BY Ids
    <3>2. Index(val, <<0, PREDICATE_ID, OUT_>>) = A \cup B
      BY <2>2, <3>1, Zenon DEF Index
    <3>3. v \in A <=> \E a \in Mine : v \in val[<<a, PREDICATE_ID, IN_>>]
      BY Zenon
    <3>4. v \in B <=> \E a \in Mine : v \in val[<<a, PREDICATE_ID, OUT_>>]
      BY Zenon
    <3> HIDE DEF A, B
    <3> QED
      BY <2>2, <3>2, <3>3, <3>4
  <2> QED
    BY <2>1, <2>2, Zenon
<1>6. v \notin Index(val, <<0, PREDICATE_ID, IN_>>)
  BY Ids, Zenon DEF Index
<1> QED
  BY <1>1, <1>2, <1>3, <1>4, <1>5, <1>6, Zenon

\* A key without values is empty.
LEMMA Emptiness ==
    ASSUME NEW s \in Seq(Nat)
    PROVE  s # <<>> <=> \E v : v \in Range(s)
<1>1. DOMAIN s = 1 .. Len(s) /\ Len(s) \in Nat /\ (s = <<>> <=> Len(s) = 0)
  OBVIOUS
<1>2. s # <<>> => 1 \in DOMAIN s
  BY <1>1
<1>3. s = <<>> => \A i : i \notin DOMAIN s
  BY <1>1
<1> QED
  BY <1>2, <1>3 DEF Range

\* The same in terms of the store.
LEMMA IndexHas ==
    ASSUME NEW val, \A k \in Keys : k[1] \in Mine => \A a : a \in val[k] <=> Has(k, a),
           kv \in [Keys -> Seq(Nat)], NEW v
    PROVE  /\ \A p \in Predicates : \A d \in {IN_, OUT_} :
                 v \in Index(val, <<0, p, d>>) <=> v \in Mine /\ kv[<<v, p, Opposite(d)>>] # <<>>
           /\ \A p \in Types :
                 /\ v \in Index(val, <<0, p, IN_>>) <=> v \in Mine /\ Has(<<v, TYPE_ID, OUT_>>, p)
                 /\ v \notin Index(val, <<0, p, OUT_>>)
           /\ v \in Index(val, <<0, TYPE_ID, IN_>>) <=> Versatile /\ v \in Mine /\
                 \/ kv[<<v, PREDICATE_ID, IN_>>] # <<>>
                 \/ kv[<<v, PREDICATE_ID, OUT_>>] # <<>>
                 \/ kv[<<v, TYPE_ID, OUT_>>] # <<>>
           /\ v \in Index(val, <<0, TYPE_ID, OUT_>>) <=>
                 Versatile /\ \E a \in Mine : Has(<<a, TYPE_ID, OUT_>>, v)
           /\ v \in Index(val, <<0, PREDICATE_ID, OUT_>>) <=>
                 Versatile /\ \E a \in Mine : \E d \in {IN_, OUT_} : Has(<<a, PREDICATE_ID, d>>, v)
           /\ v \notin Index(val, <<0, PREDICATE_ID, IN_>>)
<1>1. ASSUME NEW a \in Mine, NEW q \in Pids, NEW d \in {IN_, OUT_}
      PROVE  /\ \A b : b \in val[<<a, q, d>>] <=> Has(<<a, q, d>>, b)
             /\ val[<<a, q, d>>] # {} <=> kv[<<a, q, d>>] # <<>>
  <2> DEFINE k == <<a, q, d>>
  <2>1. k \in Keys /\ k[1] \in Mine
    BY KeyOf, Zenon
  <2> HIDE DEF k
  <2>2. (\A b : b \in val[k] <=> Has(k, b)) /\ kv[k] \in Seq(Nat)
    BY <2>1
  <2>3. val[k] # {} <=> kv[k] # <<>>
    BY <2>2, Emptiness, Zenon DEF Has
  <2> QED
    BY <2>2, <2>3, Zenon DEF k
<1>2. TYPE_ID \in Pids /\ PREDICATE_ID \in Pids /\ Predicates \subseteq Pids
  BY DEF Pids
<1>3. ASSUME NEW p \in Predicates, NEW d \in {IN_, OUT_}
      PROVE  v \in Index(val, <<0, p, d>>) <=> v \in Mine /\ kv[<<v, p, Opposite(d)>>] # <<>>
  <2>1. Opposite(d) \in {IN_, OUT_}
    BY Opposites
  <2>2. v \in Index(val, <<0, p, d>>) <=> v \in Mine /\ val[<<v, p, Opposite(d)>>] # {}
    BY IndexOf, Zenon
  <2> QED
    BY <1>1, <1>2, <2>1, <2>2, Zenon
<1>4. ASSUME NEW p \in Types
      PROVE  /\ v \in Index(val, <<0, p, IN_>>) <=> v \in Mine /\ Has(<<v, TYPE_ID, OUT_>>, p)
             /\ v \notin Index(val, <<0, p, OUT_>>)
  BY <1>1, <1>2, IndexOf, ZenonT(30)
<1>5. v \in Index(val, <<0, TYPE_ID, IN_>>) <=> Versatile /\ v \in Mine /\
         \/ kv[<<v, PREDICATE_ID, IN_>>] # <<>>
         \/ kv[<<v, PREDICATE_ID, OUT_>>] # <<>>
         \/ kv[<<v, TYPE_ID, OUT_>>] # <<>>
  <2>1. v \in Index(val, <<0, TYPE_ID, IN_>>) <=> Versatile /\ v \in Mine /\
           \/ val[<<v, PREDICATE_ID, IN_>>] # {}
           \/ val[<<v, PREDICATE_ID, OUT_>>] # {}
           \/ val[<<v, TYPE_ID, OUT_>>] # {}
    BY IndexOf, Zenon
  <2> QED
    BY <1>1, <1>2, <2>1, Zenon
<1>6. v \in Index(val, <<0, TYPE_ID, OUT_>>) <=>
         Versatile /\ \E a \in Mine : Has(<<a, TYPE_ID, OUT_>>, v)
  <2>1. v \in Index(val, <<0, TYPE_ID, OUT_>>) <=>
           Versatile /\ \E a \in Mine : v \in val[<<a, TYPE_ID, OUT_>>]
    BY IndexOf, Zenon
  <2> QED
    BY <1>1, <1>2, <2>1, Zenon
<1>7. v \in Index(val, <<0, PREDICATE_ID, OUT_>>) <=>
         Versatile /\ \E a \in Mine : \E d \in {IN_, OUT_} : Has(<<a, PREDICATE_ID, d>>, v)
  <2>1. v \in Index(val, <<0, PREDICATE_ID, OUT_>>) <=>
           Versatile /\ \E a \in Mine : \E d \in {IN_, OUT_} : v \in val[<<a, PREDICATE_ID, d>>]
    BY IndexOf, Zenon
  <2> QED
    BY <1>1, <1>2, <2>1, Zenon
<1>8. v \notin Index(val, <<0, PREDICATE_ID, IN_>>)
  BY IndexOf, Zenon
<1> QED
  BY <1>3, <1>4, <1>5, <1>6, <1>7, <1>8, ZenonT(30)

LEMMA IndexKinds ==
    ASSUME NEW k \in Keys, k[1] = 0
    PROVE  \/ \E p \in Predicates : \E d \in {IN_, OUT_} : k = <<0, p, d>>
           \/ \E p \in Types : k \in {<<0, p, IN_>>, <<0, p, OUT_>>}
           \/ k \in {<<0, TYPE_ID, IN_>>, <<0, TYPE_ID, OUT_>>, <<0, PREDICATE_ID, OUT_>>, <<0, PREDICATE_ID, IN_>>}
<1>1. k = <<0, k[2], k[3]>> /\ k[2] \in Pids /\ k[3] \in {IN_, OUT_}
  BY KeyForm
<1>2. k[2] \in Predicates \/ k[2] \in Types \/ k[2] = TYPE_ID \/ k[2] = PREDICATE_ID
  BY <1>1, Zenon DEF Pids
<1> QED
  BY <1>1, <1>2

LEMMA DoneOwesNothing ==
    ASSUME IndexInv, Done, NEW t \in Threads
    PROVE  /\ todo[t] = <<>> /\ ~ half[t]
           /\ \A k, v : ~ DueOf(t, k, v) /\ ~ ChecksOf(t, k)
           /\ \A x : ~ OutPending(t, x) /\ ~ InPending(t, x)
<1>1. pc[t] = "idle" /\ todo[t] = <<>>
  BY DEF Done, IndexInv, ThreadInv
<1>2. ~ half[t]
  BY <1>1 DEF IndexInv, ThreadInv, InsertSteps
<1>3. \A k, v : ~ DueOf(t, k, v) /\ ~ ChecksOf(t, k)
  BY <1>1, NoDue, Zenon DEF DueOf, ChecksOf
<1>4. ASSUME NEW x PROVE ~ OutPending(t, x) /\ ~ InPending(t, x)
  <2>1. Len(todo[t]) = 0
    BY <1>1
  <2> QED
    BY <1>1, <2>1 DEF OutPending, InPending
<1> QED
  BY <1>1, <1>2, <1>3, <1>4, Zenon

LEMMA DoneValues ==
    ASSUME IndexInv
    PROVE  /\ kv \in [Keys -> Seq(Nat)]
           /\ \A k \in Keys : kv[k] \in Seq(Nat) /\ Stored[k] = Range(kv[k]) /\ Stored[k] \subseteq Nat
           /\ \A k \in Keys : \A v : v \in Stored[k] <=> Has(k, v)
           /\ \A k \in Keys : kv[k] # <<>> <=> \E v : Has(k, v)
<1>1. kv \in [Keys -> Seq(Nat)]
  BY DEF IndexInv, TypeInv
<1>2. ASSUME NEW k \in Keys
      PROVE  /\ kv[k] \in Seq(Nat) /\ Stored[k] = Range(kv[k]) /\ Stored[k] \subseteq Nat
             /\ \A v : v \in Stored[k] <=> Has(k, v)
             /\ kv[k] # <<>> <=> \E v : Has(k, v)
  <2>1. kv[k] \in Seq(Nat) /\ Stored[k] = Range(kv[k])
    BY <1>1 DEF Stored
  <2>2. Range(kv[k]) \subseteq Nat
    BY <2>1 DEF Range
  <2>3. kv[k] # <<>> <=> \E v : v \in Range(kv[k])
    BY <2>1, Emptiness, Zenon
  <2> QED
    BY <2>1, <2>2, <2>3 DEF Has
<1> QED
  BY <1>1, <1>2

LEMMA DoneExists ==
    ASSUME IndexInv, Done, NEW k \in Keys
    PROVE  k \in exists <=> kv[k] # <<>>
<1>1. \A t \in Threads : ~ half[t]
  BY DoneOwesNothing
<1> QED
  BY <1>1, Zenon DEF IndexInv, KeysInv

LEMMA DoneCause ==
    ASSUME IndexInv, Done, NEW k \in DerivedKeys \ Lists, NEW v
    PROVE  Has(k, v) <=> v \in Nat /\ Cause(k, v)
<1>1. \A t \in Threads : ~ DueOf(t, k, v)
  BY DoneOwesNothing
<1>2. v \in Nat => (Sourced(k, v) <=> Cause(k, v))
  BY DEF IndexInv, CauseInv
<1>3. Has(k, v) => v \in Nat
  BY DoneValues DEF DerivedKeys
<1> QED
  BY <1>1, <1>2, <1>3, Zenon DEF Sourced

\* What the keys of a store hold that no thread is inserting into, by the
\* kind of the key: the indexes (1), ...
LEMMA DonePredicate ==
    ASSUME IndexInv, Done, NEW p \in Predicates, NEW d \in {IN_, OUT_}, NEW v
    PROVE  Has(<<0, p, d>>, v) <=> v \in Mine /\ kv[<<v, p, Opposite(d)>>] # <<>>
<1> DEFINE k == <<0, p, d>>
<1>1. k \in DerivedKeys \ Lists /\ k[1] = 0 /\ k[2] = p /\ k[3] = d
  <2>1. k \in Keys
    BY KeyOf, Zenon DEF Pids
  <2>2. k # <<0, TYPE_ID, IN_>> /\ k # <<0, PREDICATE_ID, OUT_>>
    BY Ids
  <2> QED
    BY <2>1, <2>2 DEF DerivedKeys, Lists
<1>2. k # <<0, TYPE_ID, OUT_>>
  BY Ids, Zenon
<1> HIDE DEF k
<1>3. Cause(k, v) <=> v \in Mine /\ kv[<<v, p, Opposite(d)>>] # <<>>
  BY <1>1, <1>2, Ids DEF Cause, CauseOf
<1>4. Has(k, v) <=> v \in Nat /\ Cause(k, v)
  BY <1>1, DoneCause
<1> QED
  BY <1>3, <1>4, Ids, Zenon DEF k

\* ... (2), ...
LEMMA DoneType ==
    ASSUME IndexInv, Done, NEW p \in Types, NEW d \in {IN_, OUT_}, NEW v
    PROVE  Has(<<0, p, d>>, v) <=> d = IN_ /\ v \in Mine /\ Has(<<v, TYPE_ID, OUT_>>, p)
<1> DEFINE k == <<0, p, d>>
<1>1. k \in DerivedKeys \ Lists /\ k[1] = 0 /\ k[2] = p /\ k[3] = d
  <2>1. k \in Keys
    BY KeyOf, Zenon DEF Pids
  <2>2. k # <<0, TYPE_ID, IN_>> /\ k # <<0, PREDICATE_ID, OUT_>>
    BY Ids
  <2> QED
    BY <2>1, <2>2 DEF DerivedKeys, Lists
<1>2. k # <<0, TYPE_ID, OUT_>> /\ p \notin Predicates
  BY Ids, Zenon
<1> HIDE DEF k
<1>3. Cause(k, v) <=> d = IN_ /\ v \in Mine /\ Has(<<v, TYPE_ID, OUT_>>, p)
  BY <1>1, <1>2, Zenon DEF Cause, CauseOf, Has
<1>4. Has(k, v) <=> v \in Nat /\ Cause(k, v)
  BY <1>1, DoneCause
<1> QED
  BY <1>3, <1>4, Ids, Zenon DEF k

\* ... the predicates of a vertex, ...
LEMMA DoneVertex ==
    ASSUME IndexInv, Done, NEW a \in Mine, NEW d \in {IN_, OUT_}, NEW v
    PROVE  Has(<<a, PREDICATE_ID, d>>, v) <=>
              Versatile /\ v \in Predicates \cup {TYPE_ID} /\ kv[<<a, v, d>>] # <<>>
<1> DEFINE k == <<a, PREDICATE_ID, d>>
<1>1. k \in DerivedKeys \ Lists /\ k[1] = a /\ k[3] = d
  <2>1. k \in Keys
    BY KeyOf, Zenon DEF Pids
  <2>2. k # <<0, TYPE_ID, IN_>> /\ k # <<0, PREDICATE_ID, OUT_>>
    BY Ids
  <2> QED
    BY <2>1, <2>2 DEF DerivedKeys, Lists
<1>2. k # <<0, TYPE_ID, OUT_>> /\ a # 0
  BY Ids, Zenon
<1> HIDE DEF k
<1>3. Cause(k, v) <=> Versatile /\ v \in Predicates \cup {TYPE_ID} /\ kv[<<a, v, d>>] # <<>>
  BY <1>1, <1>2 DEF Cause, CauseOf
<1>4. Has(k, v) <=> v \in Nat /\ Cause(k, v)
  BY <1>1, DoneCause
<1>5. v \in Predicates \cup {TYPE_ID} => v \in Nat
  BY Ids, PredicatesAndTypes
<1> QED
  BY <1>3, <1>4, <1>5 DEF k

\* ... the list of all types, ...
LEMMA DoneTypes ==
    ASSUME IndexInv, Done, NEW v
    PROVE  Has(<<0, TYPE_ID, OUT_>>, v) <=> Versatile /\ v \in Types /\ kv[<<0, v, IN_>>] # <<>>
<1> DEFINE k == <<0, TYPE_ID, OUT_>>
<1>1. k \in DerivedKeys \ Lists
  BY ListKeys
<1>2. k[1] = 0 /\ k[2] \notin Predicates /\ k[2] \notin Types
  BY Ids, Zenon
<1>3. Cause(k, v) <=> Versatile /\ v \in Types /\ kv[<<0, v, IN_>>] # <<>>
  BY <1>2 DEF Cause, CauseOf
<1> HIDE DEF k
<1>4. Has(k, v) <=> v \in Nat /\ Cause(k, v)
  BY <1>1, DoneCause
<1> QED
  BY <1>3, <1>4, PredicatesAndTypes, Zenon DEF k

LEMMA DoneNoList ==
    ASSUME IndexInv, Done, NEW v
    PROVE  ~ Has(<<0, PREDICATE_ID, IN_>>, v)
<1> DEFINE k == <<0, PREDICATE_ID, IN_>>
<1>1. k \in DerivedKeys \ Lists
  BY Ids, KeyOf, Zenon DEF DerivedKeys, Lists, Pids
<1>2. k[1] = 0 /\ k[2] \notin Predicates /\ k[2] \notin Types /\ k # <<0, TYPE_ID, OUT_>>
  BY Ids, Zenon
<1>3. ~ Cause(k, v)
  BY <1>2, Zenon DEF Cause, CauseOf
<1> HIDE DEF k
<1> QED
  BY <1>1, <1>3, DoneCause DEF k

\* ... and the triples of a vertex.
LEMMA DoneNormal ==
    ASSUME IndexInv, Done, NEW k \in NormalKeys, NEW v
    PROVE  /\ k[3] = OUT_ => (Has(k, v) <=> <<k[1], k[2], v>> \in All)
           /\ k[3] = IN_ => (Has(k, v) <=> k[2] # TYPE_ID /\ <<v, k[2], k[1]>> \in All)
<1>1. k \in Keys /\ k[1] \in Mine /\ k = <<k[1], k[2], k[3]>>
  BY KeyForm, Zenon DEF NormalKeys
<1>2. \A t \in Threads : \A x : ~ OutPending(t, x) /\ ~ InPending(t, x)
  BY DoneOwesNothing, Zenon
<1>3. \A x \in All : x[1] \in Mine => Has(<<x[1], x[2], OUT_>>, x[3])
  BY <1>2 DEF IndexInv, NormalInv
<1>4. \A x \in All : x[3] \in Mine /\ x[2] # TYPE_ID => Has(<<x[3], x[2], IN_>>, x[1])
  BY <1>2, Zenon DEF IndexInv, NormalInv
<1>5. Has(k, v) => IF k[3] = OUT_ THEN <<k[1], k[2], v>> \in All
                   ELSE k[2] # TYPE_ID /\ <<v, k[2], k[1]>> \in All
  BY DEF IndexInv, NormalInv, Has
<1>6. ASSUME k[3] = OUT_, <<k[1], k[2], v>> \in All PROVE Has(k, v)
  <2> DEFINE x == <<k[1], k[2], v>>
  <2>1. x \in All /\ x[1] = k[1] /\ x[2] = k[2] /\ x[3] = v
    BY <1>6
  <2> HIDE DEF x
  <2>2. Has(<<k[1], k[2], OUT_>>, v)
    BY <1>1, <1>3, <2>1
  <2> QED
    BY <1>1, <1>6, <2>2, Zenon
<1>7. ASSUME k[3] = IN_, k[2] # TYPE_ID, <<v, k[2], k[1]>> \in All PROVE Has(k, v)
  <2> DEFINE x == <<v, k[2], k[1]>>
  <2>1. x \in All /\ x[3] = k[1] /\ x[2] = k[2] /\ x[1] = v
    BY <1>7
  <2> HIDE DEF x
  <2>2. Has(<<k[1], k[2], IN_>>, v)
    BY <1>1, <1>4, <1>7, <2>1
  <2> QED
    BY <1>1, <1>7, <2>2
<1> QED
  BY <1>5, <1>6, <1>7, Ids, Zenon

\* What the index vertices should list, from what the vertices have.
LEMMA StoredIndex ==
    ASSUME IndexInv, NEW v
    PROVE  /\ \A p \in Predicates : \A d \in {IN_, OUT_} :
                 v \in Index(Stored, <<0, p, d>>) <=> v \in Mine /\ kv[<<v, p, Opposite(d)>>] # <<>>
           /\ \A p \in Types :
                 /\ v \in Index(Stored, <<0, p, IN_>>) <=> v \in Mine /\ Has(<<v, TYPE_ID, OUT_>>, p)
                 /\ v \notin Index(Stored, <<0, p, OUT_>>)
           /\ v \in Index(Stored, <<0, TYPE_ID, IN_>>) <=> Versatile /\ v \in Mine /\
                 \/ kv[<<v, PREDICATE_ID, IN_>>] # <<>>
                 \/ kv[<<v, PREDICATE_ID, OUT_>>] # <<>>
                 \/ kv[<<v, TYPE_ID, OUT_>>] # <<>>
           /\ v \in Index(Stored, <<0, TYPE_ID, OUT_>>) <=>
                 Versatile /\ \E a \in Mine : Has(<<a, TYPE_ID, OUT_>>, v)
           /\ v \in Index(Stored, <<0, PREDICATE_ID, OUT_>>) <=>
                 Versatile /\ \E a \in Mine : \E d \in {IN_, OUT_} : Has(<<a, PREDICATE_ID, d>>, v)
           /\ v \notin Index(Stored, <<0, PREDICATE_ID, IN_>>)
<1>1. \A k \in Keys : k[1] \in Mine => \A a : a \in Stored[k] <=> Has(k, a)
  BY DoneValues, Zenon
<1>2. kv \in [Keys -> Seq(Nat)]
  BY DoneValues
<1> QED
  BY <1>1, <1>2, IndexHas, Zenon

\* The TYPE triples of a vertex.
LEMMA DoneTyped ==
    ASSUME IndexInv, Done, NEW a \in Mine, NEW d \in {IN_, OUT_}, NEW v, Has(<<a, TYPE_ID, d>>, v)
    PROVE  d = OUT_ /\ <<a, TYPE_ID, v>> \in All /\ v \in Types /\ a \notin Types
<1> DEFINE k == <<a, TYPE_ID, d>>
<1>1. k \in NormalKeys
  BY Ids, KeyOf, Zenon DEF NormalKeys, Pids
<1>2. k[1] = a /\ k[2] = TYPE_ID /\ k[3] = d /\ Has(k, v)
  OBVIOUS
<1> HIDE DEF k
<1>3. d = OUT_ /\ <<a, TYPE_ID, v>> \in All
  BY <1>1, <1>2, DoneNormal, Zenon
<1>4. <<a, TYPE_ID, v>> \in Known
  BY <1>3, AllKnown, Zenon DEF IndexInv, TypeInv
<1> QED
  BY <1>3, <1>4, KnownTriples

\* A vertex belongs into the list of all vertices if it has predicates.
LEMMA IndexVertices ==
    ASSUME IndexInv, Done, NEW v
    PROVE  v \in Index(Stored, <<0, TYPE_ID, IN_>>) <=>
              Versatile /\ v \in Mine /\ \E d \in {IN_, OUT_} : kv[<<v, PREDICATE_ID, d>>] # <<>>
<1>1. v \in Index(Stored, <<0, TYPE_ID, IN_>>) <=> Versatile /\ v \in Mine /\
         \/ kv[<<v, PREDICATE_ID, IN_>>] # <<>>
         \/ kv[<<v, PREDICATE_ID, OUT_>>] # <<>>
         \/ kv[<<v, TYPE_ID, OUT_>>] # <<>>
  BY StoredIndex, Zenon
<1>2. ASSUME Versatile, v \in Mine, kv[<<v, TYPE_ID, OUT_>>] # <<>>
      PROVE  kv[<<v, PREDICATE_ID, OUT_>>] # <<>>
  <2>1. Has(<<v, PREDICATE_ID, OUT_>>, TYPE_ID)
    BY <1>2, DoneVertex, Zenon
  <2>2. <<v, PREDICATE_ID, OUT_>> \in Keys
    BY <1>2, KeyOf, ZenonT(30) DEF Pids
  <2> QED
    BY <2>1, <2>2, DoneValues
<1> QED
  BY <1>1, <1>2

LocalTypes(T) == \E x \in T : x[1] \in Mine /\ x[2] = TYPE_ID

\* A predicate belongs into the list of all predicates if it has vertices.
LEMMA IndexPredicates ==
    ASSUME IndexInv, Done, NEW v
    PROVE  v \in Index(Stored, <<0, PREDICATE_ID, OUT_>>) <=> Versatile /\
              \/ v \in Predicates /\ \E d \in {IN_, OUT_} : kv[<<0, v, d>>] # <<>>
              \/ v = TYPE_ID /\ LocalTypes(All)
<1>1. v \in Index(Stored, <<0, PREDICATE_ID, OUT_>>) <=>
         Versatile /\ \E a \in Mine : \E d \in {IN_, OUT_} : Has(<<a, PREDICATE_ID, d>>, v)
  BY StoredIndex, Zenon
<1>2. \A a \in Mine : \A d \in {IN_, OUT_} : Has(<<a, PREDICATE_ID, d>>, v) <=>
         Versatile /\ v \in Predicates \cup {TYPE_ID} /\ kv[<<a, v, d>>] # <<>>
  BY DoneVertex, Zenon
<1>3. CASE v \in Predicates
  <2>1. \A d \in {IN_, OUT_} : kv[<<0, v, d>>] # <<>> <=> \E a : Has(<<0, v, d>>, a)
    BY <1>3, DoneValues, KeyOf, Zenon DEF Pids
  <2>2. \A d \in {IN_, OUT_} : \A a : Has(<<0, v, d>>, a) <=> a \in Mine /\ kv[<<a, v, Opposite(d)>>] # <<>>
    BY <1>3, DonePredicate, Zenon
  <2>3. v # TYPE_ID
    BY <1>3, Ids
  <2>4. (\E d \in {IN_, OUT_} : kv[<<0, v, d>>] # <<>>) <=>
           \E a \in Mine : \E d \in {IN_, OUT_} : kv[<<a, v, d>>] # <<>>
    BY <2>1, <2>2, Opposites, ZenonT(30)
  <2> QED
    BY <1>1, <1>2, <1>3, <2>3, <2>4, Zenon
<1>4. CASE v = TYPE_ID
  <2>1. v \notin Predicates
    BY <1>4, Ids
  <2>2. \A a \in Mine : \A d \in {IN_, OUT_} : kv[<<a, TYPE_ID, d>>] # <<>> <=> \E b : Has(<<a, TYPE_ID, d>>, b)
    BY DoneValues, KeyOf, Zenon DEF Pids
  <2>3. ASSUME NEW a \in Mine, NEW d \in {IN_, OUT_}, kv[<<a, TYPE_ID, d>>] # <<>>
        PROVE  LocalTypes(All)
    <3>1. PICK b : Has(<<a, TYPE_ID, d>>, b)
      BY <2>2, <2>3, Zenon
    <3>2. <<a, TYPE_ID, b>> \in All
      BY <3>1, DoneTyped, Zenon
    <3> QED
      BY <3>2 DEF LocalTypes
  <2>4. ASSUME LocalTypes(All) PROVE \E a \in Mine : kv[<<a, TYPE_ID, OUT_>>] # <<>>
    <3>1. PICK x \in All : x[1] \in Mine /\ x[2] = TYPE_ID
      BY <2>4, Zenon DEF LocalTypes
    <3>2. x = <<x[1], TYPE_ID, x[3]>>
      BY <3>1, AllKnown, KnownTriples DEF IndexInv, TypeInv
    <3> DEFINE k == <<x[1], TYPE_ID, OUT_>>
    <3>3. k \in NormalKeys /\ k \in Keys
      BY <3>1, Ids, KeyOf, Zenon DEF NormalKeys, Pids
    <3>4. k[1] = x[1] /\ k[2] = TYPE_ID /\ k[3] = OUT_
      OBVIOUS
    <3> HIDE DEF k
    <3>5. Has(k, x[3])
      BY <3>2, <3>3, <3>4, DoneNormal, Zenon
    <3> QED
      BY <3>1, <3>3, <3>5, DoneValues, Zenon DEF k
  <2> QED
    BY <1>1, <1>2, <1>4, <2>1, <2>3, <2>4, Zenon
<1>5. CASE v \notin Predicates \cup {TYPE_ID}
  BY <1>1, <1>2, <1>5, Zenon
<1> QED
  BY <1>3, <1>4, <1>5

\* The two lists hold no more than they should, ...
LEMMA DoneVertices ==
    ASSUME IndexInv, Done, NEW v, Has(<<0, TYPE_ID, IN_>>, v)
    PROVE  v \in Index(Stored, <<0, TYPE_ID, IN_>>)
<1>1. v \in Mine
  <2>1. v \in Nat
    BY DoneValues, ListKeys, Zenon DEF DerivedKeys
  <2> QED
    BY <2>1, Zenon DEF IndexInv, ListInv
<1> DEFINE k == <<v, PREDICATE_ID, OUT_>>
<1>2. k \in PairedKeys /\ Flip(k) = <<v, PREDICATE_ID, IN_>> /\ ListOf(k) = <<0, TYPE_ID, IN_>> /\ EntryOf(k) = v
  BY <1>1, PairedVertex, Opposites, Zenon
<1> HIDE DEF k
<1>3. Sourced(ListOf(k), EntryOf(k))
  BY <1>2, Zenon DEF Sourced
<1>4. Versatile /\ (kv[k] # <<>> \/ kv[Flip(k)] # <<>>)
  BY <1>2, <1>3 DEF IndexInv, ListInv
<1> QED
  BY <1>1, <1>2, <1>4, IndexVertices DEF k

LEMMA DonePredicates ==
    ASSUME IndexInv, Done, NEW v, Has(<<0, PREDICATE_ID, OUT_>>, v)
    PROVE  v \in Index(Stored, <<0, PREDICATE_ID, OUT_>>)
<1>1. v \in Predicates \cup {TYPE_ID}
  <2>1. v \in Nat
    BY DoneValues, ListKeys, Zenon DEF DerivedKeys
  <2> QED
    BY <2>1 DEF IndexInv, ListInv
<1>2. CASE v \in Predicates
  <2> DEFINE k == <<0, v, OUT_>>
  <2>1. k \in PairedKeys /\ Flip(k) = <<0, v, IN_>> /\ ListOf(k) = <<0, PREDICATE_ID, OUT_>> /\ EntryOf(k) = v
    BY <1>2, PairedPredicate, Opposites, Zenon
  <2> HIDE DEF k
  <2>2. Sourced(ListOf(k), EntryOf(k))
    BY <2>1, Zenon DEF Sourced
  <2>3. Versatile /\ (kv[k] # <<>> \/ kv[Flip(k)] # <<>>)
    BY <2>1, <2>2 DEF IndexInv, ListInv
  <2> QED
    BY <1>2, <2>1, <2>3, IndexPredicates DEF k
<1>3. CASE v = TYPE_ID
  <2>1. Versatile /\ \E x \in Triples : x[1] \in Mine /\ x[2] = TYPE_ID
    BY <1>3 DEF IndexInv, ListInv
  <2>2. LocalTypes(All)
    BY <2>1 DEF LocalTypes, All
  <2> QED
    BY <1>3, <2>1, <2>2, IndexPredicates, Zenon
<1> QED
  BY <1>1, <1>2, <1>3, Zenon

\* ... the list of all types exactly what it should, ...
LEMMA DoneTypesIndex ==
    ASSUME IndexInv, Done, NEW v
    PROVE  Has(<<0, TYPE_ID, OUT_>>, v) <=> v \in Index(Stored, <<0, TYPE_ID, OUT_>>)
<1>1. v \in Index(Stored, <<0, TYPE_ID, OUT_>>) <=> Versatile /\ \E a \in Mine : Has(<<a, TYPE_ID, OUT_>>, v)
  BY StoredIndex, Zenon
<1>2. Has(<<0, TYPE_ID, OUT_>>, v) <=> Versatile /\ v \in Types /\ kv[<<0, v, IN_>>] # <<>>
  BY DoneTypes
<1>3. (\E a \in Mine : Has(<<a, TYPE_ID, OUT_>>, v)) => v \in Types
  BY DoneTyped, Zenon
<1>4. v \in Types => (kv[<<0, v, IN_>>] # <<>> <=> \E a : Has(<<0, v, IN_>>, a))
  BY DoneValues, KeyOf, Zenon DEF Pids
<1>5. v \in Types => \A a : Has(<<0, v, IN_>>, a) <=> a \in Mine /\ Has(<<a, TYPE_ID, OUT_>>, v)
  BY DoneType, Zenon
<1> QED
  BY <1>1, <1>2, <1>3, <1>4, <1>5, Zenon

\* ... and nothing new is left out that is not raced for.
LEMMA MissingVertices ==
    ASSUME IndexInv, Done, NEW v \in Index(Stored, <<0, TYPE_ID, IN_>>), ~ Has(<<0, TYPE_ID, IN_>>, v)
    PROVE  Raced(<<0, TYPE_ID, IN_>>, v)
<1>1. PICK d \in {IN_, OUT_} : Versatile /\ v \in Mine /\ kv[<<v, PREDICATE_ID, d>>] # <<>>
  BY IndexVertices
<1> DEFINE k == <<v, PREDICATE_ID, d>>
<1>2. k \in PairedKeys /\ ListOf(k) = <<0, TYPE_ID, IN_>> /\ EntryOf(k) = v
  BY <1>1, PairedVertex, Zenon
<1> HIDE DEF k
<1>3. \/ Sourced(ListOf(k), EntryOf(k))
      \/ \E t \in Threads : ChecksOf(t, k)
      \/ Raced(ListOf(k), EntryOf(k))
  BY <1>1, <1>2, Zenon DEF IndexInv, RacedInv, k
<1> QED
  BY <1>2, <1>3, DoneOwesNothing, Zenon DEF Sourced

LEMMA MissingPredicates ==
    ASSUME IndexInv, Done,
           NEW v \in Index(Stored, <<0, PREDICATE_ID, OUT_>>), ~ Has(<<0, PREDICATE_ID, OUT_>>, v)
    PROVE  v = TYPE_ID \/ Raced(<<0, PREDICATE_ID, OUT_>>, v)
<1>1. Versatile /\ (v = TYPE_ID \/ (v \in Predicates /\ \E d \in {IN_, OUT_} : kv[<<0, v, d>>] # <<>>))
  BY IndexPredicates, Zenon
<1>2. ASSUME v \in Predicates, NEW d \in {IN_, OUT_}, kv[<<0, v, d>>] # <<>>
      PROVE  Raced(<<0, PREDICATE_ID, OUT_>>, v)
  <2> DEFINE k == <<0, v, d>>
  <2>1. k \in PairedKeys /\ ListOf(k) = <<0, PREDICATE_ID, OUT_>> /\ EntryOf(k) = v
    BY <1>2, PairedPredicate, ZenonT(30)
  <2> HIDE DEF k
  <2>2. \/ Sourced(ListOf(k), EntryOf(k))
        \/ \E t \in Threads : ChecksOf(t, k)
        \/ Raced(ListOf(k), EntryOf(k))
    BY <1>1, <1>2, <2>1, ZenonT(30) DEF IndexInv, RacedInv, k
  <2> QED
    BY <2>1, <2>2, DoneOwesNothing, Zenon DEF Sourced
<1> QED
  BY <1>1, <1>2, Zenon

\* Nothing is stored with a vertex and a type as a predicate.
LEMMA DoneNoType ==
    ASSUME IndexInv, Done, NEW a \in Mine, NEW p \in Types, NEW d \in {IN_, OUT_}
    PROVE  kv[<<a, p, d>>] = <<>>
<1> DEFINE k == <<a, p, d>>
<1>1. k \in NormalKeys /\ k \in Keys
  BY KeyShapes, Zenon DEF NormalKeys
<1>2. k[1] = a /\ k[2] = p /\ k[3] = d /\ p # TYPE_ID /\ p \notin Predicates
  BY Ids
<1> HIDE DEF k
<1>3. ASSUME NEW v, Has(k, v) PROVE FALSE
  <2>1. <<a, p, v>> \in All \/ <<v, p, a>> \in All
    BY <1>1, <1>2, <1>3, DoneNormal
  <2>2. All \subseteq Known
    BY AllKnown DEF IndexInv, TypeInv
  <2>3. \A x \in Known : x[2] # p
    BY <1>2, KnownTriples
  <2> QED
    BY <2>1, <2>2, <2>3
<1> QED
  BY <1>1, <1>3, DoneValues, Zenon DEF k
=============================================================================
