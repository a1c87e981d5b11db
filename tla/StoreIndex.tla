----------------------------- MODULE StoreIndex -----------------------------
(***************************************************************************)
(* The keys and indexes of one server's store (core/gstore.hpp): what the  *)
(* bulk load builds with insert_normal and insert_index, and how threads   *)
(* that load further triples keep it up to date, one insert_vertex_edge    *)
(* after the other (insert_triple_out and insert_triple_in, called by      *)
(* dynamic_load_data of core/dgraph.hpp).                                  *)
(*                                                                         *)
(* The store maps a key <<vid, pid, dir>> to the list of its values.       *)
(* insert_vertex_edge has two critical sections, insert_key and the        *)
(* insertion of the edge, and check_key_exist has one: each is a step.     *)
(***************************************************************************)
EXTENDS Integers, Sequences, FiniteSets, Functions

CONSTANTS
    Mine,           \* the IDs that hash to this server
    Triples,        \* the triples of the bulk load, as <<s, p, o>>
    Loads,          \* what is loaded later: tuples of files, one per thread
    Versatile       \* the build option VERSATILE

IN_ == "in"
OUT_ == "out"
TYPE_ID == 1
PREDICATE_ID == 0

Known == Triples \cup UNION {UNION {Range(f[t]) : t \in DOMAIN f} : f \in Loads}
Predicates == {x[2] : x \in Known} \ {TYPE_ID}
Types == {x[3] : x \in {y \in Known : y[2] = TYPE_ID}}
Pids == Predicates \cup Types \cup {TYPE_ID, PREDICATE_ID}
Keys == (Mine \cup {0}) \X Pids \X {IN_, OUT_}

\* The IDs of predicates, types and vertices are told apart by their ranges:
\* is_tpid and is_vid; a type is not the subject of a TYPE triple.
ASSUME StoreIndexAssumption ==
    /\ Versatile \in BOOLEAN
    /\ Mine \subseteq Nat \ {0} /\ IsFiniteSet(Mine)
    /\ Triples \subseteq Nat \X Nat \X Nat /\ IsFiniteSet(Triples)
    /\ Loads # {} /\ Loads \subseteq Seq(Seq(Nat \X Nat \X Nat))
    /\ PREDICATE_ID \notin Predicates
    /\ Types \cap (Predicates \cup {TYPE_ID, PREDICATE_ID}) = {}
    /\ \A x \in Known : x[2] = TYPE_ID => x[1] \notin Types

VARIABLES
    check_dup,  \* whether the loads look for duplicates
    files,      \* files[t]: the triples that thread t loads
    kv,         \* the values of each key
    exists,     \* the keys in the header region
    todo,       \* of each thread: the calls insert_triple_out/in to make
    pc,         \* of each thread: the step of its current call
    half        \* of each thread: between the two halves of insert_vertex_edge

vars == <<check_dup, files, kv, exists, todo, pc, half>>

Threads == DOMAIN files

-----------------------------------------------------------------------------
(* The bulk load.                                                          *)

\* insert_normal: the keys of a vertex, from the triples of the server.
Normal(T, key) ==
    LET v == key[1]
        p == key[2]
        out == {x \in T : x[1] = v}
        in == {x \in T : x[3] = v /\ x[2] # TYPE_ID}
    IN  CASE p = PREDICATE_ID ->
                IF Versatile THEN {x[2] : x \in IF key[3] = OUT_ THEN out ELSE in} ELSE {}
          [] OTHER ->
                IF key[3] = OUT_ THEN {x[3] : x \in {y \in out : y[2] = p}}
                ELSE {x[1] : x \in {y \in in : y[2] = p}}

\* insert_index: the index vertices, from the keys of the vertices.
Index(val, key) ==
    LET p == key[2]
        d == key[3]
        with(q, e) == {v \in Mine : val[v, q, e] # {}}
        vals(q, e) == UNION {val[v, q, e] : v \in Mine}
    IN  CASE p \in Predicates -> with(p, IF d = IN_ THEN OUT_ ELSE IN_)
          [] p \in Types ->
                IF d = IN_ THEN {v \in Mine : p \in val[v, TYPE_ID, OUT_]} ELSE {}
          [] p = TYPE_ID /\ Versatile ->
                IF d = IN_
                THEN with(PREDICATE_ID, IN_) \cup with(PREDICATE_ID, OUT_) \cup with(TYPE_ID, OUT_)
                ELSE vals(TYPE_ID, OUT_)
          [] p = PREDICATE_ID /\ d = OUT_ /\ Versatile ->
                vals(PREDICATE_ID, IN_) \cup vals(PREDICATE_ID, OUT_)
          [] OTHER -> {}

BulkLoaded(key) ==
    IF key[1] = 0 THEN Index([k \in Keys |-> Normal(Triples, k)], key) ELSE Normal(Triples, key)

\* The values of a key, in some order.
Listing(S) == CHOOSE s \in Bijection(1 .. Cardinality(S), S) : TRUE

\* dynamic_load_data: for each triple of its file a thread looks whether to
\* call insert_triple_out, and then whether to call insert_triple_in.
Calls(file) ==
    [i \in 1 .. 2 * Len(file) |->
        <<IF i % 2 = 1 THEN "triple_out" ELSE "triple_in", file[(i + 1) \div 2]>>]

\* Mutant of First: the object is only looked at if the subject is remote.
First_Either(call) ==
    LET x == call[2]
    IN  CASE call[1] = "triple_out" /\ x[1] \in Mine -> IF x[2] = TYPE_ID THEN "o1" ELSE "o6"
          [] call[1] = "triple_in" /\ x[3] \in Mine /\ x[1] \notin Mine /\ x[2] # TYPE_ID -> "i1"
          [] OTHER -> "end"

\* The step with which a call begins, if the subject or the object is local;
\* insert_triple_in skips TYPE triples.
First(call) ==
    LET x == call[2]
    IN  CASE call[1] = "triple_out" /\ x[1] \in Mine -> IF x[2] = TYPE_ID THEN "o1" ELSE "o6"
          [] call[1] = "triple_in" /\ x[3] \in Mine /\ x[2] # TYPE_ID -> "i1"
          [] OTHER -> "end"

Start(calls) == IF calls = <<>> THEN "idle" ELSE First(calls[1])

Init ==
    /\ files \in Loads /\ check_dup \in BOOLEAN
    /\ kv = [k \in Keys |-> Listing(BulkLoaded(k))]
    /\ exists = {k \in Keys : BulkLoaded(k) # {}}
    /\ todo = [t \in Threads |-> Calls(files[t])]
    /\ pc = [t \in Threads |-> Start(Calls(files[t]))]
    /\ half = [t \in Threads |-> FALSE]

-----------------------------------------------------------------------------
(* insert_triple_out (steps o1 to o10, as its comments number them) and    *)
(* insert_triple_in (i1 to i5); c2, c7, c9, d2 and d4 check the buddy key.  *)

\* The key and the value of each insert_vertex_edge.
Insert(step, x) ==
    CASE step = "o1"  -> <<<<x[1], TYPE_ID, OUT_>>, x[3]>>
      [] step = "o2"  -> <<<<x[1], PREDICATE_ID, OUT_>>, TYPE_ID>>
      [] step = "o3"  -> <<<<0, TYPE_ID, IN_>>, x[1]>>
      [] step = "o4"  -> <<<<0, x[3], IN_>>, x[1]>>
      [] step = "o5"  -> <<<<0, TYPE_ID, OUT_>>, x[3]>>
      [] step = "o6"  -> <<<<x[1], x[2], OUT_>>, x[3]>>
      [] step = "o7"  -> <<<<0, x[2], IN_>>, x[1]>>
      [] step = "o8"  -> <<<<0, PREDICATE_ID, OUT_>>, x[2]>>
      [] step = "o9"  -> <<<<x[1], PREDICATE_ID, OUT_>>, x[2]>>
      [] step = "o10" -> <<<<0, TYPE_ID, IN_>>, x[1]>>
      [] step = "i1"  -> <<<<x[3], x[2], IN_>>, x[1]>>
      [] step = "i2"  -> <<<<0, x[2], OUT_>>, x[3]>>
      [] step = "i3"  -> <<<<0, PREDICATE_ID, OUT_>>, x[2]>>
      [] step = "i4"  -> <<<<x[3], PREDICATE_ID, IN_>>, x[2]>>
      [] step = "i5"  -> <<<<0, TYPE_ID, IN_>>, x[3]>>

InsertSteps == {"o1", "o2", "o3", "o4", "o5", "o6", "o7", "o8", "o9", "o10",
                "i1", "i2", "i3", "i4", "i5"}

\* The buddy key of each check_key_exist.
Buddy(step, x) ==
    CASE step \in {"c2", "c9"} -> <<x[1], PREDICATE_ID, IN_>>
      [] step = "c7" -> <<0, x[2], OUT_>>
      [] step = "d2" -> <<0, x[2], IN_>>
      [] step = "d4" -> <<x[3], PREDICATE_ID, OUT_>>

\* Where a call goes on after an insert_vertex_edge that returned "first"
\* (the key is new) and reported "dup".
AfterInsert(step, first, dup) ==
    CASE step = "o1"  -> IF first /\ Versatile THEN "o2" ELSE IF ~ dup THEN "o4" ELSE "end"
      [] step = "o2"  -> IF first THEN "c2" ELSE "o4"
      [] step = "o3"  -> "o4"
      [] step = "o4"  -> IF first /\ Versatile THEN "o5" ELSE "end"
      [] step = "o6"  -> IF first THEN "o7" ELSE "end"
      [] step = "o7"  -> IF first THEN "c7" ELSE IF Versatile THEN "o9" ELSE "end"
      [] step = "o8"  -> "o9"
      [] step = "o9"  -> IF first THEN "c9" ELSE "end"
      [] step = "i1"  -> IF first THEN "i2" ELSE "end"
      [] step = "i2"  -> IF first THEN "d2" ELSE IF Versatile THEN "i4" ELSE "end"
      [] step = "i3"  -> "i4"
      [] step = "i4"  -> IF first THEN "d4" ELSE "end"
      [] step \in {"o5", "o10", "i5"} -> "end"

\* Mutant of AfterCheck: the buddy key does not matter.
AfterCheck_Always(step, found) ==
    CASE step = "c2" -> "o3"
      [] step = "c7" -> IF Versatile THEN "o8" ELSE "end"
      [] step = "c9" -> "o10"
      [] step = "d2" -> IF Versatile THEN "i3" ELSE "end"
      [] step = "d4" -> "i5"

AfterCheck(step, found) ==
    CASE step = "c2" -> IF found THEN "o4" ELSE "o3"
      [] step = "c7" -> IF ~ Versatile THEN "end" ELSE IF found THEN "o9" ELSE "o8"
      [] step = "c9" -> IF found THEN "end" ELSE "o10"
      [] step = "d2" -> IF ~ Versatile THEN "end" ELSE IF found THEN "i4" ELSE "i3"
      [] step = "d4" -> IF found THEN "end" ELSE "i5"

\* Which insertions look for the value first: TYPE triples always, others
\* when duplicates are to be checked; index vertices never.
dedup(step) == step = "o1" \/ (step \in {"o6", "i1"} /\ check_dup)

Goto(t, step) ==
    IF step = "end"
    THEN /\ todo' = [todo EXCEPT ![t] = Tail(@)]
         /\ pc' = [pc EXCEPT ![t] = Start(Tail(todo[t]))]
    ELSE /\ pc' = [pc EXCEPT ![t] = step]
         /\ UNCHANGED todo

Current(t) == todo[t][1][2]

insert_key(t) ==
    /\ pc[t] \in InsertSteps /\ ~ half[t]
    /\ exists' = exists \cup {Insert(pc[t], Current(t))[1]}
    /\ half' = [half EXCEPT ![t] = TRUE]
    /\ UNCHANGED <<check_dup, files, kv, todo, pc>>

\* Mutant of insert_vertex_edge: "first" means that the key was absent.
insert_vertex_edge_ByKey(t) ==
    LET ins == Insert(pc[t], Current(t))
        first == ins[1] \notin exists
        dup == ~ first /\ dedup(pc[t]) /\ ins[2] \in Range(kv[ins[1]])
    IN  /\ half[t]
        /\ kv' = IF dup THEN kv ELSE [kv EXCEPT ![ins[1]] = Append(@, ins[2])]
        /\ half' = [half EXCEPT ![t] = FALSE]
        /\ Goto(t, AfterInsert(pc[t], first, dup))
        /\ UNCHANGED <<check_dup, files, exists>>

insert_vertex_edge(t) ==
    LET ins == Insert(pc[t], Current(t))
        first == kv[ins[1]] = <<>>
        dup == ~ first /\ dedup(pc[t]) /\ ins[2] \in Range(kv[ins[1]])
    IN  /\ half[t]
        /\ kv' = IF dup THEN kv ELSE [kv EXCEPT ![ins[1]] = Append(@, ins[2])]
        /\ half' = [half EXCEPT ![t] = FALSE]
        /\ Goto(t, AfterInsert(pc[t], first, dup))
        /\ UNCHANGED <<check_dup, files, exists>>

check_key_exist(t) ==
    /\ pc[t] \notin InsertSteps \cup {"idle", "end"}
    /\ Goto(t, AfterCheck(pc[t], Buddy(pc[t], Current(t)) \in exists))
    /\ UNCHANGED <<check_dup, files, kv, exists, half>>

\* A triple whose subject or object is remote, and insert_triple_in of a
\* TYPE triple.
Skip(t) ==
    /\ pc[t] = "end"
    /\ Goto(t, "end")
    /\ UNCHANGED <<check_dup, files, kv, exists, half>>

Done == \A t \in Threads : pc[t] = "idle"

Finished == Done /\ UNCHANGED vars

Next ==
    \/ \E t \in Threads : insert_key(t) \/ insert_vertex_edge(t) \/ check_key_exist(t) \/ Skip(t)
    \/ Finished

Spec == Init /\ [][Next]_vars

-----------------------------------------------------------------------------
(* The integrity check of the store (gsck): what it finds fault with in     *)
(* the keys of the header region, one check after the other.                *)

\* The values stored with each key, without their order.
Stored == [key \in Keys |-> Range(kv[key])]

is_tpid(id) == id \in Predicates \cup Types
is_vid(id) == id \in Mine \ Types

\* How often a value occurs in the list of a key.
Count(key, v) == IF key \in Keys THEN Cardinality({i \in DOMAIN kv[key] : kv[key][i] = v}) ELSE 0

\* A vertex of a type index has the type once; one of a predicate index has
\* the predicate, which is only looked at if the vertex has types.
idx_check_indir(key) ==
    \A v \in Stored[key] :
        LET types == <<v, TYPE_ID, OUT_>>
        IN  /\ Count(types, key[2]) <= 1
            /\ kv[types] # <<>> /\ Count(types, key[2]) = 0 => <<v, key[2], OUT_>> \in exists

idx_check_outdir(key) == \A v \in Stored[key] : <<v, key[2], IN_>> \in exists

\* (7): the vertex is listed once by each of its types.
nt_check(key) == \A y \in Stored[key] : Count(<<0, y, IN_>>, key[1]) = 1

\* Mutant of np_check: it looks at the index of the key's own direction.
np_check_Same(key, dir) == Count(<<0, key[2], key[3]>>, key[1]) = 1

\* (6): the vertex is listed once by the predicate, in the other direction.
np_check(key, dir) == Count(<<0, key[2], dir>>, key[1]) = 1

\* A vertex v that a predicate index lists is one of the local vertices and
\* has the predicate in its own list.
Listed(v, pid, dir) ==
    Count(<<0, TYPE_ID, IN_>>, v) = 1 /\ Count(<<v, PREDICATE_ID, dir>>, pid) = 1

\* A local type is listed once; what is no local type is a local predicate.
ver_idx_check_indir(key) ==
    LET p == key[2]
        types == Count(<<0, TYPE_ID, OUT_>>, p)
    IN  \/ types = 1
        \/ types = 0 /\ Count(<<0, PREDICATE_ID, OUT_>>, p) = 1
                     /\ kv[key] # <<>> /\ \A v \in Stored[key] : Listed(v, p, OUT_)

ver_idx_check_outdir(key) ==
    Count(<<0, PREDICATE_ID, OUT_>>, key[2]) = 1 /\ \A v \in Stored[key] : Listed(v, key[2], IN_)

ver_nt_check(key) == Listed(key[1], TYPE_ID, OUT_)

\* Whether the checks of a key find no fault.
check_on_vertex(key, index_check, normal_check) ==
    LET index == key[1] = 0 /\ is_tpid(key[2])
        normal == is_vid(key[1]) /\ is_tpid(key[2])
    IN  /\ index /\ key[3] = IN_ /\ index_check =>
              idx_check_indir(key) /\ (Versatile => ver_idx_check_indir(key))
        /\ index /\ key[3] = OUT_ /\ index_check =>
              idx_check_outdir(key) /\ (Versatile => ver_idx_check_outdir(key))
        /\ is_vid(key[1]) /\ key[2] = TYPE_ID /\ key[3] = OUT_ =>
              (normal_check => nt_check(key)) /\ (index_check /\ Versatile => ver_nt_check(key))
        /\ normal /\ normal_check => np_check(key, IF key[3] = OUT_ THEN IN_ ELSE OUT_)

gstore_check(index_check, normal_check) ==
    \A key \in exists : check_on_vertex(key, index_check, normal_check)

-----------------------------------------------------------------------------
(* Properties of the store when the threads are done.                      *)

All == Triples \cup UNION {Range(files[t]) : t \in Threads}

Once(key) == Cardinality(Stored[key]) = Len(kv[key])

NormalKeys == {k \in Keys : k[1] # 0 /\ k[2] # PREDICATE_ID}

\* Keys (6) and (7): every triple is stored with its subject and its object,
\* as the bulk load of all triples would; once, if duplicates are checked.
NormalStored ==
    Done => \A k \in NormalKeys :
        /\ Stored[k] = Normal(All, k)
        /\ check_dup => Once(k)

\* Indexes (1) and (2) list exactly the vertices that have the predicate or
\* the type, each once, whatever the order of the insertions: the comments
\* "dedup from <6>", "dedup from <1>".
PredicateIndex ==
    Done => \A k \in Keys : k[1] = 0 /\ k[2] \in Predicates \cup Types =>
        Stored[k] = Index(Stored, k) /\ Once(k)

\* The one entry that is left out whoever loads it, and that gsck does not
\* look for: insert_triple_out does not put TYPE_ID into the list of all
\* predicates, so that it is missing there if TYPE triples are loaded into a
\* store without any.
Overlooked(k) == IF k = <<0, PREDICATE_ID, OUT_>> THEN {TYPE_ID} ELSE {}

\* Triple x brings v into k, the list of all vertices or of all predicates,
\* with the edge from its subject (OUT) or with that from its object (IN).
Brings(x, dir, k, v) ==
    LET end == IF dir = OUT_ THEN x[1] ELSE x[3]
    IN  /\ end \in Mine /\ (dir = IN_ => x[2] # TYPE_ID)
        /\ v = IF k[2] = TYPE_ID THEN end ELSE x[2]

\* Two threads load triples that bring v into k from different ends.  Each
\* may find the buddy key of the other, and then neither inserts v.
Raced(k, v) ==
    /\ k \in {<<0, TYPE_ID, IN_>>, <<0, PREDICATE_ID, OUT_>>}
    /\ \E t, u \in Threads :
          /\ t # u
          /\ \E x \in Range(files[t]) : Brings(x, OUT_, k, v)
          /\ \E y \in Range(files[u]) : Brings(y, IN_, k, v)

\* Indexes (*3), (*4) and (*5) are "all local" vertices, types and predicates:
\* they list nothing that does not exist, and nothing twice, which is what the
\* check of the buddy key is for.  Nothing that they had is lost, and nothing
\* new is left out but the entry above and what two threads bring in at the
\* same time from different ends.
VersatileIndex ==
    Done => \A k \in Keys : k[1] = 0 /\ k[2] \in {TYPE_ID, PREDICATE_ID} =>
        /\ Stored[k] \subseteq Index(Stored, k) /\ Once(k)
        /\ BulkLoaded(k) \subseteq Stored[k]
        /\ \A v \in Index(Stored, k) \ Stored[k] : v \in Overlooked(k) \/ Raced(k, v)

\* The integrity check finds no fault exactly when every index vertex lists
\* what it should, each once, but for the entry it overlooks (TYPE_ID is no
\* is_tpid, and ver_nt_check looks at other lists): "gsck" neither
\* misses what concurrent loads may have left wrong nor faults a store that
\* is right.
GsckExact ==
    Done => (gstore_check(TRUE, TRUE) <=>
        \A k \in Keys : k[1] = 0 =>
            /\ Stored[k] \subseteq Index(Stored, k) /\ Once(k)
            /\ Index(Stored, k) \ Overlooked(k) \subseteq Stored[k])

=============================================================================
