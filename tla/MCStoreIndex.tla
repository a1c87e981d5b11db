---------------------------- MODULE MCStoreIndex ----------------------------
(* Instances of StoreIndex: predicates 2 and 3, types 4 and 5, and the     *)
(* vertices 10, 11 and 12, of which the last one is remote.                *)
EXTENDS StoreIndex

MCMine == {4, 5, 10, 11}

\* A store that has been loaded, with a type and a predicate.
SomeTriples == {<<10, TYPE_ID, 4>>, <<10, 2, 11>>}

Ordinary == {<<10, 2, 11>>, <<11, 3, 10>>, <<12, 2, 10>>, <<10, 3, 12>>, <<11, 2, 11>>}
Typed == {<<10, TYPE_ID, 5>>, <<11, TYPE_ID, 4>>}

\* One thread that loads up to three ordinary triples, duplicates included.
OneFile == {<<f>> : f \in [1 .. 3 -> Ordinary]}

\* Two threads that load two triples and one.
TwoFiles == {<<f, g>> : f \in [1 .. 2 -> Ordinary \cup Typed], g \in [{1} -> Ordinary \cup Typed]}

Files == OneFile \cup TwoFiles

=============================================================================
