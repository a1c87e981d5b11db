SPECIFICATION Spec
CONSTANTS
    Mine <- MCMine
    Triples <- SomeTriples
    Loads <- Files
    Versatile = TRUE
INVARIANTS NormalStored PredicateIndex VersatileIndex GsckExact
