------------------------------ MODULE MCBuddy ------------------------------
(* Instances of Buddy: blocks of up to 8 units, small ones of 1 and 2.     *)
EXTENDS Buddy

CONSTANTS T1, T2

Plan(levels, max) == [levels |-> levels, max |-> max]

\* Two threads that use the small allocator, or one that uses both.
SmallOrAlone ==
    {T1 :> Plan({0, 1}, 2) @@ T2 :> Plan({0, 1}, 2),
     T1 :> Plan({0, 1, 2, 3}, 3) @@ T2 :> Plan({}, 0)}

=============================================================================
