--------------------------- MODULE MCOneAtATime ------------------------------
(* Instances of OneAtATime for model checking: requests are interchangeable,    *)
(* and the adjustments and reservations are of one or two units.                 *)
EXTENDS OneAtATime, TLC

RequestSymmetry == Permutations(Requests)

MCDeltas == {-1, 2}

MCQuantities == {1, 2}
=============================================================================
