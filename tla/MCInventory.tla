---------------------------- MODULE MCInventory -----------------------------
(* Instances of Inventory for model checking: requests are interchangeable,   *)
(* and the adjustments and reservations are of one or two units.               *)
EXTENDS Inventory, TLC

RequestSymmetry == Permutations(Requests)

MCDeltas == {-1, 2}

MCQuantities == {1, 2}
=============================================================================
