---------------------------- MODULE MCPeriphery ------------------------------
(* Periphery as TLC checks it: with liveness, so without symmetry.  One row of   *)
(* the inventory is adjusted by -1 or +2 units and reserved a unit at a time,    *)
(* by four requests: a lost reservation and a release of both need that many.    *)
EXTENDS Periphery

MCDeltas == {-1, 2}

MCQuantities == {1}
=============================================================================
