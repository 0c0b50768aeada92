--------------------------- MODULE MCSupplyChain ----------------------------
(* Instances of SupplyChain for model checking: one SKU, three units ordered,      *)
(* on one line or on two; shipments of one unit, of two, of everything (a 0 that  *)
(* is not heard) and of a negative quantity; clients that cancel orders.          *)
EXTENDS SupplyChain, TLC

MCSymmetry == Permutations(Requests) \cup Permutations(PurchaseOrders)

MCOrderings == {[k \in Skus |-> lines] : lines \in {<<3>>, <<1, 2>>}}

MCShipments ==
    {[k \in Skus |-> item] :
        item \in {[as |-> "shipped", n |-> n] : n \in 0..2} \cup {[as |-> "quantity", n |-> -1]}}

MCPatches == {"cancelled"}
=============================================================================
