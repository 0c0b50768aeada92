--------------------------- MODULE MCFrontOffice -----------------------------
(* Instances of FrontOffice for model checking: requests are interchangeable,        *)
(* and so are SKUs. *)
EXTENDS FrontOffice, TLC

Symmetric == Permutations(Requests) \cup Permutations(Skus)

(* More than one add puts into a cart, and an update may ask for. *)
MCQuantities == {100}

(* No sale, and one that ends on the first day, for more than the list price.    *)
MCPrices ==
    { [msrp |-> 10, sale |-> 0, from |-> 0, to |-> 0],
      [msrp |-> 10, sale |-> 12, from |-> 0, to |-> 1] }

(* A sale begins or ends, keeps its price alone, or a promotion changes. *)
MCPatches == { {"sale", "to"}, {"to"}, {"kind", "value"}, {"active"} }

MCTiers == { [min |-> 2, percent |-> 15], [min |-> 2, percent |-> 100] }

(* More than everything off, and a fixed amount that a single unit does not cost. *)
MCPromotions ==
    { [kind |-> "percent", value |-> 150, from |-> 2, to |-> 0, active |-> TRUE],
      [kind |-> "fixed", value |-> 15, from |-> 0, to |-> 1, active |-> TRUE] }

MCStated == {-5}
=============================================================================
