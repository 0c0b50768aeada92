----------------------------- MODULE StockBook ------------------------------
(***************************************************************************)
(* What the inventory service promises, with no counters, transactions or  *)
(* requests: units on hand at each stock location, and a book of active    *)
(* reservations that the units on hand always cover.  Inventory is shown   *)
(* to implement this module when requests do not overlap.                  *)
(***************************************************************************)
EXTENDS Integers, Functions

CONSTANTS
    Locations,  \* stock rows: a SKU at a fulfillment center
    Tickets     \* identities of reservations

VARIABLES
    onHand,     \* onHand[k]: units at location k
    active      \* the active reservations: records [ticket, key, quantity]

vars == <<onHand, active>>

Promised(k) ==
    SumFunctionOnSet([a \in active |-> a.quantity], {a \in active : a.key = k})

Available(k) == onHand[k] - Promised(k)

Init ==
    /\ onHand = [k \in Locations |-> 0]
    /\ active = {}

(* Units arrive or leave; what is promised stays covered. *)
Adjust ==
    \E k \in Locations :
        /\ onHand'[k] >= Promised(k)
        /\ onHand' = [onHand EXCEPT ![k] = onHand'[k]]
        /\ UNCHANGED active

(* A new reservation takes available units. *)
Reserve ==
    /\ UNCHANGED onHand
    /\ \E t \in Tickets, k \in Locations :
           /\ t \notin {a.ticket : a \in active}
           /\ \E q \in 1..Available(k) :
                  active' = active \cup {[ticket |-> t, key |-> k, quantity |-> q]}

(* One or more reservations are released. *)
Release ==
    /\ UNCHANGED onHand
    /\ \E some \in (SUBSET active) \ {{}} : active' = active \ some

Next == Adjust \/ Reserve \/ Release

Spec == Init /\ [][Next]_vars
=============================================================================
