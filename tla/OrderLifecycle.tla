--------------------------- MODULE OrderLifecycle ---------------------------
(***************************************************************************)
(* What the order service promises of one order, with no requests, cache   *)
(* or database in sight: an order is placed with its payment authorised,   *)
(* is confirmed when the payment is captured, then walks the state machine *)
(* of the README, and a cancellation refunds it in the same step.  Orders  *)
(* is shown to implement this module when requests do not overlap.         *)
(***************************************************************************)
CONSTANTS
    OrderIds,   \* orders the service may hold
    Edges       \* the transitions <<from, to>> of the state machine

VARIABLES
    status,     \* status[o], "absent" before the order is placed
    payment     \* payment[o], "none" before the order is placed

vars == <<status, payment>>

Init ==
    /\ status = [o \in OrderIds |-> "absent"]
    /\ payment = [o \in OrderIds |-> "none"]

(* An order is placed: pending, its payment authorised. *)
Place(o) ==
    /\ status[o] = "absent"
    /\ status' = [status EXCEPT ![o] = "pending"]
    /\ payment' = [payment EXCEPT ![o] = "authorized"]

(* The payment is captured and the order confirmed. *)
Capture(o) ==
    /\ status[o] = "pending"
    /\ status' = [status EXCEPT ![o] = "confirmed"]
    /\ payment' = [payment EXCEPT ![o] = "captured"]

(* The order moves along an edge that is not a cancellation. *)
Advance(o, target) ==
    /\ <<status[o], target>> \in Edges
    /\ target # "cancelled"
    /\ status' = [status EXCEPT ![o] = target]
    /\ UNCHANGED payment

(* The order is cancelled and its payment refunded, in one step. *)
Cancel(o) ==
    /\ <<status[o], "cancelled">> \in Edges
    /\ status' = [status EXCEPT ![o] = "cancelled"]
    /\ payment' = [payment EXCEPT ![o] = "refunded"]

Next ==
    \E o \in OrderIds :
        \/ Place(o)
        \/ Capture(o)
        \/ \E target \in {edge[2] : edge \in Edges} : Advance(o, target)
        \/ Cancel(o)

Spec == Init /\ [][Next]_vars
=============================================================================
