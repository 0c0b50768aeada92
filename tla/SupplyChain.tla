----------------------------- MODULE SupplyChain -----------------------------
(***************************************************************************)
(* Purchase orders and the supplier simulator (supplier_simulator), which     *)
(* polls for submitted orders, acknowledges each and ships most of them with   *)
(* requests to the supplier service.  An HTTP error, such as no answer within   *)
(* 30 seconds, ends the round; the request may be carried out all the same.       *)
(* Either the simulator ships, or the clients of Procurement do: which of the      *)
(* two is picked in the initial state.                                              *)
(***************************************************************************)
EXTENDS Procurement

CONSTANT Handlings      \* how many requests the simulator makes at most

ASSUME SupplyChainAssumption == Handlings \in Nat

VARIABLES
    simulated,  \* the supplier simulator ships, the clients do not
    round,      \* the simulator: its stage and what it holds
    acknowledged, shipped,  \* pos_acknowledged and pos_shipped
    handled,    \* history: the requests that the simulator made
    passedOver  \* history: acknowledged orders that it did not ship, or lost sight of

simulatorVars == <<round, acknowledged, shipped, handled, passedOver>>

chainVars == <<vars, simulated, simulatorVars>>

(* pending: the orders of the last poll that are left, with their status and lines of     *)
(* then; po: the order that is worked on; request: the request that it waits for.           *)
Resting == [stage |-> "resting", pending |-> {}, po |-> Nobody, request |-> Nobody]

RoundStage == {"resting", "working", "acknowledging", "deciding", "shipping"}

SimulatorTypeOK ==
    /\ simulated \in BOOLEAN /\ round.stage \in RoundStage
    /\ round.pending \subseteq PurchaseOrders /\ round.po \in PurchaseOrders \cup {Nobody}
    /\ {acknowledged, shipped} \subseteq 0..Cardinality(handled) /\ handled \subseteq Requests

ChainInit ==
    /\ Init /\ simulated \in BOOLEAN
    /\ round = Resting /\ acknowledged = 0 /\ shipped = 0 /\ handled = {} /\ passedOver = {}

(* fetch_pending_pos *)
Pending == {p \in Placed : po[p].status = "submitted"}

Poll ==
    /\ round.stage = "resting" /\ Pending # {}
    /\ round' = [Resting EXCEPT !.stage = "working", !.pending = Pending]
    /\ UNCHANGED <<vars, acknowledged, shipped, handled, passedOver>>

(* process_cycle is over; the loop waits for the next. *)
RoundOver ==
    /\ round.stage = "working" /\ round.pending = {}
    /\ round' = Resting
    /\ UNCHANGED <<vars, acknowledged, shipped, handled, passedOver>>

MayAsk(r) == r \notin handled /\ Cardinality(handled) < Handlings

(* acknowledge_po: PATCH, whatever has become of the order since the poll. *)
Acknowledge(r, p) ==
    /\ round.stage = "working" /\ p \in round.pending /\ MayAsk(r)
    /\ UpdatePORead(r, p, "acknowledged")
    /\ round' = [stage |-> "acknowledging", pending |-> round.pending \ {p}, po |-> p,
                 request |-> r]
    /\ handled' = handled \cup {r}
    /\ UNCHANGED <<acknowledged, shipped, passedOver>>

Acknowledged ==
    /\ round.stage = "acknowledging" /\ req[round.request].stage \in {"done", "failed"}
    /\ IF req[round.request].stage = "done"
       THEN round' = [round EXCEPT !.stage = "deciding"] /\ acknowledged' = acknowledged + 1
       ELSE round' = [round EXCEPT !.stage = "working"] /\ UNCHANGED acknowledged
    /\ UNCHANGED <<vars, shipped, handled, passedOver>>

(* Three orders in ten are acknowledged and no more. *)
PassOver ==
    /\ round.stage = "deciding"
    /\ round' = [round EXCEPT !.stage = "working"]
    /\ passedOver' = passedOver \cup {round.po}
    /\ UNCHANGED <<vars, acknowledged, shipped, handled>>

(* ship_po: of each line between 95 and 100 percent, rounded down, and at least one; of      *)
(* the lines of a SKU the last one is heard.                                                   *)
Parts(lines) ==
    LET n == lines[Len(lines)] IN
    IF lines = << >> THEN {Unsaid}
    ELSE {[as |-> "shipped", n |-> IF part < 1 THEN 1 ELSE part] : part \in ((95 * n) \div 100)..n}

Parcels(p) ==
    {s \in [Skus -> UNION {Parts(po[p].ordered[k]) : k \in Skus}] :
        \A k \in Skus : s[k] \in Parts(po[p].ordered[k])}

Ship(r, parcel) ==
    /\ round.stage = "deciding" /\ MayAsk(r)
    /\ ShipLoad(r, round.po, parcel)
    /\ round' = [round EXCEPT !.stage = "shipping", !.request = r]
    /\ handled' = handled \cup {r}
    /\ UNCHANGED <<acknowledged, shipped, passedOver>>

(* A plausible slip: a shipment is counted although it was refused. *)
ShippedUnchecked ==
    /\ round.stage = "shipping" /\ req[round.request].stage \in {"done", "failed"}
    /\ round' = [round EXCEPT !.stage = "working"]
    /\ shipped' = shipped + 1
    /\ UNCHANGED <<vars, acknowledged, handled, passedOver>>

(* A shipment that fails is not tried again: the order is no longer submitted. *)
Shipped ==
    /\ round.stage = "shipping" /\ req[round.request].stage \in {"done", "failed"}
    /\ round' = [round EXCEPT !.stage = "working"]
    /\ IF req[round.request].stage = "done" THEN shipped' = shipped + 1 /\ UNCHANGED passedOver
       ELSE passedOver' = passedOver \cup {round.po} /\ UNCHANGED shipped
    /\ UNCHANGED <<vars, acknowledged, handled>>

(* run_loop: httpx.HTTPError while it waits for an answer ends the round; what is left of   *)
(* the round is polled again, unless it is no longer submitted.                                *)
HttpError ==
    /\ round.stage \in {"acknowledging", "shipping"}
    /\ round' = Resting
    /\ passedOver' = passedOver \cup {round.po}
    /\ UNCHANGED <<vars, acknowledged, shipped, handled>>

Simulate ==
    \/ Poll \/ RoundOver
    \/ \E r \in Requests, p \in PurchaseOrders : Acknowledge(r, p)
    \/ Acknowledged \/ PassOver
    \/ \E r \in Requests, parcel \in IF round.stage = "deciding" THEN Parcels(round.po) ELSE {} :
           Ship(r, parcel)
    \/ Shipped \/ HttpError

(* Beside the simulator, clients register suppliers, and create and cancel orders. *)
ClientStart(r) ==
    \/ \E p \in PurchaseOrders, s \in Suppliers, ordered \in Orderings,
          status \in {"draft", "submitted"} : CreatePOCount(r, p, s, ordered, status)
    \/ \E p \in PurchaseOrders, status \in Patches : UpdatePORead(r, p, status)

ChainNext ==
    /\ UNCHANGED simulated
    /\ \/ ~simulated /\ Next /\ UNCHANGED simulatorVars
       \/ /\ simulated
          /\ \/ Simulate
             \/ /\ \/ \E r \in Requests : ClientStart(r) \/ Continue(r) \/ Fail(r)
                   \/ \E s \in Suppliers : CreateSupplier(s)
                /\ UNCHANGED simulatorVars

ChainSpec == ChainInit /\ [][ChainNext]_chainVars

-----------------------------------------------------------------------------
(* Properties. *)

(* The simulator ships no order twice, whatever fails, is retried or is cancelled in the       *)
(* meantime: nothing is received beyond what was ordered (process_cycle).                        *)
NothingShippedTwice ==
    simulated => \A p \in PurchaseOrders : Cardinality(ReceiptsOf(p)) <= 1

(* Its counters never exceed what the supplier service recorded (acknowledge_po, ship_po).        *)
CountersAreBacked ==
    simulated => shipped <= Cardinality(receipts)

(* An acknowledged order without a receipt is one that the simulator is about to ship, or one      *)
(* that it passed over or lost sight of; of the latter it never ships any (process_cycle).           *)
AcknowledgedIsShipped ==
    simulated => \A p \in PurchaseOrders :
        (po[p].status = "acknowledged" /\ ReceiptsOf(p) = {}) =>
            p \in passedOver \/ (p = round.po /\ round.stage # "working")

(* The simulator's promises together: what it ships, counts and acknowledges (process_cycle).        *)
SimulatorIsSound ==
    SimulatorTypeOK /\ NothingShippedTwice /\ CountersAreBacked /\ AcknowledgedIsShipped
=============================================================================
