----------------------------- MODULE OneAtATime ------------------------------
(***************************************************************************)
(* The order service and the inventory service with one request at a time,   *)
(* each of which may die between its steps: what they promise when nothing    *)
(* overlaps.  No request of one calls the other, so a behaviour is one of one  *)
(* service, picked in the initial state.  The parameters they share stand for   *)
(* each one's own.                                                               *)
(***************************************************************************)
EXTENDS Inventory

CONSTANT NoOrder

ASSUME OneAtATimeAssumption == NoOrder \notin OrderIds

VARIABLES service, rows, events, cache, announced, serving

Shop == INSTANCE Orders WITH req <- serving

shopVars == <<rows, events, cache, announced, serving>>

oneVars == <<service, vars, shopVars>>

OneInit == service \in {"orders", "inventory"} /\ Init /\ Shop!Init

OneNext ==
    /\ UNCHANGED service
    /\ \/ service = "orders" /\ Shop!Next /\ UNCHANGED vars
       \/ service = "inventory" /\ Next /\ UNCHANGED shopVars

OneSpec == OneInit /\ [][OneNext]_oneVars

-----------------------------------------------------------------------------
(* The movements and the figures of a row account for each other, and the counter in   *)
(* Redis differs from them only after a request died (record_movement,                  *)
(* sync_stock_counter).                                                                   *)
StockIsExplained == LedgerExplainsStock /\ CounterOffOnlyAfterFailure

(* The events of an order replay to its row, and its status, payment status and closing *)
(* time agree (transition_order).                                                         *)
RowIsExplained == Shop!AuditTrailReplays /\ Shop!ColumnsAgree

(* A cached status and the last message lag behind the row only after a request died     *)
(* (order:status:{id}, publish_event).                                                     *)
LagOnlyAfterFailure == Shop!StaleOnlyAfterFailure /\ Shop!SubscribersUpToDate

(* Every commit of the order service is a step of the promised lifecycle. *)
ImplementsLifecycle == Shop!ImplementsLifecycle
=============================================================================
