---------------------------- MODULE Procurement -----------------------------
(***************************************************************************)
(* The supplier service (supplier_service): suppliers, purchase orders,    *)
(* goods receipts and supplier invoices.  Numbers of orders, receipts and  *)
(* invoices are the row count plus one, read before the insert and guarded *)
(* only by a unique index: an insert waits while another transaction holds *)
(* the same number uncommitted, and fails once the number is committed.    *)
(* A handler works on what it loaded first: receipts that it inserts       *)
(* itself, or that others commit, do not enter the loaded collection.      *)
(***************************************************************************)
EXTENDS Integers, Sequences, FiniteSets, Functions

CONSTANTS
    Suppliers,      \* suppliers that may be registered
    PurchaseOrders, \* identities of purchase orders
    Skus,           \* SKUs of the line items
    Orderings,      \* the lines of an order: quantities of each SKU's lines
    Shipments,      \* what a shipment's body says of each SKU
    Patches,        \* statuses that clients set with PATCH /purchase-orders/{id}
    Requests,       \* HTTP requests; each is issued at most once
    Nobody,         \* the supplier or order of a request that has none
    Overlap,        \* TRUE: requests interleave; FALSE: one at a time
    MayFail         \* TRUE: a request may die between two of its steps

POStatus == {"draft", "submitted", "acknowledged", "partially_received", "received",
             "cancelled"}

InvoiceStatus == {"pending_match", "matched", "disputed"}

(* The lines of an order have positive quantities; a SKU may have several, or    *)
(* none (<< >>).                                                                  *)
Ordering == [Skus -> Seq(Nat \ {0})]

(* What a shipment's body, a list of unchecked dicts, says of a SKU: a number as  *)
(* quantity_shipped or quantity_received, one as quantity, or nothing.             *)
Item == [as : {"shipped", "quantity", "nothing"}, n : Int]

Shipment == [Skus -> Item]

(* Received quantities are plain integers: no column of theirs has a CHECK.        *)
Quantity == [Skus -> Int]

ASSUME ProcurementAssumption ==
    /\ Nobody \notin Suppliers \cup PurchaseOrders
    /\ Orderings \subseteq Ordering
    /\ Shipments \subseteq Shipment
    /\ Patches \subseteq POStatus
    /\ IsFiniteSet(PurchaseOrders)
    /\ Overlap \in BOOLEAN
    /\ MayFail \in BOOLEAN

VARIABLES
    supplier,   \* supplier[s]: "absent", "active" or "inactive"
    po,         \* po[p]: the purchase_orders row
    receipts,   \* the goods_receipts rows
    invoices,   \* the supplier_invoices rows
    req         \* req[r]: how far the handler of request r has come

vars == <<supplier, po, receipts, invoices, req>>

Idle == {"new", "done", "failed"}

Stage == Idle \cup {"counted_po", "inserted_po", "patched", "updating", "deleting",
                    "loaded", "counted_receipt", "inserted_receipt", "invoicing",
                    "counted_invoice", "ready", "matching"}

None == [k \in Skus |-> << >>]

Unsaid == [as |-> "nothing", n |-> 0]

PurchaseOrder == [status : POStatus \cup {"absent"}, number : Nat,
                  supplier : Suppliers \cup {Nobody}, ordered : Ordering]

NoOrder == [status |-> "absent", number |-> 0, supplier |-> Nobody, ordered |-> None]

GoodsReceipt == [number : Nat, po : PurchaseOrders, status : {"partial", "complete"},
                 received : Quantity]

SupplierInvoice == [number : Nat, po : PurchaseOrders, status : InvoiceStatus,
                    discrepancies : SUBSET Skus]

(* What a handler keeps between its steps: what it loaded (a status, the      *)
(* receipts of the order), its input, and the numbers it computed.             *)
Request == [stage : Stage, po : PurchaseOrders \cup {Nobody},
            supplier : Suppliers \cup {Nobody},
            seen : POStatus \cup InvoiceStatus \cup {"none"},
            target : POStatus \cup InvoiceStatus \cup {"none", "active", "inactive"},
            loaded : SUBSET GoodsReceipt, ordered : Ordering, shipment : Shipment,
            number : Nat, invoice : Nat, stored : SUBSET Skus]

NoRequest == [stage |-> "new", po |-> Nobody, supplier |-> Nobody, seen |-> "none",
              target |-> "none", loaded |-> {}, ordered |-> None,
              shipment |-> [k \in Skus |-> Unsaid],
              number |-> 0, invoice |-> 0, stored |-> {}]

TypeOK ==
    /\ supplier \in [Suppliers -> {"absent", "active", "inactive"}]
    /\ po \in [PurchaseOrders -> PurchaseOrder]
    /\ receipts \subseteq GoodsReceipt
    /\ invoices \subseteq SupplierInvoice
    /\ req \in [Requests -> Request]

Init ==
    /\ supplier = [s \in Suppliers |-> "absent"]
    /\ po = [p \in PurchaseOrders |-> NoOrder]
    /\ receipts = {}
    /\ invoices = {}
    /\ req = [r \in Requests |-> NoRequest]

-----------------------------------------------------------------------------
MayStart(r) ==
    /\ req[r].stage = "new"
    /\ Overlap \/ \A q \in Requests : req[q].stage \in Idle

Advance(r, stage) == req' = [req EXCEPT ![r].stage = stage]

Finish(r, final) == req' = [req EXCEPT ![r] = [NoRequest EXCEPT !.stage = final]]

Placed == {p \in PurchaseOrders : po[p].status # "absent"}

(* Requests whose transaction holds an uncommitted row.                       *)
HoldsPO(r) == req[r].stage = "inserted_po"

HoldsReceipt(r) ==
    req[r].stage \in {"inserted_receipt", "invoicing", "counted_invoice", "ready"}

(* The unique index on a number: free, or wait, or fail.                       *)
NumberTaken(r) ==
    CASE req[r].stage = "counted_po" -> \E p \in Placed : po[p].number = req[r].number
      [] req[r].stage = "counted_receipt" -> \E g \in receipts : g.number = req[r].number
      [] req[r].stage = "counted_invoice" -> \E i \in invoices : i.number = req[r].invoice
      [] OTHER -> FALSE

(* A statement that violates the index ends the request and rolls it back.     *)
Collide(r) ==
    /\ NumberTaken(r)
    /\ Finish(r, "failed")
    /\ UNCHANGED <<supplier, po, receipts, invoices>>

-----------------------------------------------------------------------------
(* Suppliers. *)

(* create_supplier: one insert, committed at once. *)
CreateSupplier(s) ==
    /\ Overlap \/ \A q \in Requests : req[q].stage \in Idle
    /\ supplier[s] = "absent"
    /\ supplier' = [supplier EXCEPT ![s] = "active"]
    /\ UNCHANGED <<po, receipts, invoices, req>>

(* update_supplier: the client may set is_active, unchecked. *)
UpdateSupplierRead(r, s, activity) ==
    /\ MayStart(r)
    /\ supplier[s] # "absent"
    /\ req' = [req EXCEPT ![r] = [NoRequest EXCEPT !.stage = "updating", !.supplier = s,
                                                   !.target = activity]]
    /\ UNCHANGED <<supplier, po, receipts, invoices>>

Open(status) == status \notin {"absent", "cancelled", "received"}

(* delete_supplier: 409 while the supplier has open purchase orders.          *)
DeleteSupplierCheck(r, s) ==
    /\ MayStart(r)
    /\ supplier[s] # "absent"
    /\ \A p \in PurchaseOrders : po[p].supplier = s => ~Open(po[p].status)
    /\ req' = [req EXCEPT ![r] = [NoRequest EXCEPT !.stage = "deleting", !.supplier = s]]
    /\ UNCHANGED <<supplier, po, receipts, invoices>>

UpdateSupplierCommit(r) ==
    /\ req[r].stage = "updating"
    /\ supplier' = [supplier EXCEPT ![req[r].supplier] = req[r].target]
    /\ Finish(r, "done")
    /\ UNCHANGED <<po, receipts, invoices>>

DeleteSupplierCommit(r) ==
    /\ req[r].stage = "deleting"
    /\ supplier' = [supplier EXCEPT ![req[r].supplier] = "inactive"]
    /\ Finish(r, "done")
    /\ UNCHANGED <<po, receipts, invoices>>

-----------------------------------------------------------------------------
(* Purchase orders. *)

(* create_purchase_order: the supplier must exist, active or not.             *)
CreatePOCount(r, p, s, ordered, status) ==
    /\ MayStart(r)
    /\ supplier[s] # "absent"
    /\ p \notin Placed /\ \A q \in Requests : req[q].po # p
    /\ req' = [req EXCEPT ![r] = [NoRequest EXCEPT !.stage = "counted_po", !.po = p,
                                                   !.supplier = s, !.ordered = ordered,
                                                   !.target = status,
                                                   !.number = Cardinality(Placed) + 1]]
    /\ UNCHANGED <<supplier, po, receipts, invoices>>

(* A plausible slip: the number has no unique index to wait for. *)
CreatePOInsertUnindexed(r) ==
    /\ req[r].stage = "counted_po"
    /\ Advance(r, "inserted_po")
    /\ UNCHANGED <<supplier, po, receipts, invoices>>

CreatePOInsert(r) ==
    /\ req[r].stage = "counted_po"
    /\ ~NumberTaken(r)
    /\ \A q \in Requests : HoldsPO(q) => req[q].number # req[r].number
    /\ Advance(r, "inserted_po")
    /\ UNCHANGED <<supplier, po, receipts, invoices>>

CreatePOCommit(r) ==
    /\ req[r].stage = "inserted_po"
    /\ po' = [po EXCEPT ![req[r].po] =
                 [status |-> req[r].target, number |-> req[r].number,
                  supplier |-> req[r].supplier, ordered |-> req[r].ordered]]
    /\ Finish(r, "done")
    /\ UNCHANGED <<supplier, receipts, invoices>>

(* update_po: any status may replace any other.                               *)
UpdatePORead(r, p, status) ==
    /\ MayStart(r)
    /\ p \in Placed
    /\ req' = [req EXCEPT ![r] = [NoRequest EXCEPT !.stage = "patched", !.po = p,
                                                   !.seen = po[p].status, !.target = status]]
    /\ UNCHANGED <<supplier, po, receipts, invoices>>

UpdatePOCommit(r) ==
    /\ req[r].stage = "patched"
    /\ po' = [po EXCEPT ![req[r].po].status =
                 IF req[r].target # req[r].seen THEN req[r].target ELSE @]
    /\ Finish(r, "done")
    /\ UNCHANGED <<supplier, receipts, invoices>>

-----------------------------------------------------------------------------
(* ship_po: a receipt, the status of the order, and its first invoice, in     *)
(* one transaction.                                                            *)

ReceiptsOf(p) == {g \in receipts : g.po = p}

(* aggregate_received_quantities *)
Received(some) ==
    [k \in Skus |-> SumFunctionOnSet([g \in some |-> g.received[k]], some)]

ShipLoad(r, p, shipped) ==
    /\ MayStart(r)
    /\ p \in Placed
    /\ req' = [req EXCEPT ![r] = [NoRequest EXCEPT !.stage = "loaded", !.po = p,
                                                   !.seen = po[p].status,
                                                   !.loaded = ReceiptsOf(p),
                                                   !.shipment = shipped]]
    /\ UNCHANGED <<supplier, po, receipts, invoices>>

(* generate_receipt_number *)
ShipCount(r) ==
    /\ req[r].stage = "loaded"
    /\ req' = [req EXCEPT ![r].stage = "counted_receipt",
                          ![r].number = Cardinality(receipts) + 1]
    /\ UNCHANGED <<supplier, po, receipts, invoices>>

ShipInsert(r) ==
    /\ req[r].stage = "counted_receipt"
    /\ ~NumberTaken(r)
    /\ \A q \in Requests : HoldsReceipt(q) => req[q].number # req[r].number
    /\ Advance(r, "inserted_receipt")
    /\ UNCHANGED <<supplier, po, receipts, invoices>>

Smaller(m, n) == IF m < n THEN m ELSE n

(* ship_po chains the keys with "or": a 0 counts as not said, except under the    *)
(* last key; what is not said is all of the line.                                 *)
Asked(item, line) ==
    IF item.as = "nothing" \/ (item.as = "shipped" /\ item.n = 0) THEN line ELSE item.n

(* create_goods_receipt: a line receives no more than was ordered, and may receive *)
(* less than nothing; the lines of a SKU all receive what is said of the SKU.       *)
Taken(lines, item) ==
    LET taken == [i \in DOMAIN lines |-> Smaller(Asked(item, lines[i]), lines[i])] IN
    SumFunctionOnSet(taken, DOMAIN lines)

Receipt(r) ==
    LET ordered == po[req[r].po].ordered
        shipment == req[r].shipment IN
    [number |-> req[r].number, po |-> req[r].po,
     received |-> [k \in Skus |-> Taken(ordered[k], shipment[k])],
     status |-> IF \A k \in Skus : \A i \in DOMAIN ordered[k] :
                       Asked(shipment[k], ordered[k][i]) >= ordered[k][i]
                THEN "complete" ELSE "partial"]

Invoiced(p) == \E i \in invoices : i.po = p

(* A plausible slip: only a shipment of everything is invoiced. *)
ShipFindInvoiceWhole(r) ==
    /\ req[r].stage = "inserted_receipt"
    /\ Advance(r, IF Invoiced(req[r].po) \/ Receipt(r).status = "partial"
                  THEN "ready" ELSE "invoicing")
    /\ UNCHANGED <<supplier, po, receipts, invoices>>

(* Only the first shipment of an order is invoiced. *)
ShipFindInvoice(r) ==
    /\ req[r].stage = "inserted_receipt"
    /\ Advance(r, IF Invoiced(req[r].po) THEN "ready" ELSE "invoicing")
    /\ UNCHANGED <<supplier, po, receipts, invoices>>

(* generate_invoice_number *)
ShipCountInvoices(r) ==
    /\ req[r].stage = "invoicing"
    /\ req' = [req EXCEPT ![r].stage = "counted_invoice",
                          ![r].invoice = Cardinality(invoices) + 1]
    /\ UNCHANGED <<supplier, po, receipts, invoices>>

ShipInsertInvoice(r) ==
    /\ req[r].stage = "counted_invoice"
    /\ ~NumberTaken(r)
    /\ Advance(r, "ready")
    /\ UNCHANGED <<supplier, po, receipts, invoices>>

(* compute_discrepancies compares the last line of a SKU with the total received   *)
(* and the total invoiced.  ship_po invoices each line with the quantity of its     *)
(* SKU's last line, so a SKU with several lines always differs.                      *)
Discrepancies(ordered, some) ==
    {k \in Skus : /\ ordered[k] # << >>
                  /\ Len(ordered[k]) > 1 \/ Received(some)[k] # ordered[k][1]}

(* Every line is covered by what was received of its SKU in total.                   *)
Covers(some, ordered) ==
    \A k \in Skus : \A i \in DOMAIN ordered[k] : Received(some)[k] >= ordered[k][i]

(* A plausible slip: the order is complete unless a receipt lacks something. *)
StatusAfterNothing(seen, some, ordered) ==
    IF \A g \in some : Covers({g}, ordered) THEN "received" ELSE "partially_received"

(* update_po_receipt_status, on the receipts that were loaded.                 *)
StatusAfter(seen, some, ordered) ==
    IF some = {} THEN seen
    ELSE IF Covers(some, ordered) THEN "received"
    ELSE IF \E k \in Skus : ordered[k] # << >> /\ Received(some)[k] > 0
         THEN "partially_received"
    ELSE seen

ShipCommit(r) ==
    LET p == req[r].po
        seen == req[r].seen
        status == StatusAfter(seen, req[r].loaded, po[p].ordered) IN
    /\ req[r].stage = "ready"
    /\ receipts' = receipts \cup {Receipt(r)}
    /\ invoices' = IF req[r].invoice = 0 THEN invoices
                   ELSE invoices \cup
                        {[number |-> req[r].invoice, po |-> p, status |-> "pending_match",
                          discrepancies |-> Discrepancies(po[p].ordered, req[r].loaded)]}
    /\ po' = [po EXCEPT ![p].status = IF status # seen THEN status ELSE @]
    /\ Finish(r, "done")
    /\ UNCHANGED supplier

-----------------------------------------------------------------------------
(* match_supplier_invoice: approve, hold or dispute, whatever the              *)
(* discrepancies, which are computed again.                                    *)

MatchRead(r, i, status) ==
    /\ MayStart(r)
    /\ req' = [req EXCEPT ![r] = [NoRequest EXCEPT !.stage = "matching", !.po = i.po,
                                                   !.seen = i.status, !.target = status,
                                                   !.invoice = i.number,
                                                   !.loaded = ReceiptsOf(i.po),
                                                   !.stored = i.discrepancies]]
    /\ UNCHANGED <<supplier, po, receipts, invoices>>

MatchCommit(r) ==
    LET found == Discrepancies(po[req[r].po].ordered, req[r].loaded)
        matched(i) == [i EXCEPT
            !.status = IF req[r].target # req[r].seen THEN req[r].target ELSE @,
            !.discrepancies = IF found # req[r].stored THEN found ELSE @] IN
    /\ req[r].stage = "matching"
    /\ invoices' = {IF i.number = req[r].invoice THEN matched(i) ELSE i : i \in invoices}
    /\ Finish(r, "done")
    /\ UNCHANGED <<supplier, po, receipts>>

(* The process dies or a statement fails: the transaction is rolled back.      *)
Fail(r) ==
    /\ MayFail
    /\ req[r].stage \notin Idle
    /\ Finish(r, "failed")
    /\ UNCHANGED <<supplier, po, receipts, invoices>>

Start(r) ==
    \/ \E s \in Suppliers :
           \/ \E activity \in {"active", "inactive"} : UpdateSupplierRead(r, s, activity)
           \/ DeleteSupplierCheck(r, s)
    \/ \E p \in PurchaseOrders, s \in Suppliers, ordered \in Orderings,
          status \in {"draft", "submitted"} : CreatePOCount(r, p, s, ordered, status)
    \/ \E p \in PurchaseOrders, status \in Patches : UpdatePORead(r, p, status)
    \/ \E p \in PurchaseOrders, shipped \in Shipments : ShipLoad(r, p, shipped)
    \/ \E i \in invoices, status \in InvoiceStatus : MatchRead(r, i, status)

Continue(r) ==
    \/ UpdateSupplierCommit(r) \/ DeleteSupplierCommit(r)
    \/ CreatePOInsert(r) \/ CreatePOCommit(r)
    \/ UpdatePOCommit(r)
    \/ ShipCount(r) \/ ShipInsert(r) \/ ShipFindInvoice(r)
    \/ ShipCountInvoices(r) \/ ShipInsertInvoice(r) \/ ShipCommit(r)
    \/ MatchCommit(r)
    \/ Collide(r)

Next ==
    \/ \E r \in Requests : Start(r) \/ Continue(r) \/ Fail(r)
    \/ \E s \in Suppliers : CreateSupplier(s)

Spec == Init /\ [][Next]_vars

-----------------------------------------------------------------------------
(* Properties. *)

(* However requests overlap and fail, the numbers of the committed orders,     *)
(* receipts and invoices are 1, 2, ..., n: no number is used twice and none is   *)
(* skipped, although each is computed from a row count read earlier.             *)
NumbersDense ==
    /\ {po[p].number : p \in Placed} = 1..Cardinality(Placed)
    /\ {g.number : g \in receipts} = 1..Cardinality(receipts)
    /\ {i.number : i \in invoices} = 1..Cardinality(invoices)

(* However requests overlap and fail, an order has an invoice exactly if it     *)
(* has a receipt, and never two: the check for an existing invoice is not        *)
(* guarded by an index, only by the wait for the receipt number before it.       *)
OneInvoicePerOrder ==
    /\ {g.po : g \in receipts} = {i.po : i \in invoices}
    /\ \A i, j \in invoices : i.po = j.po => i = j

(* An order shows "received" only when some of its committed receipts together    *)
(* cover every line, and all of them do unless one has a negative quantity; and     *)
(* "partially_received" only when some of them bring in something; as long as no     *)
(* client sets these statuses itself.  A handler judges by receipts it loaded before  *)
(* it waited, which others may have added to, or taken from with a negative quantity. *)
ReceivedIsCovered ==
    Patches \cap {"received", "partially_received"} = {} =>
        \A p \in PurchaseOrders :
            /\ po[p].status = "received" =>
                   /\ \E some \in SUBSET ReceiptsOf(p) : Covers(some, po[p].ordered)
                   /\ (\A g \in ReceiptsOf(p), k \in Skus : g.received[k] >= 0)
                          => Covers(ReceiptsOf(p), po[p].ordered)
            /\ po[p].status = "partially_received" =>
                   \E some \in SUBSET ReceiptsOf(p), k \in Skus : Received(some)[k] > 0

(* The discrepancies stored with an invoice nobody has matched yet are those of   *)
(* the receipts that were there when it was written: a first shipment that         *)
(* delivers everything leaves none.                                                *)
MatchIsThreeWay ==
    \A i \in invoices :
        (i.status = "pending_match" /\ Cardinality(ReceiptsOf(i.po)) = 1) =>
            i.discrepancies = Discrepancies(po[i.po].ordered, ReceiptsOf(i.po))
=============================================================================
