------------------------- MODULE ProcurementProofs --------------------------
(***************************************************************************)
(* Proofs about Procurement for every set of suppliers, orders, SKUs and   *)
(* requests, however the requests interleave and fail: the numbers of      *)
(* orders, receipts and invoices are dense, an order has one invoice       *)
(* exactly if it has a receipt, and an order is received only when its     *)
(* receipts cover it.  With the simulator of SupplyChain beside them all   *)
(* this stays so, and the simulator ships no order twice, counts only what *)
(* was recorded and abandons no acknowledged order without a trace.        *)
(*                                                                         *)
(* The argument: a number read from a row count is at most the count plus  *)
(* one.  The unique index lets a row be inserted only with a number that   *)
(* no committed row has, so with the count plus one, and only if no other  *)
(* transaction holds that number; hence at most one transaction holds an   *)
(* uncommitted receipt, and the invoice is looked up, counted and inserted *)
(* while no other shipment can commit.  Receipts only grow, so what some   *)
(* of them cover all of them cover.                                        *)
(***************************************************************************)
EXTENDS SupplyChain, SumFacts, FiniteSetTheorems, TLAPS

Creating(h) == h.stage \in {"counted_po", "inserted_po"}

Holding(h) == h.stage \in {"inserted_receipt", "invoicing", "counted_invoice", "ready"}

Shipping(h) == Holding(h) \/ h.stage \in {"loaded", "counted_receipt"}

TablesFinite == IsFiniteSet(receipts) /\ IsFiniteSet(invoices)

(* What a request in flight, as the record h, refers to.                       *)
RefersOK(h) ==
    /\ Creating(h) => h.po \in PurchaseOrders \ Placed /\ h.target \in POStatus
    /\ Shipping(h) => h.po \in Placed /\ h.seen \in POStatus
    /\ h.stage = "patched" => h.po \in Placed /\ h.target \in POStatus
    /\ h.stage = "updating" => h.supplier \in Suppliers /\ h.target \in {"active", "inactive"}
    /\ h.stage = "deleting" => h.supplier \in Suppliers
    /\ h.stage = "matching" => h.target \in InvoiceStatus

(* What it has counted.                                                         *)
CountedOK(h) ==
    /\ h.stage = "counted_po" => h.number \in 1..(Cardinality(Placed) + 1)
    /\ h.stage = "inserted_po" => h.number = Cardinality(Placed) + 1
    /\ h.stage = "counted_receipt" => h.number \in 1..(Cardinality(receipts) + 1)
    /\ Holding(h) => h.number = Cardinality(receipts) + 1

(* What a shipment knows of the invoice of its order.                            *)
InvoicingOK(h) ==
    /\ h.stage \in {"loaded", "counted_receipt", "inserted_receipt", "invoicing"} =>
           h.invoice = 0
    /\ h.stage \in {"invoicing", "counted_invoice"} => ~Invoiced(h.po)
    /\ h.stage = "counted_invoice" => h.invoice = Cardinality(invoices) + 1
    /\ h.stage = "ready" =>
           IF h.invoice = 0 THEN Invoiced(h.po)
           ELSE h.invoice = Cardinality(invoices) + 1 /\ ~Invoiced(h.po)

HandlerOK(h) == RefersOK(h) /\ CountedOK(h) /\ InvoicingOK(h)

(* Two handlers g and h do not both hold a new receipt, nor a new order, nor     *)
(* create the same order.                                                        *)
Apart(g, h) ==
    /\ ~(Holding(g) /\ Holding(h))
    /\ ~(g.stage = "inserted_po" /\ h.stage = "inserted_po")
    /\ Creating(g) /\ Creating(h) => g.po # h.po

(* The index serialises the transactions that hold a new row.                   *)
SoleHolders == \A q, r \in Requests : q # r => Apart(req[q], req[r])

NumbersUnique == \A i, j \in invoices : i.number = j.number => i = j

ProcurementInv ==
    /\ TypeOK
    /\ TablesFinite
    /\ NumbersDense
    /\ NumbersUnique
    /\ OneInvoicePerOrder
    /\ SoleHolders
    /\ \A r \in Requests : HandlerOK(req[r])

-----------------------------------------------------------------------------
(* A table whose rows are numbered 1, 2, ..., n and that gets the row n + 1     *)
(* stays so.                                                                    *)
LEMMA AddNumbered ==
    ASSUME NEW S, IsFiniteSet(S), {x.number : x \in S} = 1..Cardinality(S),
           NEW y, y.number = Cardinality(S) + 1
    PROVE  /\ IsFiniteSet(S \cup {y})
           /\ Cardinality(S \cup {y}) = Cardinality(S) + 1
           /\ {x.number : x \in S \cup {y}} = 1..Cardinality(S \cup {y})
           /\ \A x \in S : x.number # y.number
<1>1. Cardinality(S) \in Nat
  BY FS_CardinalityType
<1>2. \A x \in S : x.number \in 1..Cardinality(S)
  OBVIOUS
<1>3. \A x \in S : x.number # y.number
  BY <1>1, <1>2
<1>4. y \notin S
  BY <1>3
<1>5. /\ IsFiniteSet(S \cup {y}) /\ Cardinality(S \cup {y}) = Cardinality(S) + 1
  BY <1>4, FS_AddElement
<1>6. {x.number : x \in S \cup {y}} = {x.number : x \in S} \cup {y.number}
  OBVIOUS
<1>7. 1..(Cardinality(S) + 1) = 1..Cardinality(S) \cup {Cardinality(S) + 1}
  BY <1>1
<1>8. QED
  BY <1>3, <1>5, <1>6, <1>7

(* Rewriting rows without changing their numbers changes neither the count nor  *)
(* the numbers.                                                                  *)
LEMMA RewriteNumbered ==
    ASSUME NEW S, IsFiniteSet(S), \A x, y \in S : x.number = y.number => x = y,
           NEW T, NEW f \in [S -> T], T = {f[x] : x \in S},
           \A x \in S : f[x].number = x.number
    PROVE  /\ IsFiniteSet(T)
           /\ Cardinality(T) = Cardinality(S)
           /\ {x.number : x \in T} = {x.number : x \in S}
           /\ \A x, y \in T : x.number = y.number => x = y
<1>1. f \in Surjection(S, T)
  BY DEF Surjection
<1>2. f \in Injection(S, T)
  BY DEF Injection, IsInjective
<1>3. IsFiniteSet(T) /\ Cardinality(T) = Cardinality(S)
  BY <1>1, <1>2, FS_Surjection
<1>4. {x.number : x \in T} = {x.number : x \in S}
  OBVIOUS
<1>5. \A x, y \in T : x.number = y.number => x = y
  OBVIOUS
<1>6. QED
  BY <1>3, <1>4, <1>5

LEMMA NoRequestOK ==
    /\ NoRequest \in Request /\ NoOrder \in PurchaseOrder /\ None \in Ordering
    /\ \A s \in Stage : [NoRequest EXCEPT !.stage = s] \in Request
<1>1. None \in Ordering /\ [k \in Skus |-> Unsaid] \in Shipment
  <2>1. << >> \in Seq(Nat \ {0})
    OBVIOUS
  <2>2. QED
    BY <2>1 DEF None, Ordering, Unsaid, Shipment, Item
<1>2. QED
  BY <1>1 DEF NoRequest, Request, NoOrder, PurchaseOrder, Stage, Idle

(* What a receipt takes in of a SKU's lines is a number.                          *)
LEMMA TakenIsInt ==
    ASSUME NEW lines \in Seq(Nat \ {0}), NEW item \in Item
    PROVE  Taken(lines, item) \in Int
<1> DEFINE taken == [i \in DOMAIN lines |-> Smaller(Asked(item, lines[i]), lines[i])]
<1>1. IsFiniteSet(DOMAIN lines)
  <2>1. DOMAIN lines = 1..Len(lines) /\ Len(lines) \in Nat
    OBVIOUS
  <2>2. QED
    BY <2>1, FS_Interval
<1>2. \A i \in DOMAIN lines : taken[i] \in Int
  <2>1. ASSUME NEW i \in DOMAIN lines PROVE Smaller(Asked(item, lines[i]), lines[i]) \in Int
    <3>1. lines[i] \in Int /\ item.n \in Int
      BY DEF Item
    <3>2. QED
      BY <3>1 DEF Smaller, Asked
  <2>2. QED
    BY <2>1
<1>3. Taken(lines, item) = SumFunctionOnSet(taken, DOMAIN lines)
  BY DEF Taken
<1> HIDE DEF taken
<1>4. QED
  BY <1>1, <1>2, <1>3, SumIsInt

LEMMA PlacedFinite == IsFiniteSet(Placed) /\ Cardinality(Placed) \in Nat
<1>1. Placed \subseteq PurchaseOrders
  BY DEF Placed
<1>2. QED
  BY <1>1, ProcurementAssumption, FS_Subset, FS_CardinalityType

LEMMA ProcurementInit == Init => ProcurementInv
<1> SUFFICES ASSUME Init PROVE ProcurementInv
  OBVIOUS
<1>1. TypeOK
  BY NoRequestOK DEF Init, TypeOK
<1>2. /\ Placed = {} /\ receipts = {} /\ invoices = {}
      /\ Cardinality({}) = 0 /\ IsFiniteSet({})
  BY FS_EmptySet DEF Init, Placed, NoOrder
<1>3. 1..0 = {}
  OBVIOUS
<1>4. TablesFinite /\ NumbersDense /\ NumbersUnique /\ OneInvoicePerOrder
  BY <1>2, <1>3 DEF TablesFinite, NumbersDense, NumbersUnique, OneInvoicePerOrder
<1>5. SoleHolders /\ \A r \in Requests : HandlerOK(req[r])
  BY DEF Init, SoleHolders, Apart, HandlerOK, RefersOK, CountedOK, InvoicingOK, Holding,
         Creating, Shipping, NoRequest
<1>6. QED
  BY <1>1, <1>4, <1>5 DEF ProcurementInv

(* A handler that is neither shipping nor creating imposes nothing on others.     *)
LEMMA Bystander ==
    ASSUME NEW h, h.stage \in Idle \cup {"patched", "updating", "deleting", "matching"}
    PROVE  ~Creating(h) /\ ~Holding(h) /\ ~Shipping(h) /\ CountedOK(h) /\ InvoicingOK(h)
           /\ \A g : Apart(g, h) /\ Apart(h, g)
BY DEF Creating, Holding, Shipping, CountedOK, InvoicingOK, Apart, Idle

(* A request that moves to h without touching orders, receipts and invoices.      *)
LEMMA QuietStep ==
    ASSUME ProcurementInv, NEW r \in Requests, NEW h \in Request,
           req' = [req EXCEPT ![r] = h], UNCHANGED <<po, receipts, invoices>>,
           supplier' \in [Suppliers -> {"absent", "active", "inactive"}],
           HandlerOK(h), \A q \in Requests : q # r => Apart(req[q], h) /\ Apart(h, req[q])
    PROVE  ProcurementInv'
<1> USE DEF ProcurementInv
<1>1. req'[r] = h /\ \A q \in Requests : q # r => req'[q] = req[q]
  BY DEF TypeOK
<1>2. TypeOK'
  BY DEF TypeOK
<1>0. Placed' = Placed
  BY DEF Placed
<1>3. TablesFinite' /\ NumbersDense' /\ NumbersUnique' /\ OneInvoicePerOrder'
  <2>1. {po'[p].number : p \in Placed'} = {po[p].number : p \in Placed}
    BY <1>0
  <2>2. NumbersDense'
    BY <1>0, <2>1 DEF NumbersDense
  <2>3. TablesFinite' /\ NumbersUnique'
    BY DEF TablesFinite, NumbersUnique
  <2>4. OneInvoicePerOrder'
    BY DEF OneInvoicePerOrder
  <2>5. QED
    BY <2>2, <2>3, <2>4
<1>4. SoleHolders'
  BY <1>1 DEF SoleHolders, Apart, Creating, Holding
<1>5. ASSUME NEW q \in Requests PROVE HandlerOK(req[q])'
  <2>1. PICK g : g = req'[q] /\ HandlerOK(g)
    BY <1>1
  <2>2. RefersOK(req[q])'
    BY <2>1, <1>0 DEF HandlerOK, RefersOK, Creating, Shipping, Holding
  <2>3. CountedOK(req[q])'
    BY <2>1, <1>0 DEF HandlerOK, CountedOK, Holding
  <2>4. InvoicingOK(req[q])'
    BY <2>1 DEF HandlerOK, InvoicingOK, Invoiced
  <2>5. QED
    BY <2>2, <2>3, <2>4 DEF HandlerOK
<1>6. QED
  BY <1>2, <1>3, <1>4, <1>5

(* Starting a handler that ships or creates nothing.                              *)
LEMMA StartBystander ==
    ASSUME ProcurementInv, NEW r \in Requests, NEW h \in Request,
           req' = [req EXCEPT ![r] = h], UNCHANGED <<po, receipts, invoices>>,
           supplier' \in [Suppliers -> {"absent", "active", "inactive"}],
           h.stage \in Idle \cup {"patched", "updating", "deleting", "matching"}, RefersOK(h)
    PROVE  ProcurementInv'
<1>1. HandlerOK(h) /\ \A g : Apart(g, h) /\ Apart(h, g)
  BY Bystander DEF HandlerOK
<1>2. QED
  BY <1>1, QuietStep

(* A handler that stops without a commit.                                         *)
LEMMA StopQuietly ==
    ASSUME ProcurementInv, NEW r \in Requests, NEW final \in {"done", "failed"},
           Finish(r, final), UNCHANGED <<po, receipts, invoices>>,
           supplier' \in [Suppliers -> {"absent", "active", "inactive"}]
    PROVE  ProcurementInv'
<1>1. PICK h \in Request : /\ req' = [req EXCEPT ![r] = h] /\ h.stage = final
  <2>1. [NoRequest EXCEPT !.stage = final] \in Request
    BY NoRequestOK DEF Stage, Idle
  <2>2. [NoRequest EXCEPT !.stage = final].stage = final
    BY DEF NoRequest
  <2>3. QED
    BY <2>1, <2>2 DEF Finish
<1>2. RefersOK(h)
  BY <1>1 DEF RefersOK, Creating, Shipping, Holding
<1>3. QED
  BY <1>1, <1>2, StartBystander DEF Idle

(* What a request is while its handler has only read: the record it becomes.      *)
LEMMA CountEffect ==
    ASSUME TypeOK, NEW r \in Requests, NEW p \in PurchaseOrders, NEW s \in Suppliers,
           NEW ordered \in Ordering, NEW status \in {"draft", "submitted"},
           CreatePOCount(r, p, s, ordered, status)
    PROVE  \E h \in Request : /\ req' = [req EXCEPT ![r] = h]
                              /\ h.stage = "counted_po" /\ h.po = p /\ h.target = status
                              /\ h.number = Cardinality(Placed) + 1
<1> DEFINE n == Cardinality(Placed) + 1
           h == [NoRequest EXCEPT !.stage = "counted_po", !.po = p, !.supplier = s,
                                  !.ordered = ordered, !.target = status, !.number = n]
<1>0. n \in Nat /\ status \in POStatus /\ "counted_po" \in Stage
  BY PlacedFinite DEF POStatus, Stage
<1> HIDE DEF n
<1>1. /\ h \in Request /\ h.stage = "counted_po" /\ h.po = p /\ h.target = status
      /\ h.number = n
  BY NoRequestOK, <1>0 DEF Request
<1>2. req' = [req EXCEPT ![r] = h]
  BY DEF CreatePOCount, n
<1>3. QED
  BY <1>1, <1>2 DEF n

LEMMA PatchEffect ==
    ASSUME TypeOK, NEW r \in Requests, NEW p \in PurchaseOrders, NEW status \in POStatus,
           UpdatePORead(r, p, status)
    PROVE  \E h \in Request : /\ req' = [req EXCEPT ![r] = h]
                              /\ h.stage = "patched" /\ h.po = p /\ h.target = status
                              /\ h.seen = po[p].status
<1> DEFINE seen == po[p].status
           h == [NoRequest EXCEPT !.stage = "patched", !.po = p, !.seen = seen,
                                  !.target = status]
<1>0. seen \in POStatus /\ "patched" \in Stage
  BY DEF UpdatePORead, Placed, PurchaseOrder, TypeOK, Stage
<1> HIDE DEF seen
<1>1. h \in Request /\ h.stage = "patched" /\ h.po = p /\ h.target = status /\ h.seen = seen
  BY NoRequestOK, <1>0 DEF Request
<1>2. req' = [req EXCEPT ![r] = h]
  BY DEF UpdatePORead, seen
<1>3. QED
  BY <1>1, <1>2 DEF seen

LEMMA LoadEffect ==
    ASSUME TypeOK, NEW r \in Requests, NEW p \in PurchaseOrders, NEW parcel \in Shipment,
           ShipLoad(r, p, parcel)
    PROVE  \E h \in Request : /\ req' = [req EXCEPT ![r] = h]
                              /\ h.stage = "loaded" /\ h.po = p /\ h.seen = po[p].status
                              /\ h.loaded = ReceiptsOf(p) /\ h.invoice = 0
<1> DEFINE seen == po[p].status
           loaded == ReceiptsOf(p)
           h == [NoRequest EXCEPT !.stage = "loaded", !.po = p, !.seen = seen,
                                  !.loaded = loaded, !.shipment = parcel]
<1>0. seen \in POStatus /\ loaded \in SUBSET GoodsReceipt /\ "loaded" \in Stage
  BY DEF ShipLoad, Placed, PurchaseOrder, ReceiptsOf, TypeOK, Stage
<1> HIDE DEF seen, loaded
<1>1. /\ h \in Request /\ h.stage = "loaded" /\ h.po = p /\ h.seen = seen
      /\ h.loaded = loaded
  BY NoRequestOK, <1>0 DEF Request
<1>2. h.invoice = 0
  BY DEF NoRequest
<1>3. req' = [req EXCEPT ![r] = h]
  BY DEF ShipLoad, seen, loaded
<1>4. QED
  BY <1>1, <1>2, <1>3 DEF seen, loaded

(* Next for every ordered and shipped quantity, and for the statuses S instead of  *)
(* Patches: the steps of Procurement and of SupplyChain are such steps.             *)
StartWith(r, S) ==
    \/ \E s \in Suppliers :
           \/ \E activity \in {"active", "inactive"} : UpdateSupplierRead(r, s, activity)
           \/ DeleteSupplierCheck(r, s)
    \/ \E p \in PurchaseOrders, s \in Suppliers, ordered \in Ordering,
          status \in {"draft", "submitted"} : CreatePOCount(r, p, s, ordered, status)
    \/ \E p \in PurchaseOrders, status \in S : UpdatePORead(r, p, status)
    \/ \E p \in PurchaseOrders, parcel \in Shipment : ShipLoad(r, p, parcel)
    \/ \E i \in invoices, status \in InvoiceStatus : MatchRead(r, i, status)

NextWith(S) ==
    \/ \E r \in Requests : StartWith(r, S) \/ Continue(r) \/ Fail(r)
    \/ \E s \in Suppliers : CreateSupplier(s)

(* Every first step of a handler preserves the invariant.                         *)
LEMMA StartStep ==
    ASSUME ProcurementInv, NEW r \in Requests, NEW S \in SUBSET POStatus, StartWith(r, S)
    PROVE  ProcurementInv'
<1> USE DEF ProcurementInv
<1>i. /\ supplier \in [Suppliers -> {"absent", "active", "inactive"}]
      /\ po \in [PurchaseOrders -> PurchaseOrder]
      /\ Cardinality(Placed) \in Nat
      /\ "updating" \in Stage /\ "deleting" \in Stage /\ "counted_po" \in Stage
      /\ "patched" \in Stage /\ "loaded" \in Stage /\ "matching" \in Stage
  BY PlacedFinite DEF TypeOK, Stage
<1>1. ASSUME NEW s \in Suppliers, NEW activity \in {"active", "inactive"},
             UpdateSupplierRead(r, s, activity)
      PROVE ProcurementInv'
  <2>1. PICK h \in Request : /\ req' = [req EXCEPT ![r] = h]
                             /\ h.stage = "updating" /\ h.supplier = s /\ h.target = activity
    <3> DEFINE h == [NoRequest EXCEPT !.stage = "updating", !.supplier = s,
                                      !.target = activity]
    <3>1. h \in Request /\ h.stage = "updating" /\ h.supplier = s /\ h.target = activity
      BY NoRequestOK, <1>i DEF Request
    <3>2. QED
      BY <1>1, <3>1 DEF UpdateSupplierRead
  <2>2. RefersOK(h)
    BY <2>1 DEF RefersOK, Creating, Shipping, Holding
  <2>3. QED
    BY <1>1, <1>i, <2>1, <2>2, StartBystander DEF UpdateSupplierRead
<1>2. ASSUME NEW s \in Suppliers, DeleteSupplierCheck(r, s) PROVE ProcurementInv'
  <2>1. PICK h \in Request : /\ req' = [req EXCEPT ![r] = h]
                             /\ h.stage = "deleting" /\ h.supplier = s
    <3> DEFINE h == [NoRequest EXCEPT !.stage = "deleting", !.supplier = s]
    <3>1. h \in Request /\ h.stage = "deleting" /\ h.supplier = s
      BY NoRequestOK, <1>i DEF Request
    <3>2. QED
      BY <1>2, <3>1 DEF DeleteSupplierCheck
  <2>2. RefersOK(h)
    BY <2>1 DEF RefersOK, Creating, Shipping, Holding
  <2>3. QED
    BY <1>2, <1>i, <2>1, <2>2, StartBystander DEF DeleteSupplierCheck
<1>3. ASSUME NEW p \in PurchaseOrders, NEW s \in Suppliers, NEW ordered \in Ordering,
             NEW status \in {"draft", "submitted"}, CreatePOCount(r, p, s, ordered, status)
      PROVE ProcurementInv'
  <2>1. PICK h \in Request : /\ req' = [req EXCEPT ![r] = h]
                             /\ h.stage = "counted_po" /\ h.po = p /\ h.target = status
                             /\ h.number = Cardinality(Placed) + 1
    BY <1>3, CountEffect
  <2>2. HandlerOK(h)
    BY <2>1, <1>3, <1>i DEF CreatePOCount, HandlerOK, RefersOK, CountedOK, InvoicingOK,
                            Creating, Shipping, Holding, POStatus
  <2>3. \A q \in Requests : Apart(req[q], h) /\ Apart(h, req[q])
    BY <2>1, <1>3 DEF CreatePOCount, Apart, Holding
  <2>4. QED
    BY <1>3, <1>i, <2>1, <2>2, <2>3, QuietStep DEF CreatePOCount
<1>4. ASSUME NEW p \in PurchaseOrders, NEW status \in S, UpdatePORead(r, p, status)
      PROVE ProcurementInv'
  <2>1. PICK h \in Request : /\ req' = [req EXCEPT ![r] = h]
                             /\ h.stage = "patched" /\ h.po = p /\ h.target = status
    BY <1>4, PatchEffect
  <2>2. RefersOK(h)
    BY <2>1, <1>4
    DEF UpdatePORead, RefersOK, Creating, Shipping, Holding
  <2>3. QED
    BY <1>4, <1>i, <2>1, <2>2, StartBystander DEF UpdatePORead
<1>5. ASSUME NEW p \in PurchaseOrders, NEW parcel \in Shipment, ShipLoad(r, p, parcel)
      PROVE ProcurementInv'
  <2>1. PICK h \in Request : /\ req' = [req EXCEPT ![r] = h]
                             /\ h.stage = "loaded" /\ h.po = p /\ h.seen = po[p].status
                             /\ h.invoice = 0
    BY <1>5, LoadEffect
  <2>2. HandlerOK(h)
    BY <2>1, <1>5, <1>i DEF ShipLoad, HandlerOK, RefersOK, CountedOK, InvoicingOK,
                            Creating, Shipping, Holding, Placed, PurchaseOrder
  <2>3. \A q \in Requests : Apart(req[q], h) /\ Apart(h, req[q])
    BY <2>1 DEF Apart, Holding, Creating
  <2>4. QED
    BY <1>5, <1>i, <2>1, <2>2, <2>3, QuietStep DEF ShipLoad
<1>6. ASSUME NEW i \in invoices, NEW status \in InvoiceStatus, MatchRead(r, i, status)
      PROVE ProcurementInv'
  <2>1. PICK h \in Request : /\ req' = [req EXCEPT ![r] = h]
                             /\ h.stage = "matching" /\ h.target = status
    <3>0. i \in SupplierInvoice /\ ReceiptsOf(i.po) \in SUBSET GoodsReceipt
      BY DEF TypeOK, ReceiptsOf
    <3> DEFINE loaded == ReceiptsOf(i.po)
               h == [NoRequest EXCEPT !.stage = "matching", !.po = i.po, !.seen = i.status,
                                      !.target = status, !.invoice = i.number,
                                      !.loaded = loaded, !.stored = i.discrepancies]
    <3>1. req' = [req EXCEPT ![r] = h]
      BY <1>6 DEF MatchRead
    <3> HIDE DEF loaded
    <3>2. h \in Request /\ h.stage = "matching" /\ h.target = status
      BY NoRequestOK, <1>i, <3>0 DEF Request, SupplierInvoice, loaded
    <3>3. QED
      BY <3>1, <3>2
  <2>2. RefersOK(h)
    BY <2>1 DEF RefersOK, Creating, Shipping, Holding
  <2>3. QED
    BY <1>6, <1>i, <2>1, <2>2, StartBystander DEF MatchRead
<1>7. QED
  BY <1>1, <1>2, <1>3, <1>4, <1>5, <1>6 DEF StartWith

(* Every further step that leaves orders, receipts and invoices alone preserves    *)
(* the invariant.                                                                  *)
LEMMA MiddleStep ==
    ASSUME ProcurementInv, NEW r \in Requests,
           \/ CreatePOInsert(r) \/ ShipCount(r) \/ ShipInsert(r) \/ ShipFindInvoice(r)
           \/ ShipCountInvoices(r) \/ ShipInsertInvoice(r)
    PROVE  ProcurementInv'
<1> USE DEF ProcurementInv
<1>i. /\ supplier \in [Suppliers -> {"absent", "active", "inactive"}]
      /\ req \in [Requests -> Request] /\ req[r] \in Request
      /\ Cardinality(Placed) \in Nat
      /\ Cardinality(receipts) \in Nat /\ Cardinality(invoices) \in Nat
      /\ "inserted_po" \in Stage /\ "counted_receipt" \in Stage
      /\ "inserted_receipt" \in Stage /\ "invoicing" \in Stage
      /\ "counted_invoice" \in Stage /\ "ready" \in Stage
  BY PlacedFinite, FS_CardinalityType DEF TypeOK, TablesFinite, Stage
<1>h. HandlerOK(req[r]) /\ \A q \in Requests : q # r => /\ Apart(req[q], req[r])
                                                        /\ Apart(req[r], req[q])
                                                        /\ HandlerOK(req[q])
  BY DEF SoleHolders
<1>1. ASSUME CreatePOInsert(r) PROVE ProcurementInv'
  <2>1. PICK h \in Request : /\ req' = [req EXCEPT ![r] = h] /\ h.stage = "inserted_po"
                             /\ h.po = req[r].po /\ h.target = req[r].target
                             /\ h.number = req[r].number
    <3> DEFINE h == [req[r] EXCEPT !.stage = "inserted_po"]
    <3>1. h \in Request /\ h.stage = "inserted_po" /\ h.po = req[r].po
          /\ h.target = req[r].target /\ h.number = req[r].number
      BY <1>i DEF Request
    <3>2. req' = [req EXCEPT ![r] = h]
      BY <1>1, <1>i DEF CreatePOInsert, Advance
    <3>3. QED
      BY <3>1, <3>2
  <2>2. req[r].number = Cardinality(Placed) + 1
    <3>1. req[r].number \in 1..(Cardinality(Placed) + 1)
      BY <1>1, <1>h DEF CreatePOInsert, HandlerOK, CountedOK
    <3>2. req[r].number \notin 1..Cardinality(Placed)
      BY <1>1 DEF CreatePOInsert, NumberTaken, NumbersDense
    <3>3. QED
      BY <3>1, <3>2, <1>i
  <2>3. HandlerOK(h)
    BY <1>1, <1>h, <2>1, <2>2 DEF CreatePOInsert, HandlerOK, RefersOK, CountedOK,
                                  InvoicingOK, Creating, Shipping, Holding
  <2>4. \A q \in Requests : q # r => Apart(req[q], h) /\ Apart(h, req[q])
    <3>1. \A q \in Requests : q # r => req[q].stage # "inserted_po"
      BY <1>1, <1>h, <2>2 DEF CreatePOInsert, HoldsPO, HandlerOK, CountedOK
    <3>2. QED
      BY <1>1, <1>h, <2>1, <3>1 DEF CreatePOInsert, Apart, Holding, Creating
  <2>5. QED
    BY <1>1, <1>i, <2>1, <2>3, <2>4, QuietStep DEF CreatePOInsert
<1>2. ASSUME ShipCount(r) PROVE ProcurementInv'
  <2>1. PICK h \in Request : /\ req' = [req EXCEPT ![r] = h] /\ h.stage = "counted_receipt"
                             /\ h.po = req[r].po /\ h.seen = req[r].seen
                             /\ h.number = Cardinality(receipts) + 1
                             /\ h.invoice = req[r].invoice
    <3> DEFINE n == Cardinality(receipts) + 1
               h == [req[r] EXCEPT !.stage = "counted_receipt", !.number = n]
    <3>0. n \in Nat
      BY <1>i
    <3>1. req' = [req EXCEPT ![r] = h]
      BY <1>2, <1>i DEF ShipCount
    <3> HIDE DEF n
    <3>2. h \in Request /\ h.stage = "counted_receipt" /\ h.po = req[r].po
          /\ h.seen = req[r].seen /\ h.number = n /\ h.invoice = req[r].invoice
      BY <1>i, <3>0 DEF Request
    <3>3. QED
      BY <3>1, <3>2 DEF n
  <2>2. HandlerOK(h)
    BY <1>2, <1>h, <1>i, <2>1 DEF ShipCount, HandlerOK, RefersOK, CountedOK,
                                  InvoicingOK, Creating, Shipping, Holding
  <2>3. \A q \in Requests : q # r => Apart(req[q], h) /\ Apart(h, req[q])
    BY <2>1 DEF Apart, Holding, Creating
  <2>4. QED
    BY <1>2, <1>i, <2>1, <2>2, <2>3, QuietStep DEF ShipCount
<1>3. ASSUME ShipInsert(r) PROVE ProcurementInv'
  <2>1. PICK h \in Request : /\ req' = [req EXCEPT ![r] = h] /\ h.stage = "inserted_receipt"
                             /\ h.po = req[r].po /\ h.seen = req[r].seen
                             /\ h.number = req[r].number /\ h.invoice = req[r].invoice
    <3> DEFINE h == [req[r] EXCEPT !.stage = "inserted_receipt"]
    <3>1. h \in Request /\ h.stage = "inserted_receipt" /\ h.po = req[r].po
          /\ h.seen = req[r].seen /\ h.number = req[r].number /\ h.invoice = req[r].invoice
      BY <1>i DEF Request
    <3>2. req' = [req EXCEPT ![r] = h]
      BY <1>3, <1>i DEF ShipInsert, Advance
    <3>3. QED
      BY <3>1, <3>2
  <2>2. req[r].number = Cardinality(receipts) + 1
    <3>1. req[r].number \in 1..(Cardinality(receipts) + 1)
      BY <1>3, <1>h DEF ShipInsert, HandlerOK, CountedOK
    <3>2. req[r].number \notin 1..Cardinality(receipts)
      BY <1>3 DEF ShipInsert, NumberTaken, NumbersDense
    <3>3. QED
      BY <3>1, <3>2, <1>i
  <2>3. HandlerOK(h)
    BY <1>3, <1>h, <2>1, <2>2 DEF ShipInsert, HandlerOK, RefersOK, CountedOK,
                                  InvoicingOK, Creating, Shipping, Holding
  <2>4. \A q \in Requests : q # r => Apart(req[q], h) /\ Apart(h, req[q])
    <3>1. \A q \in Requests : q # r => ~Holding(req[q])
      BY <1>3, <1>h, <2>2 DEF ShipInsert, HoldsReceipt, Holding, HandlerOK, CountedOK
    <3>2. QED
      BY <2>1, <3>1 DEF Apart, Creating
  <2>5. QED
    BY <1>3, <1>i, <2>1, <2>3, <2>4, QuietStep DEF ShipInsert
<1>4. ASSUME ShipFindInvoice(r) PROVE ProcurementInv'
  <2>1. PICK h \in Request : /\ req' = [req EXCEPT ![r] = h]
                             /\ h.stage = (IF Invoiced(req[r].po) THEN "ready" ELSE "invoicing")
                             /\ h.po = req[r].po /\ h.seen = req[r].seen
                             /\ h.number = req[r].number /\ h.invoice = req[r].invoice
    <3> DEFINE s == IF Invoiced(req[r].po) THEN "ready" ELSE "invoicing"
               h == [req[r] EXCEPT !.stage = s]
    <3>0. s \in Stage
      BY <1>i
    <3>1. req' = [req EXCEPT ![r] = h]
      BY <1>4, <1>i DEF ShipFindInvoice, Advance
    <3> HIDE DEF s
    <3>2. h \in Request /\ h.stage = s /\ h.po = req[r].po
          /\ h.seen = req[r].seen /\ h.number = req[r].number /\ h.invoice = req[r].invoice
      BY <1>i, <3>0 DEF Request
    <3>3. QED
      BY <3>1, <3>2 DEF s
  <2>2. HandlerOK(h)
    BY <1>4, <1>h, <2>1 DEF ShipFindInvoice, HandlerOK, RefersOK, CountedOK,
                            InvoicingOK, Creating, Shipping, Holding
  <2>3. \A q \in Requests : q # r => Apart(req[q], h) /\ Apart(h, req[q])
    BY <1>4, <1>h, <2>1 DEF ShipFindInvoice, Apart, Holding, Creating
  <2>4. QED
    BY <1>4, <1>i, <2>1, <2>2, <2>3, QuietStep DEF ShipFindInvoice
<1>5. ASSUME ShipCountInvoices(r) PROVE ProcurementInv'
  <2>1. PICK h \in Request : /\ req' = [req EXCEPT ![r] = h] /\ h.stage = "counted_invoice"
                             /\ h.po = req[r].po /\ h.seen = req[r].seen
                             /\ h.number = req[r].number
                             /\ h.invoice = Cardinality(invoices) + 1
    <3> DEFINE n == Cardinality(invoices) + 1
               h == [req[r] EXCEPT !.stage = "counted_invoice", !.invoice = n]
    <3>0. n \in Nat
      BY <1>i
    <3>1. req' = [req EXCEPT ![r] = h]
      BY <1>5, <1>i DEF ShipCountInvoices
    <3> HIDE DEF n
    <3>2. h \in Request /\ h.stage = "counted_invoice" /\ h.po = req[r].po
          /\ h.seen = req[r].seen /\ h.number = req[r].number /\ h.invoice = n
      BY <1>i, <3>0 DEF Request
    <3>3. QED
      BY <3>1, <3>2 DEF n
  <2>2. HandlerOK(h)
    BY <1>5, <1>h, <2>1 DEF ShipCountInvoices, HandlerOK, RefersOK, CountedOK,
                            InvoicingOK, Creating, Shipping, Holding
  <2>3. \A q \in Requests : q # r => Apart(req[q], h) /\ Apart(h, req[q])
    BY <1>5, <1>h, <2>1 DEF ShipCountInvoices, Apart, Holding, Creating
  <2>4. QED
    BY <1>5, <1>i, <2>1, <2>2, <2>3, QuietStep DEF ShipCountInvoices
<1>6. ASSUME ShipInsertInvoice(r) PROVE ProcurementInv'
  <2>1. PICK h \in Request : /\ req' = [req EXCEPT ![r] = h] /\ h.stage = "ready"
                             /\ h.po = req[r].po /\ h.seen = req[r].seen
                             /\ h.number = req[r].number /\ h.invoice = req[r].invoice
    <3> DEFINE h == [req[r] EXCEPT !.stage = "ready"]
    <3>1. h \in Request /\ h.stage = "ready" /\ h.po = req[r].po
          /\ h.seen = req[r].seen /\ h.number = req[r].number /\ h.invoice = req[r].invoice
      BY <1>i DEF Request
    <3>2. req' = [req EXCEPT ![r] = h]
      BY <1>6, <1>i DEF ShipInsertInvoice, Advance
    <3>3. QED
      BY <3>1, <3>2
  <2>2. HandlerOK(h)
    BY <1>6, <1>h, <1>i, <2>1 DEF ShipInsertInvoice, HandlerOK, RefersOK, CountedOK,
                                  InvoicingOK, Creating, Shipping, Holding
  <2>3. \A q \in Requests : q # r => Apart(req[q], h) /\ Apart(h, req[q])
    BY <1>6, <1>h, <2>1 DEF ShipInsertInvoice, Apart, Holding, Creating
  <2>4. QED
    BY <1>6, <1>i, <2>1, <2>2, <2>3, QuietStep DEF ShipInsertInvoice
<1>7. QED
  BY <1>1, <1>2, <1>3, <1>4, <1>5, <1>6

(* What a commit of r leaves to show about the other handlers.                     *)
LEMMA CommitKeepsOthers ==
    ASSUME ProcurementInv, NEW r \in Requests, Finish(r, "done"),
           \A q \in Requests : q # r => HandlerOK(req[q])'
    PROVE  /\ req' \in [Requests -> Request]
           /\ SoleHolders'
           /\ (\A q \in Requests : HandlerOK(req[q]))'
<1> USE DEF ProcurementInv
<1>1. /\ req' \in [Requests -> Request] /\ req'[r].stage = "done"
      /\ \A q \in Requests : q # r => req'[q] = req[q]
  <2>1. [NoRequest EXCEPT !.stage = "done"] \in Request
    BY NoRequestOK DEF Stage, Idle
  <2>2. [NoRequest EXCEPT !.stage = "done"].stage = "done"
    BY DEF NoRequest
  <2>3. QED
    BY <2>1, <2>2 DEF Finish, TypeOK
<1>2. SoleHolders'
  BY <1>1 DEF SoleHolders, Apart, Creating, Holding
<1>3. HandlerOK(req[r])'
  BY <1>1 DEF HandlerOK, RefersOK, CountedOK, InvoicingOK, Creating, Shipping, Holding
<1>4. QED
  BY <1>1, <1>2, <1>3

LEMMA CreatePOCommitStep ==
    ASSUME ProcurementInv, NEW r \in Requests, CreatePOCommit(r)
    PROVE  ProcurementInv'
<1> USE DEF ProcurementInv
<1>i. /\ po \in [PurchaseOrders -> PurchaseOrder] /\ req[r] \in Request
      /\ IsFiniteSet(Placed) /\ Cardinality(Placed) \in Nat
      /\ HandlerOK(req[r])
  BY PlacedFinite DEF TypeOK
<1>1. PICK p \in PurchaseOrders \ Placed, row \in PurchaseOrder :
         /\ po' = [po EXCEPT ![p] = row] /\ p = req[r].po
         /\ row.status # "absent" /\ row.number = Cardinality(Placed) + 1
  <2> DEFINE row == [status |-> req[r].target, number |-> req[r].number,
                     supplier |-> req[r].supplier, ordered |-> req[r].ordered]
  <2>1. /\ req[r].po \in PurchaseOrders \ Placed /\ req[r].target \in POStatus
        /\ req[r].number = Cardinality(Placed) + 1
    BY <1>i DEF CreatePOCommit, HandlerOK, RefersOK, CountedOK, Creating
  <2>2. row \in PurchaseOrder /\ row.status # "absent" /\ row.number = Cardinality(Placed) + 1
    BY <2>1, <1>i DEF Request, PurchaseOrder, POStatus
  <2>3. po' = [po EXCEPT ![req[r].po] = row]
    BY DEF CreatePOCommit
  <2>4. QED
    BY <2>1, <2>2, <2>3
<1>2. /\ po' \in [PurchaseOrders -> PurchaseOrder] /\ Placed' = Placed \cup {p}
      /\ po'[p] = row /\ \A q \in PurchaseOrders : q # p => po'[q] = po[q]
  BY <1>1, <1>i DEF Placed
<1>3. Cardinality(Placed') = Cardinality(Placed) + 1
  BY <1>1, <1>2, <1>i, FS_AddElement
<1>4. {po'[x].number : x \in Placed'} = 1..Cardinality(Placed')
  <2>1. \A x \in Placed : po'[x] = po[x]
    BY <1>1, <1>2 DEF Placed
  <2>2. {po'[x].number : x \in Placed'} = {po[x].number : x \in Placed} \cup {row.number}
    BY <1>2, <2>1
  <2>3. 1..(Cardinality(Placed) + 1) = 1..Cardinality(Placed) \cup {Cardinality(Placed) + 1}
    BY <1>i
  <2>4. QED
    BY <1>1, <1>3, <2>2, <2>3 DEF NumbersDense
<1>5. NumbersDense' /\ NumbersUnique' /\ TablesFinite' /\ OneInvoicePerOrder'
  <2>1. NumbersDense'
    BY <1>4 DEF CreatePOCommit, NumbersDense
  <2>2. QED
    BY <2>1 DEF CreatePOCommit, NumbersUnique, TablesFinite, OneInvoicePerOrder
<1>6. ASSUME NEW q \in Requests, q # r PROVE HandlerOK(req[q])'
  <2>1. req'[q] = req[q] /\ HandlerOK(req[q]) /\ Apart(req[q], req[r]) /\ req[q] \in Request
    BY <1>6 DEF CreatePOCommit, Finish, TypeOK, SoleHolders
  <2>2. /\ Creating(req[q]) => req[q].po # p
        /\ req[q].stage # "inserted_po"
    BY <2>1, <1>1 DEF CreatePOCommit, Apart, Creating
  <2>3. RefersOK(req[q])'
    BY <2>1, <2>2, <1>2 DEF HandlerOK, RefersOK, Creating, Shipping, Holding
  <2>4. CountedOK(req[q])'
    BY <2>1, <2>2, <1>3, <1>i DEF CreatePOCommit, HandlerOK, CountedOK, Holding
  <2>5. InvoicingOK(req[q])'
    BY <2>1 DEF CreatePOCommit, HandlerOK, InvoicingOK, Invoiced
  <2>6. QED
    BY <2>3, <2>4, <2>5 DEF HandlerOK
<1>7. Finish(r, "done")
  BY DEF CreatePOCommit
<1>8. TypeOK'
  BY <1>2, <1>6, <1>7, CommitKeepsOthers DEF TypeOK, CreatePOCommit
<1>9. QED
  BY <1>5, <1>6, <1>7, <1>8, CommitKeepsOthers

LEMMA UpdatePOCommitStep ==
    ASSUME ProcurementInv, NEW r \in Requests, UpdatePOCommit(r)
    PROVE  ProcurementInv'
<1> USE DEF ProcurementInv
<1>i. /\ po \in [PurchaseOrders -> PurchaseOrder] /\ HandlerOK(req[r])
  BY DEF TypeOK
<1>1. PICK p \in Placed, row \in PurchaseOrder :
         /\ po' = [po EXCEPT ![p] = row]
         /\ row.status # "absent" /\ row.number = po[p].number
  <2> DEFINE p == req[r].po
             row == [po[p] EXCEPT !.status = IF req[r].target # req[r].seen
                                             THEN req[r].target ELSE @]
  <2>1. p \in Placed /\ p \in PurchaseOrders /\ req[r].target \in POStatus
        /\ po[p] \in PurchaseOrder /\ po[p].status # "absent"
    BY <1>i DEF UpdatePOCommit, HandlerOK, RefersOK, Placed
  <2>2. row \in PurchaseOrder /\ row.status # "absent" /\ row.number = po[p].number
    BY <2>1 DEF PurchaseOrder, POStatus
  <2>3. po' = [po EXCEPT ![p] = row]
    BY <2>1, <1>i DEF UpdatePOCommit
  <2>4. QED
    BY <2>1, <2>2, <2>3
<1>2. /\ po' \in [PurchaseOrders -> PurchaseOrder] /\ Placed' = Placed
      /\ \A x \in Placed : po'[x].number = po[x].number
  BY <1>1, <1>i DEF Placed
<1>3. NumbersDense' /\ NumbersUnique' /\ TablesFinite' /\ OneInvoicePerOrder'
  <2>1. {po'[x].number : x \in Placed'} = {po[x].number : x \in Placed}
    BY <1>2
  <2>2. NumbersDense'
    BY <1>2, <2>1 DEF UpdatePOCommit, NumbersDense
  <2>3. QED
    BY <2>2 DEF UpdatePOCommit, NumbersUnique, TablesFinite, OneInvoicePerOrder
<1>4. ASSUME NEW q \in Requests, q # r PROVE HandlerOK(req[q])'
  <2>1. req'[q] = req[q] /\ HandlerOK(req[q])
    BY <1>4 DEF UpdatePOCommit, Finish, TypeOK
  <2>2. RefersOK(req[q])'
    BY <2>1, <1>2 DEF HandlerOK, RefersOK, Creating, Shipping, Holding
  <2>3. CountedOK(req[q])'
    BY <2>1, <1>2 DEF UpdatePOCommit, HandlerOK, CountedOK, Holding
  <2>4. InvoicingOK(req[q])'
    BY <2>1 DEF UpdatePOCommit, HandlerOK, InvoicingOK, Invoiced
  <2>5. QED
    BY <2>2, <2>3, <2>4 DEF HandlerOK
<1>5. Finish(r, "done")
  BY DEF UpdatePOCommit
<1>6. TypeOK'
  BY <1>2, <1>4, <1>5, CommitKeepsOthers DEF TypeOK, UpdatePOCommit
<1>7. QED
  BY <1>3, <1>4, <1>5, <1>6, CommitKeepsOthers

LEMMA ShipCommitStep ==
    ASSUME ProcurementInv, NEW r \in Requests, ShipCommit(r)
    PROVE  ProcurementInv'
<1> USE DEF ProcurementInv
<1>i. /\ po \in [PurchaseOrders -> PurchaseOrder] /\ req[r] \in Request
      /\ receipts \subseteq GoodsReceipt /\ invoices \subseteq SupplierInvoice
      /\ IsFiniteSet(receipts) /\ Cardinality(receipts) \in Nat
      /\ IsFiniteSet(invoices) /\ Cardinality(invoices) \in Nat
      /\ HandlerOK(req[r]) /\ req[r].stage = "ready"
  BY FS_CardinalityType DEF TypeOK, TablesFinite, ShipCommit
<1>p. PICK p : p = req[r].po /\ p \in Placed /\ p \in PurchaseOrders
  BY <1>i DEF HandlerOK, RefersOK, Shipping, Holding, Placed
<1>1. PICK row \in PurchaseOrder :
         /\ po' = [po EXCEPT ![p] = row]
         /\ row.status # "absent" /\ row.number = po[p].number
  <2> DEFINE status == StatusAfter(req[r].seen, req[r].loaded, po[p].ordered)
             row == [po[p] EXCEPT !.status = IF status # req[r].seen THEN status ELSE @]
  <2>1. req[r].seen \in POStatus /\ po[p] \in PurchaseOrder /\ po[p].status # "absent"
    BY <1>i, <1>p DEF HandlerOK, RefersOK, Shipping, Holding, Placed
  <2>2. status \in POStatus
    BY <2>1 DEF StatusAfter, POStatus
  <2>3. po' = [po EXCEPT ![p] = row]
    BY <1>p, <1>i DEF ShipCommit
  <2> HIDE DEF status
  <2>4. row \in PurchaseOrder /\ row.status # "absent" /\ row.number = po[p].number
    BY <2>1, <2>2 DEF PurchaseOrder, POStatus
  <2>5. QED
    BY <2>3, <2>4
<1>2. /\ po' \in [PurchaseOrders -> PurchaseOrder] /\ Placed' = Placed
      /\ \A x \in Placed : po'[x].number = po[x].number
  BY <1>p, <1>1, <1>i DEF Placed
<1>3. PICK g \in GoodsReceipt : /\ receipts' = receipts \cup {g}
                               /\ g.number = Cardinality(receipts) + 1 /\ g.po = p
  <2> DEFINE ordered == po[p].ordered
             shipment == req[r].shipment
             received == [k \in Skus |-> Taken(ordered[k], shipment[k])]
             status == IF \A k \in Skus : \A i \in DOMAIN ordered[k] :
                              Asked(shipment[k], ordered[k][i]) >= ordered[k][i]
                       THEN "complete" ELSE "partial"
  <2>1. received \in Quantity
    <3>1. \A k \in Skus : ordered[k] \in Seq(Nat \ {0}) /\ shipment[k] \in Item
      BY <1>i, <1>p DEF Request, PurchaseOrder, Ordering, Shipment
    <3>2. QED
      BY <3>1, TakenIsInt DEF Quantity
  <2>2. /\ Receipt(r).number = req[r].number /\ Receipt(r).po = p
        /\ Receipt(r) \in GoodsReceipt
    <3>1. Receipt(r) = [number |-> req[r].number, po |-> p, received |-> received,
                        status |-> status]
      BY <1>p DEF Receipt
    <3>0. status \in {"partial", "complete"}
      OBVIOUS
    <3> HIDE DEF received, status
    <3>2. req[r].number \in Nat
      BY <1>i DEF Request
    <3>3. QED
      BY <3>0, <3>1, <3>2, <2>1, <1>p DEF GoodsReceipt
  <2>3. req[r].number = Cardinality(receipts) + 1
    BY <1>i DEF HandlerOK, CountedOK, Holding
  <2>4. receipts' = receipts \cup {Receipt(r)}
    BY DEF ShipCommit
  <2>5. QED
    BY <2>2, <2>3, <2>4
<1>4. /\ IsFiniteSet(receipts') /\ Cardinality(receipts') = Cardinality(receipts) + 1
      /\ {x.number : x \in receipts'} = 1..Cardinality(receipts')
  BY <1>3, <1>i, AddNumbered DEF NumbersDense
(* The invoice: none if the order has one already, its first one otherwise.       *)
<1>5. /\ invoices' \subseteq SupplierInvoice /\ IsFiniteSet(invoices')
      /\ {i.number : i \in invoices'} = 1..Cardinality(invoices')
      /\ NumbersUnique'
      /\ {i.po : i \in invoices'} = {i.po : i \in invoices} \cup {p}
      /\ \A i, j \in invoices' : i.po = j.po => i = j
      /\ \A q : Invoiced(q)' <=> Invoiced(q) \/ q = p
  <2>1. CASE req[r].invoice = 0
    <3>1. invoices' = invoices /\ Invoiced(p)
      BY <2>1, <1>i, <1>p DEF ShipCommit, HandlerOK, InvoicingOK
    <3>2. QED
      BY <3>1, <1>i DEF NumbersDense, NumbersUnique, OneInvoicePerOrder, Invoiced
  <2>2. CASE req[r].invoice # 0
    <3>1. /\ req[r].invoice = Cardinality(invoices) + 1 /\ ~Invoiced(p)
          /\ req[r].invoice \in Nat
      BY <2>2, <1>i, <1>p DEF HandlerOK, InvoicingOK, Request
    <3>2. PICK i \in SupplierInvoice :
             /\ invoices' = invoices \cup {i}
             /\ i.number = Cardinality(invoices) + 1 /\ i.po = p
      <4> DEFINE differing == Discrepancies(po[p].ordered, req[r].loaded)
                 i == [number |-> req[r].invoice, po |-> p, status |-> "pending_match",
                       discrepancies |-> differing]
      <4>1. differing \in SUBSET Skus
        BY DEF Discrepancies
      <4>2. invoices' = invoices \cup {i}
        BY <2>2, <1>p DEF ShipCommit
      <4> HIDE DEF differing
      <4>3. i \in SupplierInvoice
        BY <4>1, <3>1, <1>p DEF SupplierInvoice, InvoiceStatus
      <4>4. QED
        BY <4>2, <4>3, <3>1
    <3>3. /\ IsFiniteSet(invoices') /\ {x.number : x \in invoices'} = 1..Cardinality(invoices')
          /\ \A x \in invoices : x.number # i.number
      BY <3>2, <1>i, AddNumbered DEF NumbersDense
    <3>4. \A x \in invoices : x.po # p
      BY <3>1 DEF Invoiced
    <3>5. NumbersUnique' /\ \A x, y \in invoices' : x.po = y.po => x = y
      BY <3>2, <3>3, <3>4 DEF NumbersUnique, OneInvoicePerOrder
    <3>6. \A q : Invoiced(q)' <=> Invoiced(q) \/ q = p
      BY <3>2 DEF Invoiced
    <3>7. QED
      BY ZenonT(60), <3>2, <3>3, <3>5, <3>6, <1>i
  <2>3. QED
    BY <2>1, <2>2
<1>6. NumbersDense' /\ TablesFinite' /\ OneInvoicePerOrder'
  <2>1. {po'[x].number : x \in Placed'} = {po[x].number : x \in Placed}
    BY <1>2
  <2>2. NumbersDense'
    BY <1>2, <1>4, <1>5, <2>1 DEF NumbersDense
  <2>3. {x.po : x \in receipts'} = {x.po : x \in receipts} \cup {p}
    BY <1>3
  <2>4. OneInvoicePerOrder'
    BY <1>5, <2>3 DEF OneInvoicePerOrder
  <2>5. QED
    BY <1>4, <1>5, <2>2, <2>4 DEF TablesFinite
<1>7. ASSUME NEW q \in Requests, q # r PROVE HandlerOK(req[q])'
  <2>1. /\ req'[q] = req[q] /\ HandlerOK(req[q]) /\ Apart(req[q], req[r])
        /\ req[q] \in Request
    BY <1>7 DEF ShipCommit, Finish, TypeOK, SoleHolders
  <2>2. ~Holding(req[q])
    BY <2>1, <1>i DEF Apart, Holding
  <2>3. RefersOK(req[q])'
    BY <2>1, <1>2 DEF HandlerOK, RefersOK, Creating, Shipping, Holding
  <2>4. CountedOK(req[q])'
    BY <2>1, <2>2, <1>2, <1>4, <1>i DEF HandlerOK, CountedOK, Holding
  <2>5. InvoicingOK(req[q])'
    BY <2>1, <2>2 DEF HandlerOK, InvoicingOK, Holding
  <2>6. QED
    BY <2>3, <2>4, <2>5 DEF HandlerOK
<1>8. Finish(r, "done")
  BY DEF ShipCommit
<1>9. TypeOK'
  BY <1>2, <1>3, <1>5, <1>7, <1>8, <1>i, CommitKeepsOthers DEF TypeOK, ShipCommit
<1>10. QED
  BY <1>5, <1>6, <1>7, <1>8, <1>9, CommitKeepsOthers

LEMMA MatchCommitStep ==
    ASSUME ProcurementInv, NEW r \in Requests, MatchCommit(r)
    PROVE  ProcurementInv'
<1> USE DEF ProcurementInv
<1>i. /\ invoices \subseteq SupplierInvoice /\ IsFiniteSet(invoices)
      /\ HandlerOK(req[r]) /\ req[r].target \in InvoiceStatus
      /\ UNCHANGED <<supplier, po, receipts>>
  BY DEF TypeOK, TablesFinite, MatchCommit, HandlerOK, RefersOK
<1>1. PICK f \in [invoices -> SupplierInvoice] :
         /\ invoices' = {f[i] : i \in invoices}
         /\ \A i \in invoices : f[i].number = i.number /\ f[i].po = i.po
  <2> DEFINE found == Discrepancies(po[req[r].po].ordered, req[r].loaded)
             matched(i) == [i EXCEPT
                 !.status = IF req[r].target # req[r].seen THEN req[r].target ELSE @,
                 !.discrepancies = IF found # req[r].stored THEN found ELSE @]
             f == [i \in invoices |-> IF i.number = req[r].invoice THEN matched(i) ELSE i]
  <2>1. found \in SUBSET Skus
    BY DEF Discrepancies
  <2>2. invoices' = {IF i.number = req[r].invoice THEN matched(i) ELSE i : i \in invoices}
    BY DEF MatchCommit
  <2> HIDE DEF found
  <2>3. ASSUME NEW i \in invoices
        PROVE  /\ matched(i) \in SupplierInvoice
               /\ matched(i).number = i.number /\ matched(i).po = i.po
    BY <2>1, <1>i DEF SupplierInvoice
  <2> HIDE DEF matched
  <2>4. /\ f \in [invoices -> SupplierInvoice]
        /\ \A i \in invoices : f[i].number = i.number /\ f[i].po = i.po
    BY <2>3, <1>i
  <2>5. invoices' = {f[i] : i \in invoices}
    BY <2>2
  <2>6. QED
    BY <2>4, <2>5
<1>2. /\ IsFiniteSet(invoices') /\ Cardinality(invoices') = Cardinality(invoices)
      /\ {i.number : i \in invoices'} = {i.number : i \in invoices}
      /\ NumbersUnique' /\ invoices' \subseteq SupplierInvoice
  <2>1. PICK T : T = invoices'
    OBVIOUS
  <2>2. f \in [invoices -> T] /\ T = {f[i] : i \in invoices}
    BY <1>1, <2>1
  <2>3. \A i, j \in invoices : i.number = j.number => i = j
    BY DEF NumbersUnique
  <2>4. /\ IsFiniteSet(T) /\ Cardinality(T) = Cardinality(invoices)
        /\ {i.number : i \in T} = {i.number : i \in invoices}
        /\ \A i, j \in T : i.number = j.number => i = j
    BY <1>1, <1>i, <2>2, <2>3, RewriteNumbered
  <2>5. QED
    BY <2>1, <2>4, <1>1 DEF NumbersUnique
<1>3. /\ {i.po : i \in invoices'} = {i.po : i \in invoices}
      /\ \A i, j \in invoices' : i.po = j.po => i = j
      /\ \A q : Invoiced(q)' <=> Invoiced(q)
  BY <1>1 DEF OneInvoicePerOrder, Invoiced
<1>4. Placed' = Placed
  BY <1>i DEF Placed
<1>5. NumbersDense' /\ TablesFinite' /\ OneInvoicePerOrder'
  <2>1. {po'[x].number : x \in Placed'} = {po[x].number : x \in Placed}
    BY <1>4, <1>i
  <2>2. NumbersDense'
    BY <1>2, <1>4, <1>i, <2>1 DEF NumbersDense
  <2>3. QED
    BY <1>2, <1>3, <1>i, <2>2 DEF TablesFinite, OneInvoicePerOrder
<1>6. ASSUME NEW q \in Requests, q # r PROVE HandlerOK(req[q])'
  <2>1. req'[q] = req[q] /\ HandlerOK(req[q])
    BY <1>6 DEF MatchCommit, Finish, TypeOK
  <2>2. RefersOK(req[q])'
    BY <2>1, <1>4 DEF HandlerOK, RefersOK, Creating, Shipping, Holding
  <2>3. CountedOK(req[q])'
    BY <2>1, <1>4, <1>i DEF HandlerOK, CountedOK, Holding
  <2>4. InvoicingOK(req[q])'
    BY <2>1, <1>2, <1>3 DEF HandlerOK, InvoicingOK
  <2>5. QED
    BY <2>2, <2>3, <2>4 DEF HandlerOK
<1>7. Finish(r, "done")
  BY DEF MatchCommit
<1>8. TypeOK'
  BY <1>2, <1>6, <1>7, <1>i, CommitKeepsOthers DEF TypeOK
<1>9. QED
  BY <1>2, <1>5, <1>6, <1>7, <1>8, CommitKeepsOthers

-----------------------------------------------------------------------------
LEMMA ProcurementStep ==
    ASSUME ProcurementInv, NEW S \in SUBSET POStatus, [NextWith(S)]_vars
    PROVE  ProcurementInv'
<1>i. TypeOK /\ supplier \in [Suppliers -> {"absent", "active", "inactive"}]
  BY DEF ProcurementInv, TypeOK
<1>1. ASSUME NEW r \in Requests, StartWith(r, S) PROVE ProcurementInv'
  BY <1>1, StartStep
<1>2. ASSUME NEW r \in Requests, Continue(r) PROVE ProcurementInv'
  <2>1. CASE UpdateSupplierCommit(r)
    <3>1. req[r].target \in {"active", "inactive"}
      BY <1>2, <2>1 DEF ProcurementInv, HandlerOK, RefersOK, UpdateSupplierCommit
    <3>2. QED
      BY <2>1, <3>1, <1>i, StopQuietly DEF UpdateSupplierCommit
  <2>2. CASE DeleteSupplierCommit(r)
    BY <2>2, <1>i, StopQuietly DEF DeleteSupplierCommit
  <2>3. CASE CreatePOInsert(r) \/ ShipCount(r) \/ ShipInsert(r) \/ ShipFindInvoice(r)
                \/ ShipCountInvoices(r) \/ ShipInsertInvoice(r)
    BY <2>3, MiddleStep
  <2>4. CASE CreatePOCommit(r)
    BY <2>4, CreatePOCommitStep
  <2>5. CASE UpdatePOCommit(r)
    BY <2>5, UpdatePOCommitStep
  <2>6. CASE ShipCommit(r)
    BY <2>6, ShipCommitStep
  <2>7. CASE MatchCommit(r)
    BY <2>7, MatchCommitStep
  <2>8. CASE Collide(r)
    BY <2>8, <1>i, StopQuietly DEF Collide
  <2>9. QED
    BY <1>2, <2>1, <2>2, <2>3, <2>4, <2>5, <2>6, <2>7, <2>8 DEF Continue
<1>3. ASSUME NEW r \in Requests, Fail(r) PROVE ProcurementInv'
  BY <1>3, <1>i, StopQuietly DEF Fail
<1>4. ASSUME supplier' \in [Suppliers -> {"absent", "active", "inactive"}],
             UNCHANGED <<po, receipts, invoices, req>>
      PROVE ProcurementInv'
  <2>1. Placed' = Placed
    BY <1>4 DEF Placed
  <2>2. TypeOK'
    BY <1>4, <1>i DEF TypeOK
  <2>3. {po'[x].number : x \in Placed'} = {po[x].number : x \in Placed}
    BY <2>1, <1>4
  <2>4. (TablesFinite /\ NumbersDense /\ NumbersUnique /\ OneInvoicePerOrder /\ SoleHolders)'
    BY <2>1, <2>3, <1>4 DEF ProcurementInv, TablesFinite, NumbersDense, NumbersUnique,
                            OneInvoicePerOrder, SoleHolders
  <2>5. ASSUME NEW q \in Requests PROVE HandlerOK(req[q])'
    <3>1. req'[q] = req[q] /\ HandlerOK(req[q])
      BY <1>4 DEF ProcurementInv
    <3>2. RefersOK(req[q])'
      BY <3>1, <2>1 DEF HandlerOK, RefersOK, Creating, Shipping, Holding
    <3>3. CountedOK(req[q])'
      BY <3>1, <2>1, <1>4 DEF HandlerOK, CountedOK, Holding
    <3>4. InvoicingOK(req[q])'
      BY <3>1, <1>4 DEF HandlerOK, InvoicingOK, Invoiced
    <3>5. QED
      BY <3>2, <3>3, <3>4 DEF HandlerOK
  <2>6. QED
    BY <2>2, <2>4, <2>5 DEF ProcurementInv
<1>5. ASSUME NEW s \in Suppliers, CreateSupplier(s) PROVE ProcurementInv'
  BY <1>5, <1>4, <1>i DEF CreateSupplier
<1>6. CASE UNCHANGED vars
  BY <1>6, <1>4, <1>i DEF vars
<1>7. QED
  BY <1>1, <1>2, <1>3, <1>5, <1>6 DEF NextWith

(* What the further steps of a handler do, for the invariants that follow: the      *)
(* record it becomes, the row it writes, the receipt it adds.                        *)
SameErrand(h, g) ==
    /\ h.po = g.po /\ h.seen = g.seen /\ h.target = g.target /\ h.loaded = g.loaded
    /\ Shipping(h) <=> Shipping(g)
    /\ Creating(h) <=> Creating(g)
    /\ {h.stage, g.stage} \cap (Idle \cup {"patched"}) = {}

LEMMA MiddleEffect ==
    ASSUME TypeOK, TablesFinite, NEW r \in Requests,
           \/ CreatePOInsert(r) \/ ShipCount(r) \/ ShipInsert(r) \/ ShipFindInvoice(r)
           \/ ShipCountInvoices(r) \/ ShipInsertInvoice(r)
    PROVE  /\ UNCHANGED <<po, receipts>>
           /\ \E h \in Request : req' = [req EXCEPT ![r] = h] /\ SameErrand(h, req[r])
<1>i. /\ req \in [Requests -> Request] /\ req[r] \in Request
      /\ Cardinality(receipts) \in Nat /\ Cardinality(invoices) \in Nat
  BY FS_CardinalityType DEF TypeOK, TablesFinite
<1>1. ASSUME NEW s \in Stage, NEW n \in Nat, NEW m \in Nat,
             \/ s = "inserted_po" /\ Creating(req[r])
             \/ /\ s \in {"counted_receipt", "inserted_receipt", "invoicing",
                         "counted_invoice", "ready"}
                /\ Shipping(req[r])
      PROVE  LET h == [req[r] EXCEPT !.stage = s, !.number = n, !.invoice = m] IN
             h \in Request /\ SameErrand(h, req[r])
  <2>1. PICK g \in Request : g = req[r]
    BY <1>i
  <2>2. PICK h : h = [g EXCEPT !.stage = s, !.number = n, !.invoice = m]
    OBVIOUS
  <2>3. /\ h \in Request /\ h.stage = s /\ h.po = g.po /\ h.seen = g.seen
        /\ h.target = g.target /\ h.loaded = g.loaded
    BY <2>2 DEF Request
  <2>4. SameErrand(h, g)
    BY <1>1, <2>1, <2>3 DEF SameErrand, Shipping, Holding, Creating, Idle
  <2>5. QED
    BY <2>1, <2>2, <2>3, <2>4
<1>2. UNCHANGED <<po, receipts>>
  BY DEF CreatePOInsert, ShipCount, ShipInsert, ShipFindInvoice, ShipCountInvoices,
         ShipInsertInvoice
<1>3. \E s \in Stage, n \in Nat, m \in Nat :
         /\ req' = [req EXCEPT ![r] = [req[r] EXCEPT !.stage = s, !.number = n, !.invoice = m]]
         /\ \/ s = "inserted_po" /\ Creating(req[r])
            \/ /\ s \in {"counted_receipt", "inserted_receipt", "invoicing",
                        "counted_invoice", "ready"}
               /\ Shipping(req[r])
  <2>1. /\ req[r].number \in Nat /\ req[r].invoice \in Nat
        /\ Cardinality(receipts) + 1 \in Nat /\ Cardinality(invoices) + 1 \in Nat
        /\ {"inserted_po", "counted_receipt", "inserted_receipt", "invoicing",
            "counted_invoice", "ready"} \subseteq Stage
    BY <1>i DEF Request, Stage
  <2>2. ASSUME NEW s \in Stage, Advance(r, s)
        PROVE  req' = [req EXCEPT ![r] = [req[r] EXCEPT !.stage = s, !.number = req[r].number,
                                                        !.invoice = req[r].invoice]]
    BY <2>2, <1>i DEF Advance, Request
  <2>3. CASE CreatePOInsert(r)
    BY <2>1, <2>2, <2>3 DEF CreatePOInsert, Creating
  <2>4. CASE ShipCount(r)
    <3> DEFINE n == Cardinality(receipts) + 1
    <3>1. req' = [req EXCEPT ![r] = [req[r] EXCEPT !.stage = "counted_receipt", !.number = n]]
      BY <2>4, <1>i DEF ShipCount
    <3> HIDE DEF n
    <3>2. req' = [req EXCEPT ![r] = [req[r] EXCEPT !.stage = "counted_receipt", !.number = n,
                                                   !.invoice = req[r].invoice]]
      BY <3>1, <1>i DEF Request
    <3>3. QED
      BY <2>1, <2>4, <3>2 DEF n, ShipCount, Shipping
  <2>5. CASE ShipCountInvoices(r)
    <3> DEFINE n == Cardinality(invoices) + 1
    <3>1. req' = [req EXCEPT ![r] = [req[r] EXCEPT !.stage = "counted_invoice", !.invoice = n]]
      BY <2>5, <1>i DEF ShipCountInvoices
    <3> HIDE DEF n
    <3>2. req' = [req EXCEPT ![r] = [req[r] EXCEPT !.stage = "counted_invoice",
                                                   !.number = req[r].number, !.invoice = n]]
      BY <3>1, <1>i DEF Request
    <3>3. QED
      BY <2>1, <2>5, <3>2 DEF n, ShipCountInvoices, Shipping, Holding
  <2>6. CASE ShipInsert(r) \/ ShipInsertInvoice(r)
    BY <2>1, <2>2, <2>6 DEF ShipInsert, ShipInsertInvoice, Shipping, Holding
  <2>7. CASE ShipFindInvoice(r)
    BY <2>1, <2>2, <2>7 DEF ShipFindInvoice, Shipping, Holding
  <2>8. QED
    BY <2>3, <2>4, <2>5, <2>6, <2>7
<1>4. QED
  BY <1>1, <1>2, <1>3

LEMMA StopEffect ==
    ASSUME NEW r \in Requests, NEW final \in {"done", "failed"}, Finish(r, final)
    PROVE  \E h \in Request : req' = [req EXCEPT ![r] = h] /\ h.stage = final
<1>1. [NoRequest EXCEPT !.stage = final] \in Request
  BY NoRequestOK DEF Stage, Idle
<1>2. [NoRequest EXCEPT !.stage = final].stage = final
  BY DEF NoRequest
<1>3. QED
  BY <1>1, <1>2 DEF Finish

LEMMA CreateEffect ==
    ASSUME ProcurementInv, NEW r \in Requests, CreatePOCommit(r)
    PROVE  /\ Creating(req[r]) /\ Finish(r, "done") /\ UNCHANGED receipts
           /\ req[r].po \in PurchaseOrders \ Placed
           /\ \E row \in PurchaseOrder : /\ po' = [po EXCEPT ![req[r].po] = row]
                                         /\ row.status = req[r].target
<1> DEFINE row == [status |-> req[r].target, number |-> req[r].number,
                   supplier |-> req[r].supplier, ordered |-> req[r].ordered]
<1>1. HandlerOK(req[r]) /\ req[r] \in Request /\ Creating(req[r])
  BY DEF ProcurementInv, TypeOK, CreatePOCommit, Creating
<1>2. req[r].po \in PurchaseOrders \ Placed /\ req[r].target \in POStatus
  BY <1>1 DEF HandlerOK, RefersOK
<1>3. row \in PurchaseOrder
  BY <1>1, <1>2 DEF Request, PurchaseOrder
<1>4. QED
  BY <1>1, <1>2, <1>3 DEF CreatePOCommit

LEMMA UpdateEffect ==
    ASSUME ProcurementInv, NEW r \in Requests, UpdatePOCommit(r)
    PROVE  /\ req[r].stage = "patched" /\ Finish(r, "done") /\ UNCHANGED receipts
           /\ req[r].po \in Placed /\ req[r].po \in PurchaseOrders
           /\ \E row \in PurchaseOrder :
                  /\ po' = [po EXCEPT ![req[r].po] = row]
                  /\ row.ordered = po[req[r].po].ordered
                  /\ row.status = IF req[r].target # req[r].seen THEN req[r].target
                                  ELSE po[req[r].po].status
<1> DEFINE p == req[r].po
           row == [po[p] EXCEPT !.status = IF req[r].target # req[r].seen
                                           THEN req[r].target ELSE @]
<1>1. /\ p \in Placed /\ p \in PurchaseOrders /\ req[r].target \in POStatus
      /\ po[p] \in PurchaseOrder /\ po \in [PurchaseOrders -> PurchaseOrder]
  BY DEF ProcurementInv, TypeOK, HandlerOK, RefersOK, UpdatePOCommit, Placed
<1>2. po' = [po EXCEPT ![p] = row]
  BY <1>1 DEF UpdatePOCommit
<1> HIDE DEF p
<1>3. /\ row \in PurchaseOrder /\ row.ordered = po[p].ordered
      /\ row.status = IF req[r].target # req[r].seen THEN req[r].target ELSE po[p].status
  BY <1>1 DEF PurchaseOrder
<1>4. QED
  BY <1>1, <1>2, <1>3 DEF UpdatePOCommit, p

LEMMA ShipEffect ==
    ASSUME ProcurementInv, NEW r \in Requests, ShipCommit(r)
    PROVE  LET p == req[r].po
               status == StatusAfter(req[r].seen, req[r].loaded, po[p].ordered) IN
           /\ Shipping(req[r]) /\ Finish(r, "done")
           /\ p \in Placed /\ p \in PurchaseOrders
           /\ \E row \in PurchaseOrder :
                  /\ po' = [po EXCEPT ![p] = row]
                  /\ row.ordered = po[p].ordered
                  /\ row.status = IF status # req[r].seen THEN status ELSE po[p].status
           /\ \E g : /\ receipts' = receipts \cup {g} /\ g.po = p /\ g \notin receipts
                     /\ Cardinality(receipts') = Cardinality(receipts) + 1
<1> DEFINE p == req[r].po
           status == StatusAfter(req[r].seen, req[r].loaded, po[p].ordered)
           row == [po[p] EXCEPT !.status = IF status # req[r].seen THEN status ELSE @]
<1>1. /\ p \in Placed /\ p \in PurchaseOrders /\ req[r].seen \in POStatus
      /\ po[p] \in PurchaseOrder /\ po \in [PurchaseOrders -> PurchaseOrder]
      /\ Shipping(req[r]) /\ Finish(r, "done")
      /\ req[r].number = Cardinality(receipts) + 1
  BY DEF ProcurementInv, TypeOK, HandlerOK, RefersOK, CountedOK, ShipCommit, Placed, Shipping,
         Holding
<1>2. po' = [po EXCEPT ![p] = row]
  BY <1>1 DEF ShipCommit
<1>3. status \in POStatus
  BY <1>1 DEF StatusAfter, POStatus
<1> HIDE DEF p, status
<1>4. /\ row \in PurchaseOrder /\ row.ordered = po[p].ordered
      /\ row.status = IF status # req[r].seen THEN status ELSE po[p].status
  BY <1>1, <1>3 DEF PurchaseOrder
<1>5. /\ Receipt(r).po = p /\ Receipt(r).number = Cardinality(receipts) + 1
      /\ receipts' = receipts \cup {Receipt(r)}
  BY <1>1 DEF Receipt, ShipCommit, p
<1>6. /\ IsFiniteSet(receipts) /\ {x.number : x \in receipts} = 1..Cardinality(receipts)
  BY DEF ProcurementInv, TablesFinite, NumbersDense
<1>7. PICK g : g = Receipt(r)
  OBVIOUS
<1>8. /\ Cardinality(receipts \cup {g}) = Cardinality(receipts) + 1
      /\ \A x \in receipts : x.number # g.number
  BY <1>5, <1>6, <1>7, AddNumbered
<1>9. g \notin receipts
  BY <1>8
<1>10. QED
  BY <1>1, <1>2, <1>4, <1>5, <1>7, <1>8, <1>9 DEF p, status

(* Whether the clients ship or the simulator does, each step is one of Procurement  *)
(* for all statuses that clients and simulator set.                                  *)
Set == Patches \cup {"acknowledged"}

LEMMA StatusesSet == Patches \in SUBSET POStatus /\ Set \in SUBSET POStatus
BY ProcurementAssumption DEF Set, POStatus

LEMMA NextIsNextWith == [Next]_vars => [NextWith(Patches)]_vars
<1> SUFFICES ASSUME Next PROVE NextWith(Patches)
  OBVIOUS
<1>1. ASSUME NEW r \in Requests, Start(r) PROVE StartWith(r, Patches)
  <2>1. ASSUME NEW p \in PurchaseOrders, NEW s \in Suppliers, NEW ordered \in Orderings,
               NEW status \in {"draft", "submitted"}, CreatePOCount(r, p, s, ordered, status)
        PROVE  StartWith(r, Patches)
    BY <2>1, ProcurementAssumption DEF StartWith
  <2>2. ASSUME NEW p \in PurchaseOrders, NEW parcel \in Shipments, ShipLoad(r, p, parcel)
        PROVE  StartWith(r, Patches)
    BY <2>2, ProcurementAssumption DEF StartWith
  <2>3. QED
    BY <1>1, <2>1, <2>2 DEF Start, StartWith
<1>2. QED
  BY <1>1 DEF Next, NextWith

LEMMA ParcelsAreShipments ==
    ASSUME TypeOK, NEW p \in PurchaseOrders PROVE Parcels(p) \subseteq Shipment
<1>1. ASSUME NEW s \in Parcels(p), NEW k \in Skus PROVE s[k] \in Item
  <2>1. PICK lines \in Seq(Nat \ {0}) : lines = po[p].ordered[k]
    BY DEF TypeOK, PurchaseOrder, Ordering
  <2>2. s[k] \in Parts(lines)
    BY <2>1 DEF Parcels
  <2>3. CASE lines = << >>
    BY <2>2, <2>3 DEF Parts, Unsaid, Item
  <2>4. CASE lines # << >>
    <3>1. PICK n \in Nat : n = lines[Len(lines)]
      BY <2>4
    <3>2. PICK part \in ((95 * n) \div 100)..n :
             s[k] = [as |-> "shipped", n |-> IF part < 1 THEN 1 ELSE part]
      BY <2>2, <2>4, <3>1 DEF Parts
    <3>3. part \in Int
      OBVIOUS
    <3>4. QED
      BY <3>2, <3>3 DEF Item
  <2>5. QED
    BY <2>3, <2>4
<1>2. QED
  BY <1>1 DEF Parcels, Shipment

LEMMA ChainIsNextWith ==
    ASSUME TypeOK, [ChainNext]_chainVars
    PROVE  [NextWith(Set)]_vars
<1>1. CASE UNCHANGED chainVars
  BY <1>1 DEF chainVars
<1>2. CASE Next
  <2>1. ASSUME NEW r \in Requests, StartWith(r, Patches) PROVE StartWith(r, Set)
    BY <2>1 DEF StartWith, Set
  <2>2. NextWith(Patches) => NextWith(Set)
    BY <2>1 DEF NextWith
  <2>3. QED
    BY <1>2, <2>2, NextIsNextWith
<1>3. CASE Simulate
  <2>1. ASSUME NEW r \in Requests, NEW p \in PurchaseOrders, Acknowledge(r, p)
        PROVE  NextWith(Set)
    BY <2>1 DEF Acknowledge, NextWith, StartWith, Set
  <2>2. ASSUME NEW r \in Requests, NEW parcel \in Parcels(round.po), Ship(r, parcel)
        PROVE  NextWith(Set)
    <3>1. round.po \in PurchaseOrders /\ parcel \in Shipment /\ ShipLoad(r, round.po, parcel)
      BY <2>2, ParcelsAreShipments DEF Ship, ShipLoad, Placed
    <3>2. QED
      BY <3>1 DEF NextWith, StartWith
  <2>3. CASE Poll \/ RoundOver \/ Acknowledged \/ PassOver \/ Shipped \/ HttpError
    BY <2>3 DEF Poll, RoundOver, Acknowledged, PassOver, Shipped, HttpError
  <2>4. QED
    BY <1>3, <2>1, <2>2, <2>3 DEF Simulate
<1>4. ASSUME NEW r \in Requests, ClientStart(r) PROVE NextWith(Set)
  <2>1. ASSUME NEW p \in PurchaseOrders, NEW s \in Suppliers, NEW ordered \in Orderings,
               NEW status \in {"draft", "submitted"}, CreatePOCount(r, p, s, ordered, status)
        PROVE  StartWith(r, Set)
    BY <2>1, ProcurementAssumption DEF StartWith
  <2>2. ASSUME NEW p \in PurchaseOrders, NEW status \in Patches, UpdatePORead(r, p, status)
        PROVE  StartWith(r, Set)
    BY <2>2 DEF StartWith, Set
  <2>3. QED
    BY <1>4, <2>1, <2>2 DEF ClientStart, NextWith
<1>5. ASSUME NEW r \in Requests, Continue(r) \/ Fail(r) PROVE NextWith(Set)
  BY <1>5 DEF NextWith
<1>6. ASSUME NEW s \in Suppliers, CreateSupplier(s) PROVE NextWith(Set)
  BY <1>6 DEF NextWith
<1>7. QED
  BY <1>1, <1>2, <1>3, <1>4, <1>5, <1>6 DEF ChainNext

LEMMA ChainStep == ProcurementInv /\ [ChainNext]_chainVars => ProcurementInv'
<1>1. ProcurementInv => TypeOK
  BY DEF ProcurementInv
<1>2. QED
  BY <1>1, ChainIsNextWith, ProcurementStep, StatusesSet

LEMMA ChainInvariant == ChainSpec => []ProcurementInv
<1>1. ChainInit => ProcurementInv
  BY ProcurementInit DEF ChainInit
<1>2. QED
  BY <1>1, ChainStep, PTL DEF ChainSpec

LEMMA ProcurementInvariant == Spec => []ProcurementInv
<1>1. ProcurementInv /\ [Next]_vars => ProcurementInv'
  BY ProcurementStep, NextIsNextWith, StatusesSet
<1>2. QED
  BY <1>1, ProcurementInit, PTL DEF Spec

(* Every row and every handler has its type in every reachable state, whatever  *)
(* the interleaving of the procurement requests.                                 *)
THEOREM ProcurementTypeCorrect == Spec => []TypeOK
<1>1. ProcurementInv => TypeOK
  BY DEF ProcurementInv
<1>2. QED
  BY <1>1, ProcurementInvariant, PTL

(* The numbers that create_purchase_order, create_goods_receipt and              *)
(* create_supplier_invoice_for_po compute from a row count stay dense, however    *)
(* requests overlap, collide and die.                                             *)
THEOREM NumbersStayDense == Spec => []NumbersDense
<1>1. ProcurementInv => NumbersDense
  BY DEF ProcurementInv
<1>2. QED
  BY <1>1, ProcurementInvariant, PTL

(* ship_po gives an order its invoice with its first receipt and never a second    *)
(* one, however shipments overlap, collide and die.                                *)
THEOREM InvoicedExactlyOnce == Spec => []OneInvoicePerOrder
<1>1. ProcurementInv => OneInvoicePerOrder
  BY DEF ProcurementInv
<1>2. QED
  BY <1>1, ProcurementInvariant, PTL

-----------------------------------------------------------------------------
(* Orders are not shown as received before they are.                                *)
(*                                                                                  *)
(* StatusAfter is computed from the receipts that a shipment loaded, which may be    *)
(* fewer than are there when it commits: those are still there then, and nothing but  *)
(* a shipment sets these statuses.  If none has a negative quantity the sums of the    *)
(* receipts only grow, so all of them together cover what some of them do.             *)

(* Of receipts without a negative quantity, more are never less received.           *)
LEMMA ReceivedGrows ==
    ASSUME NEW more \in SUBSET GoodsReceipt, IsFiniteSet(more), NEW some \in SUBSET more,
           NEW k \in Skus, \A g \in more : g.received[k] >= 0
    PROVE  Received(some)[k] \in Nat /\ Received(more)[k] \in Nat
           /\ Received(some)[k] <= Received(more)[k]
<1> DEFINE f == [g \in more |-> g.received[k]]
           e == [g \in some |-> g.received[k]]
<1>1. \A g \in more : f[g] \in Nat
  BY DEF GoodsReceipt, Quantity
<1>2. IsFiniteSet(some) /\ \A g \in some : e[g] = f[g]
  BY FS_Subset
<1>3. Received(more)[k] = SumFunctionOnSet(f, more) /\ Received(some)[k] = SumFunctionOnSet(e, some)
  BY DEF Received
<1> HIDE DEF f, e
<1>4. SumFunctionOnSet(e, some) = SumFunctionOnSet(f, some)
  BY <1>2, SumOfEqualTerms
<1>5. /\ SumFunctionOnSet(f, some) \in Nat /\ SumFunctionOnSet(f, more) \in Nat
      /\ SumFunctionOnSet(f, some) <= SumFunctionOnSet(f, more)
  BY <1>1, SumOfSubset, SumIsNat
<1>6. QED
  BY <1>3, <1>4, <1>5

Reception == {"received", "partially_received"}

(* No handler is about to set these statuses itself, and what a shipment loaded is   *)
(* still there.                                                                       *)
Intends(h) ==
    /\ Creating(h) \/ h.stage = "patched" => h.target \notin Reception
    /\ Shipping(h) => h.loaded \subseteq ReceiptsOf(h.po)

Covered(p) ==
    /\ po[p].status = "received" =>
           \E some \in SUBSET ReceiptsOf(p) : Covers(some, po[p].ordered)
    /\ po[p].status = "partially_received" =>
           \E some \in SUBSET ReceiptsOf(p), k \in Skus : Received(some)[k] > 0

CoverInv ==
    /\ ProcurementInv
    /\ \A p \in PurchaseOrders : Covered(p)
    /\ \A r \in Requests : Intends(req[r])

LEMMA CoverInit == Init => CoverInv
<1> SUFFICES ASSUME Init PROVE /\ \A p \in PurchaseOrders : Covered(p)
                              /\ \A r \in Requests : Intends(req[r])
  BY ProcurementInit DEF CoverInv
<1>1. \A p \in PurchaseOrders : po[p].status = "absent"
  BY DEF Init, NoOrder
<1>2. \A r \in Requests : req[r].stage = "new"
  BY DEF Init, NoRequest
<1>3. QED
  BY <1>1, <1>2 DEF Covered, Intends, Creating, Shipping, Holding

(* What is covered stays so while the receipts grow.                                  *)
LEMMA CoveredKept ==
    ASSUME receipts \subseteq receipts',
           NEW p \in PurchaseOrders, Covered(p), po'[p].ordered = po[p].ordered,
           \/ po'[p].status = po[p].status
           \/ po'[p].status \notin Reception
           \/ /\ po'[p].status = "received"
              /\ \E some \in SUBSET ReceiptsOf(p) : Covers(some, po[p].ordered)
           \/ /\ po'[p].status = "partially_received"
              /\ \E some \in SUBSET ReceiptsOf(p), k \in Skus : Received(some)[k] > 0
    PROVE  Covered(p)'
<1>1. SUBSET ReceiptsOf(p) \subseteq SUBSET ReceiptsOf(p)'
  BY DEF ReceiptsOf
<1>2. CASE po'[p].status = "received"
  <2>1. PICK some \in SUBSET ReceiptsOf(p) : Covers(some, po[p].ordered)
    BY <1>2 DEF Covered, Reception
  <2>2. some \in SUBSET ReceiptsOf(p)' /\ Covers(some, po'[p].ordered)
    BY <1>1, <2>1
  <2>3. QED
    BY <1>2, <2>2 DEF Covered
<1>3. CASE po'[p].status = "partially_received"
  <2>1. PICK some \in SUBSET ReceiptsOf(p), k \in Skus : Received(some)[k] > 0
    BY <1>3 DEF Covered, Reception
  <2>2. some \in SUBSET ReceiptsOf(p)'
    BY <1>1
  <2>3. QED
    BY <1>3, <2>1, <2>2 DEF Covered
<1>4. QED
  BY <1>2, <1>3 DEF Covered

(* A request that moves to h, while the receipts grow.                                *)
LEMMA IntendsKept ==
    ASSUME CoverInv, NEW r \in Requests, NEW h, req' = [req EXCEPT ![r] = h],
           receipts \subseteq receipts',
           \/ h.stage \in Idle \cup {"updating", "deleting", "matching"}
           \/ SameErrand(h, req[r])
           \/ h.stage \in {"counted_po", "patched"} /\ h.target \notin Reception
           \/ h.stage = "loaded" /\ h.loaded = ReceiptsOf(h.po)
    PROVE  (\A q \in Requests : Intends(req[q]))'
<1>1. req'[r] = h /\ \A q \in Requests : q # r => req'[q] = req[q]
  BY DEF CoverInv, ProcurementInv, TypeOK
<1>2. \A p : ReceiptsOf(p) \subseteq ReceiptsOf(p)'
  BY DEF ReceiptsOf
<1>3. \A q \in Requests : Intends(req[q])
  BY DEF CoverInv
<1>4. Intends(req[r])'
  <2>1. CASE SameErrand(h, req[r])
    BY <2>1, <1>1, <1>2, <1>3 DEF Intends, SameErrand
  <2>2. CASE ~SameErrand(h, req[r])
    BY <2>2, <1>1, <1>2 DEF Intends, Creating, Shipping, Holding, Idle
  <2>3. QED
    BY <2>1, <2>2
<1>5. ASSUME NEW q \in Requests, q # r PROVE Intends(req[q])'
  BY <1>5, <1>1, <1>2, <1>3 DEF Intends
<1>6. QED
  BY <1>4, <1>5

(* A step that leaves orders and receipts alone.                                       *)
LEMMA CoverQuietly ==
    ASSUME CoverInv, ProcurementInv', UNCHANGED <<po, receipts>>,
           (\A q \in Requests : Intends(req[q]))'
    PROVE  CoverInv'
BY DEF CoverInv, Covered, ReceiptsOf

LEMMA CoverStarts ==
    ASSUME CoverInv, ProcurementInv', NEW r \in Requests, NEW S \in SUBSET POStatus,
           S \cap Reception = {}, StartWith(r, S)
    PROVE  CoverInv'
<1>i. TypeOK
  BY DEF CoverInv, ProcurementInv
<1>1. ASSUME NEW h \in Request, req' = [req EXCEPT ![r] = h], UNCHANGED <<po, receipts>>,
             \/ h.stage \in {"updating", "deleting", "matching"}
             \/ h.stage \in {"counted_po", "patched"} /\ h.target \notin Reception
             \/ h.stage = "loaded" /\ h.loaded = ReceiptsOf(h.po)
      PROVE  CoverInv'
  BY <1>1, IntendsKept, CoverQuietly
<1>2. ASSUME NEW s \in Suppliers, NEW activity \in {"active", "inactive"},
             UpdateSupplierRead(r, s, activity)
      PROVE  CoverInv'
  <2> DEFINE h == [NoRequest EXCEPT !.stage = "updating", !.supplier = s, !.target = activity]
  <2>1. h \in Request /\ h.stage = "updating"
    BY ZenonT(60), NoRequestOK DEF Request, Stage
  <2>2. req' = [req EXCEPT ![r] = h] /\ UNCHANGED <<po, receipts>>
    BY <1>2 DEF UpdateSupplierRead
  <2>3. QED
    BY <1>1, <2>1, <2>2
<1>3. ASSUME NEW s \in Suppliers, DeleteSupplierCheck(r, s) PROVE CoverInv'
  <2> DEFINE h == [NoRequest EXCEPT !.stage = "deleting", !.supplier = s]
  <2>1. h \in Request /\ h.stage = "deleting"
    BY NoRequestOK DEF Request, Stage
  <2>2. req' = [req EXCEPT ![r] = h] /\ UNCHANGED <<po, receipts>>
    BY <1>3 DEF DeleteSupplierCheck
  <2>3. QED
    BY <1>1, <2>1, <2>2
<1>4. ASSUME NEW p \in PurchaseOrders, NEW s \in Suppliers, NEW ordered \in Ordering,
             NEW status \in {"draft", "submitted"}, CreatePOCount(r, p, s, ordered, status)
      PROVE  CoverInv'
  <2>1. PICK h \in Request : req' = [req EXCEPT ![r] = h] /\ h.stage = "counted_po"
                             /\ h.target = status
    BY <1>i, <1>4, CountEffect
  <2>2. QED
    BY <1>1, <1>4, <2>1 DEF CreatePOCount, Reception
<1>5. ASSUME NEW p \in PurchaseOrders, NEW status \in S, UpdatePORead(r, p, status)
      PROVE  CoverInv'
  <2>1. PICK h \in Request : req' = [req EXCEPT ![r] = h] /\ h.stage = "patched"
                             /\ h.target = status
    BY <1>i, <1>5, PatchEffect
  <2>2. QED
    BY <1>1, <1>5, <2>1 DEF UpdatePORead
<1>6. ASSUME NEW p \in PurchaseOrders, NEW parcel \in Shipment, ShipLoad(r, p, parcel)
      PROVE  CoverInv'
  <2>1. PICK h \in Request : req' = [req EXCEPT ![r] = h] /\ h.stage = "loaded" /\ h.po = p
                             /\ h.loaded = ReceiptsOf(p)
    BY <1>i, <1>6, LoadEffect
  <2>2. QED
    BY <1>1, <1>6, <2>1 DEF ShipLoad
<1>7. ASSUME NEW i \in invoices, NEW status \in InvoiceStatus, MatchRead(r, i, status)
      PROVE  CoverInv'
  <2>1. PICK h : req' = [req EXCEPT ![r] = h] /\ h.stage = "matching"
    <3>1. PICK h : h = [NoRequest EXCEPT !.stage = "matching", !.po = i.po, !.seen = i.status,
                                         !.target = status, !.invoice = i.number,
                                         !.loaded = ReceiptsOf(i.po),
                                         !.stored = i.discrepancies]
      OBVIOUS
    <3>2. h.stage = "matching"
      BY <3>1 DEF NoRequest
    <3>3. QED
      BY <1>7, <3>1, <3>2 DEF MatchRead
  <2>2. QED
    BY <1>7, <2>1, IntendsKept, CoverQuietly DEF MatchRead
<1>8. QED
  BY <1>2, <1>3, <1>4, <1>5, <1>6, <1>7 DEF StartWith

LEMMA CoverContinues ==
    ASSUME CoverInv, ProcurementInv', NEW r \in Requests, Continue(r) \/ Fail(r)
    PROVE  CoverInv'
<1>i. /\ ProcurementInv /\ TypeOK /\ TypeOK' /\ TablesFinite /\ TablesFinite'
      /\ \A p \in PurchaseOrders : Covered(p)
      /\ po \in [PurchaseOrders -> PurchaseOrder] /\ Intends(req[r])
  BY DEF CoverInv, ProcurementInv, TypeOK
<1>1. ASSUME NEW final \in {"done", "failed"}, Finish(r, final), receipts \subseteq receipts',
             \A p \in PurchaseOrders : Covered(p)'
      PROVE  CoverInv'
  <2>1. PICK h \in Request : req' = [req EXCEPT ![r] = h] /\ h.stage = final
    BY <1>1, StopEffect
  <2>2. (\A q \in Requests : Intends(req[q]))'
    BY <1>1, <2>1, IntendsKept DEF Idle
  <2>3. QED
    BY <1>1, <2>2 DEF CoverInv
<1>2. ASSUME UNCHANGED <<po, receipts>> PROVE \A p \in PurchaseOrders : Covered(p)'
  BY <1>2, <1>i DEF Covered, ReceiptsOf
<1>3. CASE UpdateSupplierCommit(r) \/ DeleteSupplierCommit(r) \/ MatchCommit(r)
  BY <1>1, <1>2, <1>3 DEF UpdateSupplierCommit, DeleteSupplierCommit, MatchCommit
<1>4. CASE Collide(r) \/ Fail(r)
  BY <1>1, <1>2, <1>4 DEF Collide, Fail
<1>5. CASE CreatePOInsert(r) \/ ShipCount(r) \/ ShipInsert(r) \/ ShipFindInvoice(r)
              \/ ShipCountInvoices(r) \/ ShipInsertInvoice(r)
  <2>1. /\ UNCHANGED <<po, receipts>>
        /\ \E h \in Request : req' = [req EXCEPT ![r] = h] /\ SameErrand(h, req[r])
    BY <1>5, <1>i, MiddleEffect
  <2>2. (\A q \in Requests : Intends(req[q]))'
    BY <2>1, IntendsKept
  <2>3. QED
    BY <2>1, <2>2, CoverQuietly
<1>6. CASE CreatePOCommit(r)
  <2>1. PICK p \in PurchaseOrders, row \in PurchaseOrder :
           /\ po' = [po EXCEPT ![p] = row] /\ row.status = req[r].target
           /\ Creating(req[r]) /\ Finish(r, "done") /\ UNCHANGED receipts
    BY <1>i, <1>6, CreateEffect
  <2>2. row.status \notin Reception
    BY <2>1, <1>i DEF Intends
  <2>3. ASSUME NEW x \in PurchaseOrders PROVE Covered(x)'
    <3>1. po'[x] = IF x = p THEN row ELSE po[x]
      BY <2>1, <1>i
    <3>2. QED
      BY <2>1, <2>2, <3>1, <1>i DEF Covered, Reception, ReceiptsOf
  <2>4. QED
    BY <1>1, <2>1, <2>3
<1>7. CASE UpdatePOCommit(r)
  <2>1. PICK p \in PurchaseOrders, row \in PurchaseOrder :
           /\ po' = [po EXCEPT ![p] = row] /\ row.ordered = po[p].ordered
           /\ row.status = req[r].target \/ row.status = po[p].status
           /\ req[r].stage = "patched" /\ Finish(r, "done") /\ UNCHANGED receipts
    BY <1>i, <1>7, UpdateEffect
  <2>2. row.status \notin Reception \/ row.status = po[p].status
    BY <2>1, <1>i DEF Intends
  <2>3. ASSUME NEW x \in PurchaseOrders PROVE Covered(x)'
    <3>1. po'[x] = IF x = p THEN row ELSE po[x]
      BY <2>1, <1>i
    <3>2. QED
      BY <2>1, <2>2, <3>1, <1>i, CoveredKept
  <2>4. QED
    BY <1>1, <2>1, <2>3
<1>8. CASE ShipCommit(r)
  <2> DEFINE seen == req[r].seen
             loaded == req[r].loaded
  <2>1. PICK p \in PurchaseOrders, row \in PurchaseOrder, g \in receipts' :
           /\ p = req[r].po /\ po' = [po EXCEPT ![p] = row] /\ row.ordered = po[p].ordered
           /\ \/ row.status = po[p].status
              \/ /\ row.status = StatusAfter(seen, loaded, po[p].ordered)
                 /\ row.status # seen
           /\ receipts' = receipts \cup {g} /\ g.po = p
           /\ Shipping(req[r]) /\ Finish(r, "done")
    BY <1>i, <1>8, ShipEffect
  <2>2. loaded \in SUBSET ReceiptsOf(p)
    BY <2>1, <1>i DEF Intends
  <2> HIDE DEF seen, loaded
  <2>3. \/ row.status = po[p].status
        \/ row.status = "received" /\ Covers(loaded, po[p].ordered)
        \/ row.status = "partially_received" /\ \E k \in Skus : Received(loaded)[k] > 0
    BY <2>1 DEF StatusAfter
  <2>4. ASSUME NEW x \in PurchaseOrders PROVE Covered(x)'
    <3>1. po'[x] = IF x = p THEN row ELSE po[x]
      BY <2>1, <1>i
    <3>2. CASE x = p
      BY <2>1, <2>2, <2>3, <3>1, <3>2, <1>i, CoveredKept
    <3>3. CASE x # p
      BY <2>1, <3>1, <3>3, <1>i, CoveredKept
    <3>4. QED
      BY <3>2, <3>3
  <2>5. QED
    BY <1>1, <2>1, <2>4
<1>9. QED
  BY <1>3, <1>4, <1>5, <1>6, <1>7, <1>8 DEF Continue

LEMMA CoverStep ==
    ASSUME CoverInv, NEW S \in SUBSET POStatus, S \cap Reception = {}, [NextWith(S)]_vars
    PROVE  CoverInv'
<1>1. ProcurementInv'
  BY ProcurementStep DEF CoverInv
<1>2. CASE UNCHANGED <<po, receipts, req>>
  <2>1. (\A q \in Requests : Intends(req[q]))'
    BY <1>2 DEF CoverInv, Intends, ReceiptsOf
  <2>2. QED
    BY <1>1, <1>2, <2>1, CoverQuietly
<1>3. ASSUME NEW r \in Requests, StartWith(r, S) PROVE CoverInv'
  BY <1>1, <1>3, CoverStarts
<1>4. ASSUME NEW r \in Requests, Continue(r) \/ Fail(r) PROVE CoverInv'
  BY <1>1, <1>4, CoverContinues
<1>5. QED
  BY <1>2, <1>3, <1>4 DEF NextWith, CreateSupplier, vars

LEMMA CoverIsCovered == CoverInv => ReceivedIsCovered
<1> SUFFICES ASSUME CoverInv, NEW p \in PurchaseOrders, po[p].status = "received",
                    \A g \in ReceiptsOf(p), k \in Skus : g.received[k] >= 0
             PROVE  Covers(ReceiptsOf(p), po[p].ordered)
  BY DEF ReceivedIsCovered, CoverInv, Covered
<1>1. PICK some \in SUBSET ReceiptsOf(p) : Covers(some, po[p].ordered)
  BY DEF CoverInv, Covered
<1>2. /\ ReceiptsOf(p) \in SUBSET GoodsReceipt /\ IsFiniteSet(ReceiptsOf(p))
      /\ po[p].ordered \in Ordering
  BY FS_Subset DEF CoverInv, ProcurementInv, TypeOK, TablesFinite, ReceiptsOf, PurchaseOrder
<1>3. ASSUME NEW k \in Skus, NEW i \in DOMAIN po[p].ordered[k]
      PROVE  Received(ReceiptsOf(p))[k] >= po[p].ordered[k][i]
  <2>1. /\ Received(some)[k] \in Nat /\ Received(ReceiptsOf(p))[k] \in Nat
        /\ Received(some)[k] <= Received(ReceiptsOf(p))[k]
    BY <1>2, ReceivedGrows
  <2>2. po[p].ordered[k][i] \in Nat
    BY <1>2 DEF Ordering
  <2>3. Received(some)[k] >= po[p].ordered[k][i]
    BY <1>1 DEF Covers
  <2>4. QED
    BY <2>1, <2>2, <2>3
<1>4. QED
  BY <1>3 DEF Covers

(* update_po_receipt_status shows an order as received only when some of its         *)
(* committed receipts cover every line - all of them, unless one has a negative       *)
(* quantity - although each shipment adds up the receipts that it loaded before the    *)
(* others committed.                                                                   *)
THEOREM ReceivedWhenCovered == Spec => []ReceivedIsCovered
<1>1. ASSUME Patches \cap Reception = {} PROVE Spec => []ReceivedIsCovered
  <2>1. CoverInv /\ [Next]_vars => CoverInv'
    BY <1>1, CoverStep, NextIsNextWith, StatusesSet
  <2>2. QED
    BY <2>1, CoverInit, CoverIsCovered, PTL DEF Spec
<1>2. ASSUME Patches \cap Reception # {} PROVE Spec => []ReceivedIsCovered
  <2>1. ReceivedIsCovered
    BY <1>2 DEF ReceivedIsCovered, Reception
  <2>2. QED
    BY <2>1, PTL
<1>3. QED
  BY <1>1, <1>2

(* The same while the supplier simulator acknowledges and ships the orders.           *)
THEOREM SimulatedReceivedWhenCovered == ChainSpec => []ReceivedIsCovered
<1>1. ASSUME Patches \cap Reception = {} PROVE ChainSpec => []ReceivedIsCovered
  <2>1. Set \cap Reception = {}
    BY <1>1 DEF Set, Reception
  <2>2. CoverInv => TypeOK
    BY DEF CoverInv, ProcurementInv
  <2>3. CoverInv /\ [ChainNext]_chainVars => CoverInv'
    BY <2>1, <2>2, CoverStep, ChainIsNextWith, StatusesSet
  <2>4. ChainInit => CoverInv
    BY CoverInit DEF ChainInit
  <2>5. QED
    BY <2>3, <2>4, CoverIsCovered, PTL DEF ChainSpec
<1>2. ASSUME Patches \cap Reception # {} PROVE ChainSpec => []ReceivedIsCovered
  <2>1. ReceivedIsCovered
    BY <1>2 DEF ReceivedIsCovered, Reception
  <2>2. QED
    BY <2>1, PTL
<1>3. QED
  BY <1>1, <1>2

-----------------------------------------------------------------------------
(* The supplier simulator keeps its promises.                                        *)
(*                                                                                   *)
(* An order that is submitted is fresh: nobody ships it.  The simulator ships only    *)
(* what it acknowledged, and its PATCH took the order out of "submitted" for good,     *)
(* provided that no client submits it again; so it never ships one twice, and every    *)
(* answer that it counts stands for a receipt.                                          *)

(* A shipment of order p; an order of which none was begun and nothing received.      *)
ShipmentOf(h, p) == Shipping(h) /\ h.po = p

Fresh(p) == ReceiptsOf(p) = {} /\ \A q \in Requests : ~ShipmentOf(req[q], p)

Awaited == IF round.stage \in {"acknowledging", "shipping"} THEN 1 ELSE 0

Delivered ==
    IF round.stage = "shipping" /\ req[round.request].stage = "done" THEN 1 ELSE 0

(* What the simulator holds; it counts no more answers than it made requests.           *)
RoundTypes ==
    /\ simulated \in BOOLEAN
    /\ round \in [stage : RoundStage, pending : SUBSET PurchaseOrders,
                  po : PurchaseOrders \cup {Nobody}, request : Requests \cup {Nobody}]
    /\ round.stage \in {"acknowledging", "shipping"} => round.request \in Requests
    /\ handled \in SUBSET Requests /\ IsFiniteSet(handled)
    /\ acknowledged \in Nat /\ shipped \in Nat
    /\ acknowledged + shipped + Awaited <= Cardinality(handled)

(* An order is shipped once, and not while it is submitted.                             *)
FreshOrders ==
    \A p \in PurchaseOrders : po[p].status \in {"absent", "submitted"} => Fresh(p)

OneShipment ==
    /\ \A g, h \in receipts : g.po = h.po => g = h
    /\ \A q \in Requests : Shipping(req[q]) => ReceiptsOf(req[q].po) = {}
    /\ \A q, r \in Requests :
          Shipping(req[q]) /\ Shipping(req[r]) /\ req[q].po = req[r].po => q = r

(* No request in flight submits an order again, and only the simulator acknowledges.      *)
Patching(q) ==
    LET h == req[q] IN
    /\ Creating(h) => h.target \in {"draft", "submitted"}
    /\ h.stage = "patched" =>
          /\ h.target # "submitted"
          /\ h.seen # "submitted" => po[h.po].status # "submitted"
          /\ h.target = "acknowledged" =>
                \/ h.po \in passedOver
                \/ round.stage = "acknowledging" /\ round.request = q /\ round.po = h.po

(* What the simulator knows of the order it works on.                                      *)
RoundOK ==
    LET h == req[round.request]
        p == round.po IN
    /\ p \notin round.pending
    /\ \A x \in round.pending : Fresh(x)
    /\ round.stage \in {"acknowledging", "deciding"} => Fresh(p)
    /\ round.stage = "acknowledging" =>
          \/ h.stage = "patched" /\ h.po = p /\ h.target = "acknowledged"
          \/ h.stage = "failed"
          \/ h.stage = "done" /\ p \in Placed /\ po[p].status # "submitted"
    /\ round.stage = "deciding" => p \in Placed /\ po[p].status # "submitted"
    /\ round.stage = "shipping" =>
          \/ ShipmentOf(h, p)
          \/ h.stage = "failed"
          \/ h.stage = "done" /\ ReceiptsOf(p) # {}

Backed == shipped + Delivered <= Cardinality(receipts)

Attended ==
    \A p \in PurchaseOrders :
        po[p].status = "acknowledged" /\ ReceiptsOf(p) = {} =>
            \/ p \in passedOver
            \/ /\ p = round.po
               /\ \/ round.stage = "acknowledging" /\ req[round.request].stage = "done"
                  \/ round.stage \in {"deciding", "shipping"}

Rounds ==
    /\ FreshOrders /\ OneShipment
    /\ \A q \in Requests : Patching(q)
    /\ RoundOK /\ Backed /\ Attended

SimulatorInv == ProcurementInv /\ RoundTypes /\ (simulated => Rounds)

(* What a request other than a new shipment does to the store.                          *)
Begins(r, h) ==
    /\ UNCHANGED <<po, receipts>> /\ req[r].stage = "new"
    /\ h.stage \in {"counted_po", "patched"}
    /\ h.stage = "counted_po" => h.target \in {"draft", "submitted"}
    /\ h.stage = "patched" => h.po \in Placed /\ h.seen = po[h.po].status

Proceeds(r, h) == UNCHANGED <<po, receipts>> /\ SameErrand(h, req[r])

Stops(r, h) ==
    /\ UNCHANGED <<po, receipts>> /\ req[r].stage \notin Idle
    /\ \/ h.stage = "failed"
       \/ h.stage = "done" /\ req[r].stage \in {"updating", "deleting", "matching"}

Places(r, h) ==
    /\ Creating(req[r]) /\ h.stage = "done" /\ UNCHANGED receipts
    /\ req[r].po \in PurchaseOrders \ Placed
    /\ \E row \in PurchaseOrder : /\ po' = [po EXCEPT ![req[r].po] = row]
                                  /\ row.status = req[r].target

Updates(r, h) ==
    /\ req[r].stage = "patched" /\ h.stage = "done" /\ UNCHANGED receipts
    /\ req[r].po \in Placed /\ req[r].po \in PurchaseOrders
    /\ req[r].target \in POStatus
    /\ \E row \in PurchaseOrder :
           /\ po' = [po EXCEPT ![req[r].po] = row]
           /\ row.status = IF req[r].target # req[r].seen THEN req[r].target
                           ELSE po[req[r].po].status

Delivers(r, h) ==
    /\ Shipping(req[r]) /\ h.stage = "done"
    /\ req[r].po \in Placed /\ req[r].po \in PurchaseOrders
    /\ \E row \in PurchaseOrder :
           /\ po' = [po EXCEPT ![req[r].po] = row]
           /\ row.status \in {po[req[r].po].status, "received", "partially_received"}
    /\ \E g : /\ receipts' = receipts \cup {g} /\ g.po = req[r].po /\ g \notin receipts
              /\ Cardinality(receipts') = Cardinality(receipts) + 1

Moves(r, h) ==
    \/ Begins(r, h) \/ Proceeds(r, h) \/ Stops(r, h)
    \/ Places(r, h) \/ Updates(r, h) \/ Delivers(r, h)

LEMMA ContinueMoves ==
    ASSUME ProcurementInv, NEW r \in Requests, Continue(r) \/ Fail(r)
    PROVE  \E h \in Request : req' = [req EXCEPT ![r] = h] /\ Moves(r, h)
<1>i. TypeOK /\ TablesFinite /\ HandlerOK(req[r])
  BY DEF ProcurementInv
<1>1. CASE UpdateSupplierCommit(r) \/ DeleteSupplierCommit(r) \/ MatchCommit(r)
  <2>1. /\ Finish(r, "done") /\ UNCHANGED <<po, receipts>>
        /\ req[r].stage \in {"updating", "deleting", "matching"}
    BY <1>1 DEF UpdateSupplierCommit, DeleteSupplierCommit, MatchCommit
  <2>2. QED
    BY <2>1, StopEffect DEF Moves, Stops, Idle
<1>2. CASE Collide(r) \/ Fail(r)
  <2>1. Finish(r, "failed") /\ UNCHANGED <<po, receipts>> /\ req[r].stage \notin Idle
    BY <1>2 DEF Collide, Fail, NumberTaken, Idle
  <2>2. QED
    BY <2>1, StopEffect DEF Moves, Stops
<1>3. CASE CreatePOInsert(r) \/ ShipCount(r) \/ ShipInsert(r) \/ ShipFindInvoice(r)
              \/ ShipCountInvoices(r) \/ ShipInsertInvoice(r)
  BY <1>3, <1>i, MiddleEffect DEF Moves, Proceeds
<1>4. CASE CreatePOCommit(r)
  BY <1>4, CreateEffect, StopEffect DEF Moves, Places
<1>5. CASE UpdatePOCommit(r)
  <2>1. req[r].target \in POStatus
    BY <1>5, <1>i DEF HandlerOK, RefersOK, UpdatePOCommit
  <2>2. PICK h \in Request : req' = [req EXCEPT ![r] = h] /\ h.stage = "done"
    BY <1>5, StopEffect DEF UpdatePOCommit
  <2>3. Updates(r, h)
    BY <1>5, <2>1, <2>2, UpdateEffect DEF Updates
  <2>4. QED
    BY <2>2, <2>3 DEF Moves
<1>6. CASE ShipCommit(r)
  <2>1. PICK h \in Request : req' = [req EXCEPT ![r] = h] /\ h.stage = "done"
    BY <1>6, StopEffect DEF ShipCommit
  <2> DEFINE status == StatusAfter(req[r].seen, req[r].loaded, po[req[r].po].ordered)
  <2>2. status \in {req[r].seen, "received", "partially_received"}
    BY DEF StatusAfter
  <2> HIDE DEF status
  <2>3. /\ Shipping(req[r]) /\ req[r].po \in Placed /\ req[r].po \in PurchaseOrders
        /\ \E row \in PurchaseOrder :
               /\ po' = [po EXCEPT ![req[r].po] = row]
               /\ row.status = IF status # req[r].seen THEN status ELSE po[req[r].po].status
        /\ \E g : /\ receipts' = receipts \cup {g} /\ g.po = req[r].po /\ g \notin receipts
                  /\ Cardinality(receipts') = Cardinality(receipts) + 1
    BY <1>6, ShipEffect DEF status
  <2>4. Delivers(r, h)
    BY <2>1, <2>2, <2>3 DEF Delivers
  <2>5. QED
    BY <2>1, <2>4 DEF Moves
<1>7. QED
  BY <1>1, <1>2, <1>3, <1>4, <1>5, <1>6 DEF Continue

(* A move starts no shipment and ends at most the one of r, with a receipt.              *)
LEMMA MoveShipments ==
    ASSUME ProcurementInv, Rounds, NEW r \in Requests, NEW h \in Request,
           req' = [req EXCEPT ![r] = h], Moves(r, h)
    PROVE  /\ receipts \subseteq receipts'
           /\ \A q \in Requests : Shipping(req'[q]) =>
                  Shipping(req[q]) /\ req'[q].po = req[q].po
           /\ \A p : Fresh(p) => Fresh(p)'
           /\ OneShipment'
<1>1. req'[r] = h /\ \A q \in Requests : q # r => req'[q] = req[q]
  BY DEF ProcurementInv, TypeOK
<1>2. receipts \subseteq receipts'
  BY DEF Moves, Begins, Proceeds, Stops, Places, Updates, Delivers
<1>3. Shipping(h) => Shipping(req[r]) /\ h.po = req[r].po
  BY DEF Moves, Begins, Proceeds, Stops, Places, Updates, Delivers, SameErrand, Shipping,
         Holding
<1>4. \A q \in Requests : Shipping(req'[q]) => Shipping(req[q]) /\ req'[q].po = req[q].po
  BY <1>1, <1>3
<1>5. \/ receipts' = receipts
      \/ /\ Shipping(req[r]) /\ ~Shipping(h)
         /\ \E g : receipts' = receipts \cup {g} /\ g.po = req[r].po
  BY DEF Moves, Begins, Proceeds, Stops, Places, Updates, Delivers, Shipping, Holding
<1>6. ASSUME NEW p, Fresh(p) PROVE Fresh(p)'
  BY <1>1, <1>4, <1>5, <1>6 DEF Fresh, ShipmentOf, ReceiptsOf
<1>7. OneShipment'
  <2>o. OneShipment
    BY DEF Rounds
  <2>1. (\A g, k \in receipts : g.po = k.po => g = k)'
    <3>1. CASE receipts' = receipts
      BY <3>1, <2>o DEF OneShipment
    <3>2. CASE receipts' # receipts
      <4>1. PICK g : receipts' = receipts \cup {g} /\ g.po = req[r].po /\ Shipping(req[r])
        BY <3>2, <1>5
      <4>2. \A k \in receipts : k.po # g.po
        BY <4>1, <2>o DEF OneShipment, ReceiptsOf
      <4>3. QED
        BY <4>1, <4>2, <2>o DEF OneShipment
    <3>3. QED
      BY <3>1, <3>2
  <2>2. (\A q \in Requests : Shipping(req[q]) => ReceiptsOf(req[q].po) = {})'
    <3>1. SUFFICES ASSUME NEW q \in Requests, Shipping(req'[q])
                   PROVE  ReceiptsOf(req[q].po)' = {}
      BY DEF Shipping, Holding
    <3>2. Shipping(req[q]) /\ req'[q].po = req[q].po /\ ReceiptsOf(req[q].po) = {}
      BY <3>1, <1>4, <2>o DEF OneShipment
    <3>3. CASE receipts' = receipts
      BY <3>2, <3>3 DEF ReceiptsOf
    <3>4. CASE receipts' # receipts
      <4>1. PICK g : /\ receipts' = receipts \cup {g} /\ g.po = req[r].po
                     /\ Shipping(req[r]) /\ ~Shipping(h)
        BY <3>4, <1>5
      <4>2. q # r
        BY <4>1, <3>1, <1>1
      <4>3. req[q].po # g.po
        BY <4>1, <4>2, <3>2, <2>o DEF OneShipment
      <4>4. QED
        BY <4>1, <4>3, <3>2 DEF ReceiptsOf
    <3>5. QED
      BY <3>3, <3>4
  <2>3. \A q, s \in Requests :
           Shipping(req'[q]) /\ Shipping(req'[s]) /\ req'[q].po = req'[s].po => q = s
    BY <1>4, <2>o DEF OneShipment
  <2>4. QED
    BY <2>1, <2>2, <2>3 DEF OneShipment, Shipping, Holding
<1>8. QED
  BY <1>2, <1>4, <1>6, <1>7

(* A move submits no order that is there, and acknowledges only what the simulator        *)
(* acknowledges.                                                                           *)
LEMMA MoveStatus ==
    ASSUME ProcurementInv, Rounds, NEW r \in Requests, NEW h \in Request,
           req' = [req EXCEPT ![r] = h], Moves(r, h), NEW p \in PurchaseOrders
    PROVE  /\ po'[p].status \in {"absent", "submitted"} =>
                  po[p].status \in {"absent", "submitted"}
           /\ p \in Placed => /\ p \in Placed'
                              /\ po'[p].status = "submitted" => po[p].status = "submitted"
           /\ po'[p].status = "acknowledged" =>
                  \/ po[p].status = "acknowledged"
                  \/ p \in passedOver
                  \/ /\ round.stage = "acknowledging" /\ round.po = p
                     /\ req'[round.request].stage = "done"
<1>i. /\ po \in [PurchaseOrders -> PurchaseOrder] /\ Patching(r)
      /\ req'[r] = h /\ \A q \in Requests : q # r => req'[q] = req[q]
  BY DEF ProcurementInv, TypeOK, Rounds
<1>1. CASE po'[p].status = po[p].status
  BY <1>1 DEF Placed
<1>2. CASE Places(r, h)
  <2>1. PICK row \in PurchaseOrder : /\ po' = [po EXCEPT ![req[r].po] = row]
                                     /\ row.status = req[r].target
    BY <1>2 DEF Places
  <2>2. row.status \in {"draft", "submitted"} /\ po[req[r].po].status = "absent"
    BY <1>i, <1>2, <2>1 DEF Places, Patching, Placed
  <2>3. po'[p] = IF p = req[r].po THEN row ELSE po[p]
    BY <1>i, <2>1
  <2>4. CASE p = req[r].po
    BY <2>2, <2>3, <2>4 DEF Placed
  <2>5. QED
    BY <1>1, <2>3, <2>4
<1>3. CASE Updates(r, h)
  <2>1. PICK row \in PurchaseOrder : /\ po' = [po EXCEPT ![req[r].po] = row]
                                     /\ row.status \in {req[r].target, po[req[r].po].status}
    BY <1>3 DEF Updates
  <2>2. po'[p] = IF p = req[r].po THEN row ELSE po[p]
    BY <1>i, <2>1
  <2>3. CASE p = req[r].po /\ row.status = req[r].target
    <3>1. /\ po'[p].status = req[r].target /\ req[r].target # "submitted"
          /\ req[r].target \in POStatus /\ p \in Placed /\ h.stage = "done"
      BY <1>i, <1>3, <2>2, <2>3 DEF Updates, Patching
    <3>2. po'[p].status # "absent" /\ po'[p].status # "submitted"
      BY <3>1 DEF POStatus
    <3>3. p \in Placed'
      BY <3>2 DEF Placed
    <3>4. po'[p].status = "acknowledged" =>
             \/ p \in passedOver
             \/ round.stage = "acknowledging" /\ round.request = r /\ round.po = p
      BY <1>i, <1>3, <2>3, <3>1 DEF Updates, Patching
    <3>5. QED
      BY <3>1, <3>2, <3>3, <3>4, <1>i
  <2>4. QED
    BY <1>1, <2>1, <2>2, <2>3
<1>4. CASE Delivers(r, h)
  <2>1. PICK row \in PurchaseOrder :
           /\ po' = [po EXCEPT ![req[r].po] = row]
           /\ row.status \in {po[req[r].po].status, "received", "partially_received"}
    BY <1>4 DEF Delivers
  <2>2. po'[p] = IF p = req[r].po THEN row ELSE po[p]
    BY <1>i, <2>1
  <2>3. CASE row.status \in {"received", "partially_received"} /\ p = req[r].po
    BY <2>2, <2>3 DEF Placed
  <2>4. QED
    BY <1>1, <2>1, <2>2, <2>3
<1>5. QED
  BY <1>1, <1>2, <1>3, <1>4 DEF Moves, Begins, Proceeds, Stops

(* How the requests that the simulator waits for get their answers.                         *)
LEMMA MoveAnswers ==
    ASSUME ProcurementInv, Rounds, NEW r \in Requests, NEW h \in Request,
           req' = [req EXCEPT ![r] = h], Moves(r, h), NEW q \in Requests
    PROVE  /\ req[q].stage \in {"done", "failed"} => req'[q] = req[q]
           /\ req[q].stage = "patched" =>
                  \/ req'[q] = req[q]
                  \/ req'[q].stage = "failed"
                  \/ /\ req'[q].stage = "done" /\ req[q].po \in Placed'
                     /\ po'[req[q].po].status # "submitted"
           /\ Shipping(req[q]) =>
                  \/ Shipping(req'[q]) /\ req'[q].po = req[q].po
                  \/ req'[q].stage = "failed"
                  \/ /\ req'[q].stage = "done" /\ \E g \in receipts' : g.po = req[q].po
                     /\ Cardinality(receipts') = Cardinality(receipts) + 1
<1>i. /\ po \in [PurchaseOrders -> PurchaseOrder] /\ Patching(r)
      /\ req'[r] = h /\ \A s \in Requests : s # r => req'[s] = req[s]
  BY DEF ProcurementInv, TypeOK, Rounds
<1>1. CASE q # r
  BY <1>1, <1>i
<1>2. CASE q = r
  <2>1. CASE Begins(r, h)
    BY <1>2, <1>i, <2>1 DEF Begins, Shipping, Holding
  <2>2. CASE Proceeds(r, h)
    BY <1>2, <1>i, <2>2 DEF Proceeds, SameErrand, Idle
  <2>3. CASE Stops(r, h)
    BY <1>2, <1>i, <2>3 DEF Stops, Idle, Shipping, Holding
  <2>4. CASE Places(r, h)
    BY <1>2, <1>i, <2>4 DEF Places, Creating, Shipping, Holding
  <2>5. CASE Updates(r, h)
    <3>1. PICK p \in PurchaseOrders : p = req[r].po /\ p \in Placed
      BY <2>5 DEF Updates
    <3>2. PICK row \in PurchaseOrder :
             /\ po' = [po EXCEPT ![p] = row]
             /\ row.status = IF req[r].target # req[r].seen THEN req[r].target
                             ELSE po[p].status
      BY <2>5, <3>1 DEF Updates
    <3>3. /\ req[r].target # "submitted" /\ req[r].target \in POStatus
          /\ req[r].seen # "submitted" => po[p].status # "submitted"
          /\ po[p].status # "absent" /\ po[p] \in PurchaseOrder
      BY <2>5, <3>1, <1>i DEF Updates, Patching, Placed
    <3>4. row.status # "submitted" /\ row.status # "absent"
      BY <3>2, <3>3 DEF POStatus
    <3>5. po'[p] = row
      BY <3>2, <1>i
    <3>6. QED
      BY <1>2, <1>i, <2>5, <3>1, <3>4, <3>5 DEF Updates, Placed, Shipping, Holding
  <2>6. CASE Delivers(r, h)
    <3>1. PICK g : /\ receipts' = receipts \cup {g} /\ g.po = req[r].po
                   /\ Cardinality(receipts') = Cardinality(receipts) + 1
      BY <2>6 DEF Delivers
    <3>2. g \in receipts' /\ g.po = req[r].po
      BY <3>1
    <3>3. h.stage = "done" /\ req[r].stage \notin {"done", "failed", "patched"}
      BY <2>6 DEF Delivers, Shipping, Holding
    <3>4. QED
      BY <1>2, <1>i, <3>1, <3>2, <3>3
  <2>7. QED
    BY <2>1, <2>2, <2>3, <2>4, <2>5, <2>6 DEF Moves
<1>3. QED
  BY <1>1, <1>2

(* A move preserves what is known of the rounds while the simulator stands still,            *)
(* provided that nobody else begins to submit or to acknowledge.                              *)
Harmless(r, h) ==
    h.stage = "patched" =>
        \/ SameErrand(h, req[r])
        \/ /\ h.target \notin {"submitted", "acknowledged"}
           /\ h.po \in Placed /\ h.seen = po[h.po].status

LEMMA MovePatching ==
    ASSUME ProcurementInv, Rounds, NEW r \in Requests, NEW h \in Request,
           req' = [req EXCEPT ![r] = h], Moves(r, h), NEW q \in Requests,
           UNCHANGED <<round, passedOver>>,
           q = r => Harmless(r, h)
    PROVE  Patching(q)'
<1>i. /\ Patching(q) /\ HandlerOK(req[q])
      /\ req'[r] = h /\ \A s \in Requests : s # r => req'[s] = req[s]
  BY DEF ProcurementInv, TypeOK, Rounds
<1>1. CASE req'[q] = req[q]
  <2>1. req[q].stage = "patched" => req[q].po \in Placed /\ req[q].po \in PurchaseOrders
    BY <1>i DEF HandlerOK, RefersOK, Placed
  <2>2. req[q].stage = "patched" /\ po[req[q].po].status # "submitted" =>
           po'[req[q].po].status # "submitted"
    BY <2>1, MoveStatus
  <2>3. QED
    BY <1>1, <1>i, <2>2 DEF Patching, Creating
<1>2. CASE q = r
  <2>1. CASE Begins(r, h)
    BY <1>2, <1>i, <2>1 DEF Begins, Harmless, SameErrand, Idle, Patching, Creating
  <2>2. CASE Proceeds(r, h)
    BY <1>2, <1>i, <2>2 DEF Proceeds, SameErrand, Patching, Creating
  <2>3. CASE ~Begins(r, h) /\ ~Proceeds(r, h)
    BY <1>2, <1>i, <2>3 DEF Moves, Stops, Places, Updates, Delivers, Patching, Creating
  <2>4. QED
    BY <2>1, <2>2, <2>3
<1>3. QED
  BY <1>1, <1>2, <1>i

LEMMA MoveRounds ==
    ASSUME ProcurementInv, ProcurementInv', RoundTypes, Rounds,
           NEW r \in Requests, NEW h \in Request,
           req' = [req EXCEPT ![r] = h], Moves(r, h), Harmless(r, h), UNCHANGED simulatorVars
    PROVE  Rounds'
<1>s. UNCHANGED <<round, acknowledged, shipped, handled, passedOver>>
  BY DEF simulatorVars
<1>i. /\ FreshOrders /\ RoundOK /\ Backed /\ Attended
      /\ round.stage \in {"acknowledging", "shipping"} => round.request \in Requests
      /\ round.pending \in SUBSET PurchaseOrders
      /\ Cardinality(receipts) \in Nat /\ shipped \in Nat
  BY FS_CardinalityType DEF Rounds, RoundTypes, ProcurementInv, TablesFinite
<1>m. /\ receipts \subseteq receipts' /\ OneShipment'
      /\ \A p : Fresh(p) => Fresh(p)'
  BY MoveShipments
<1>1. FreshOrders'
  BY <1>i, <1>m, MoveStatus DEF FreshOrders
<1>2. ASSUME NEW q \in Requests PROVE Patching(q)'
  BY <1>s, MovePatching
<1>3. RoundOK'
  <2>1. /\ round.po \notin round.pending /\ \A x \in round.pending : Fresh(x)'
        /\ round.stage \in {"acknowledging", "deciding"} => Fresh(round.po)'
    <3>1. PICK p : p = round.po /\ round'.po = p
      BY <1>s
    <3>2. round.stage \in {"acknowledging", "deciding"} => Fresh(p)'
      BY <1>i, <1>m, <3>1 DEF RoundOK
    <3>3. round.stage \in {"acknowledging", "deciding"} => Fresh(round.po)'
      BY <3>1, <3>2 DEF Fresh
    <3>4. QED
      BY <1>i, <1>m, <3>3 DEF RoundOK
  <2>2. CASE round.stage \notin {"acknowledging", "deciding", "shipping"}
    BY <1>s, <2>1, <2>2 DEF RoundOK
  <2>3. ASSUME round.po \in Placed, po[round.po].status # "submitted"
        PROVE  round.po \in Placed' /\ po'[round.po].status # "submitted"
    <3>1. round.po \in PurchaseOrders
      BY <2>3 DEF Placed
    <3>2. QED
      BY <2>3, <3>1, MoveStatus
  <2>4. CASE round.stage = "deciding"
    BY <1>i, <1>s, <2>1, <2>3, <2>4 DEF RoundOK
  <2>5. CASE round.stage = "acknowledging"
    <3>1. PICK q \in Requests : q = round.request
      BY <2>5, <1>i
    <3>2. \/ req[q].stage = "patched" /\ req[q].po = round.po /\ req[q].target = "acknowledged"
          \/ req[q].stage = "failed"
          \/ req[q].stage = "done" /\ round.po \in Placed /\ po[round.po].status # "submitted"
      BY <2>5, <3>1, <1>i DEF RoundOK
    <3>3. \/ /\ req'[q].stage = "patched" /\ req'[q].po = round.po
             /\ req'[q].target = "acknowledged"
          \/ req'[q].stage = "failed"
          \/ /\ req'[q].stage = "done" /\ round.po \in Placed'
             /\ po'[round.po].status # "submitted"
      BY <3>2, <2>3, MoveAnswers
    <3>4. QED
      BY <1>s, <2>1, <2>5, <3>1, <3>3 DEF RoundOK
  <2>6. CASE round.stage = "shipping"
    <3>1. PICK q \in Requests : q = round.request
      BY <2>6, <1>i
    <3>2. \/ ShipmentOf(req[q], round.po)
          \/ req[q].stage = "failed"
          \/ req[q].stage = "done" /\ ReceiptsOf(round.po) # {}
      BY <2>6, <3>1, <1>i DEF RoundOK
    <3>3. \/ ShipmentOf(req'[q], round.po)
          \/ req'[q].stage = "failed"
          \/ req'[q].stage = "done" /\ \E g \in receipts' : g.po = round.po
      BY <3>2, <1>m, MoveAnswers DEF ShipmentOf, ReceiptsOf
    <3>4. QED
      BY <1>s, <2>1, <2>6, <3>1, <3>3 DEF RoundOK, ShipmentOf, ReceiptsOf, Shipping, Holding
  <2>7. QED
    BY <2>2, <2>4, <2>5, <2>6
<1>4. Backed'
  <2>1. /\ IsFiniteSet(receipts') /\ Cardinality(receipts') \in Nat
        /\ Cardinality(receipts) <= Cardinality(receipts')
    BY <1>m, FS_CardinalityType, FS_Subset DEF ProcurementInv, TablesFinite
  <2>2. CASE round.stage # "shipping"
    BY <1>i, <1>s, <2>1, <2>2 DEF Backed, Delivered
  <2>3. CASE round.stage = "shipping"
    <3>1. PICK q \in Requests : q = round.request
      BY <2>3, <1>i
    <3>2. ShipmentOf(req[q], round.po) \/ req[q].stage \in {"failed", "done"}
      BY <2>3, <3>1, <1>i DEF RoundOK
    <3>3. \/ req'[q].stage = "done" => req[q].stage = "done"
          \/ Cardinality(receipts') = Cardinality(receipts) + 1
      BY <3>2, MoveAnswers DEF ShipmentOf, Shipping, Holding
    <3>4. QED
      BY <1>i, <1>s, <2>1, <2>3, <3>1, <3>3 DEF Backed, Delivered
  <2>4. QED
    BY <2>2, <2>3
<1>5. Attended'
  <2>1. SUFFICES ASSUME NEW p \in PurchaseOrders, po'[p].status = "acknowledged",
                        ReceiptsOf(p)' = {}
                 PROVE  \/ p \in passedOver
                        \/ /\ p = round.po
                           /\ \/ /\ round.stage = "acknowledging"
                                 /\ req'[round.request].stage = "done"
                              \/ round.stage \in {"deciding", "shipping"}
    BY <1>s DEF Attended
  <2>2. ReceiptsOf(p) = {}
    BY <1>m, <2>1 DEF ReceiptsOf
  <2>3. CASE po[p].status # "acknowledged"
    BY <2>1, <2>3, MoveStatus
  <2>4. CASE po[p].status = "acknowledged"
    <3>1. CASE round.stage = "acknowledging" /\ req[round.request].stage = "done"
      BY <3>1, <1>i, <2>2, <2>4, MoveAnswers DEF Attended
    <3>2. QED
      BY <3>1, <1>i, <2>2, <2>4 DEF Attended
  <2>5. QED
    BY <2>3, <2>4
<1>6. QED
  BY <1>m, <1>1, <1>2, <1>3, <1>4, <1>5 DEF Rounds

(* The simulator polls, reads an answer, passes an order over or loses sight of it.           *)
LEMMA ThinkRounds ==
    ASSUME ProcurementInv, RoundTypes, Rounds,
           Poll \/ RoundOver \/ Acknowledged \/ PassOver \/ Shipped \/ HttpError
    PROVE  Rounds'
<1>v. UNCHANGED <<po, receipts, req>>
  BY DEF Poll, RoundOver, Acknowledged, PassOver, Shipped, HttpError, vars
<1>i. /\ FreshOrders /\ OneShipment /\ RoundOK /\ Backed /\ Attended
      /\ round \in [stage : RoundStage, pending : SUBSET PurchaseOrders,
                    po : PurchaseOrders \cup {Nobody}, request : Requests \cup {Nobody}]
      /\ Nobody \notin PurchaseOrders /\ shipped \in Nat /\ Cardinality(receipts) \in Nat
  BY ProcurementAssumption, FS_CardinalityType
  DEF Rounds, RoundTypes, ProcurementInv, TablesFinite
<1>1. /\ Placed' = Placed /\ \A p : Fresh(p)' <=> Fresh(p)
      /\ FreshOrders' /\ OneShipment' /\ \A p : ReceiptsOf(p)' = ReceiptsOf(p)
  BY <1>v, <1>i DEF Placed, Fresh, ReceiptsOf, FreshOrders, OneShipment
<1>2. ASSUME passedOver' = passedOver \/ passedOver' = passedOver \cup {round.po},
             \A q \in Requests :
                /\ req[q].stage = "patched" /\ round.stage = "acknowledging"
                /\ round.request = q
                => round.po \in passedOver'
      PROVE  \A q \in Requests : Patching(q)'
  <2>1. SUFFICES ASSUME NEW q \in Requests PROVE Patching(q)'
    OBVIOUS
  <2>2. Patching(q) /\ passedOver \subseteq passedOver'
    BY <1>2 DEF Rounds
  <2>3. QED
    BY <2>2, <1>2, <1>v DEF Patching, Creating
<1>3. CASE Poll
  <2>1. /\ round'.stage = "working" /\ round'.pending = Pending /\ round'.po = Nobody
        /\ round.stage = "resting" /\ shipped' = shipped /\ passedOver' = passedOver
    BY <1>3 DEF Poll, Resting
  <2>2. \A x \in Pending : Fresh(x)
    BY <1>i DEF Pending, FreshOrders, Placed
  <2>3. RoundOK'
    <3>1. Nobody \notin Pending
      BY <1>i DEF Pending, Placed
    <3>2. QED
      BY <2>1, <2>2, <1>1, <3>1 DEF RoundOK
  <2>4. Backed' /\ Attended'
    BY <2>1, <1>i, <1>1, <1>v DEF Backed, Delivered, Attended
  <2>5. QED
    BY <2>1, <2>3, <2>4, <1>1, <1>2 DEF Rounds
<1>4. CASE RoundOver
  <2>1. /\ round'.stage = "resting" /\ round'.pending = {} /\ round'.po = Nobody
        /\ round.stage = "working" /\ shipped' = shipped /\ passedOver' = passedOver
    BY <1>4 DEF RoundOver, Resting
  <2>2. RoundOK'
    BY <2>1 DEF RoundOK
  <2>3. Backed' /\ Attended'
    BY <2>1, <1>i, <1>1, <1>v DEF Backed, Delivered, Attended
  <2>4. QED
    BY <2>1, <2>2, <2>3, <1>1, <1>2 DEF Rounds
<1>5. CASE Acknowledged
  <2>1. /\ round.stage = "acknowledging" /\ req[round.request].stage \in {"done", "failed"}
        /\ round' = [round EXCEPT !.stage = IF req[round.request].stage = "done"
                                           THEN "deciding" ELSE "working"]
        /\ shipped' = shipped /\ passedOver' = passedOver
    BY <1>5 DEF Acknowledged
  <2>2. /\ round'.po = round.po /\ round'.pending = round.pending
        /\ round'.request = round.request
        /\ round'.stage = IF req[round.request].stage = "done" THEN "deciding" ELSE "working"
    BY <2>1, <1>i
  <2>3. RoundOK'
    <3>1. PICK p : p = round.po /\ round'.po = p
      BY <2>2
    <3>2. /\ p \notin round.pending /\ Fresh(p)' /\ \A x \in round.pending : Fresh(x)'
          /\ req[round.request].stage = "done" => p \in Placed /\ po[p].status # "submitted"
      BY <2>1, <3>1, <1>i, <1>1 DEF RoundOK
    <3>3. Fresh(round.po)'
      BY <3>1, <3>2 DEF Fresh
    <3>4. QED
      BY <2>2, <3>1, <3>2, <3>3, <1>1, <1>v DEF RoundOK
  <2>4. Backed' /\ Attended'
    BY <2>1, <2>2, <1>i, <1>1, <1>v DEF Backed, Delivered, Attended
  <2>5. QED
    BY <2>1, <2>3, <2>4, <1>1, <1>2 DEF Rounds
<1>6. CASE PassOver
  <2>1. /\ round.stage = "deciding" /\ round' = [round EXCEPT !.stage = "working"]
        /\ shipped' = shipped /\ passedOver' = passedOver \cup {round.po}
    BY <1>6 DEF PassOver
  <2>2. /\ round'.po = round.po /\ round'.pending = round.pending /\ round'.stage = "working"
    BY <2>1, <1>i
  <2>3. RoundOK'
    BY <2>2, <1>i, <1>1 DEF RoundOK
  <2>4. Backed' /\ Attended'
    BY <2>1, <2>2, <1>i, <1>1, <1>v DEF Backed, Delivered, Attended
  <2>5. QED
    BY <2>1, <2>3, <2>4, <1>1, <1>2 DEF Rounds
<1>7. CASE Shipped
  <2>1. /\ round.stage = "shipping" /\ req[round.request].stage \in {"done", "failed"}
        /\ round' = [round EXCEPT !.stage = "working"]
        /\ IF req[round.request].stage = "done"
           THEN shipped' = shipped + 1 /\ passedOver' = passedOver
           ELSE passedOver' = passedOver \cup {round.po} /\ shipped' = shipped
    BY <1>7 DEF Shipped
  <2>2. /\ round'.po = round.po /\ round'.pending = round.pending /\ round'.stage = "working"
    BY <2>1, <1>i
  <2>3. RoundOK'
    BY <2>2, <1>i, <1>1 DEF RoundOK
  <2>4. Backed'
    BY <2>1, <2>2, <1>i, <1>v DEF Backed, Delivered
  <2>5. req[round.request].stage = "done" => ReceiptsOf(round.po) # {}
    BY <2>1, <1>i DEF RoundOK, ShipmentOf, Shipping, Holding
  <2>6. Attended'
    BY <2>1, <2>2, <2>5, <1>i, <1>1, <1>v DEF Attended
  <2>7. QED
    BY <2>1, <2>3, <2>4, <2>6, <1>1, <1>2 DEF Rounds
<1>8. CASE HttpError
  <2>1. /\ round.stage \in {"acknowledging", "shipping"} /\ round'.stage = "resting"
        /\ round'.pending = {} /\ round'.po = Nobody
        /\ shipped' = shipped /\ passedOver' = passedOver \cup {round.po}
    BY <1>8 DEF HttpError, Resting
  <2>2. RoundOK'
    BY <2>1 DEF RoundOK
  <2>3. Backed' /\ Attended'
    BY <2>1, <1>i, <1>1, <1>v DEF Backed, Delivered, Attended
  <2>4. QED
    BY <2>1, <2>2, <2>3, <1>1, <1>2 DEF Rounds
<1>9. QED
  BY <1>3, <1>4, <1>5, <1>6, <1>7, <1>8

(* acknowledge_po asks.                                                                          *)
LEMMA AcknowledgeRounds ==
    ASSUME ProcurementInv, RoundTypes, Rounds, NEW r \in Requests, NEW p \in PurchaseOrders,
           Acknowledge(r, p)
    PROVE  Rounds'
<1>i. /\ TypeOK /\ FreshOrders /\ RoundOK /\ Backed /\ Attended
      /\ round.stage = "working" /\ p \in round.pending
      /\ UpdatePORead(r, p, "acknowledged")
      /\ round' = [stage |-> "acknowledging", pending |-> round.pending \ {p}, po |-> p,
                   request |-> r]
      /\ UNCHANGED <<po, receipts, shipped, passedOver>> /\ p \in Placed
      /\ req[r].stage = "new"
  BY DEF Rounds, Acknowledge, UpdatePORead, ProcurementInv, MayStart
<1>1. PICK h \in Request : /\ req' = [req EXCEPT ![r] = h] /\ h.stage = "patched"
                           /\ h.po = p /\ h.target = "acknowledged" /\ h.seen = po[p].status
  BY <1>i, PatchEffect DEF POStatus
<1>2. Moves(r, h)
  BY <1>i, <1>1 DEF Moves, Begins
<1>3. /\ OneShipment' /\ \A x : Fresh(x) => Fresh(x)'
  BY <1>1, <1>2, MoveShipments
<1>4. req'[r] = h /\ \A q \in Requests : q # r => req'[q] = req[q]
  BY <1>1, <1>i DEF TypeOK
<1>5. FreshOrders'
  BY <1>i, <1>3 DEF FreshOrders
<1>6. ASSUME NEW q \in Requests PROVE Patching(q)'
  <2>1. CASE q = r
    BY <2>1, <1>1, <1>4, <1>i DEF Patching, Creating
  <2>2. CASE q # r
    <3>1. Patching(q)
      BY DEF Rounds
    <3>2. QED
      BY <2>2, <3>1, <1>4, <1>i DEF Patching, Creating
  <2>3. QED
    BY <2>1, <2>2
<1>7. RoundOK'
  <2>1. Fresh(p)' /\ \A x \in round.pending : Fresh(x)'
    BY <1>3, <1>i DEF RoundOK
  <2>2. /\ round'.stage = "acknowledging" /\ round'.po = p /\ round'.request = r
        /\ round'.pending = round.pending \ {p}
    BY <1>i
  <2>3. Fresh(round.po)'
    BY <2>1, <2>2 DEF Fresh
  <2>4. req'[r].stage = "patched" /\ req'[r].po = p /\ req'[r].target = "acknowledged"
    BY <1>1, <1>4
  <2>5. QED
    BY <2>1, <2>2, <2>3, <2>4 DEF RoundOK
<1>8. Backed' /\ Attended'
  BY <1>i DEF Backed, Delivered, Attended, ReceiptsOf
<1>9. QED
  BY <1>3, <1>5, <1>6, <1>7, <1>8 DEF Rounds

(* ship_po asks.                                                                                  *)
LEMMA ShipRounds ==
    ASSUME ProcurementInv, RoundTypes, Rounds, NEW r \in Requests, NEW parcel \in Shipment,
           Ship(r, parcel)
    PROVE  Rounds'
<1>p. PICK p \in PurchaseOrders : p = round.po /\ p \in Placed
  BY DEF Ship, ShipLoad, Placed
<1>i. /\ TypeOK /\ FreshOrders /\ OneShipment /\ RoundOK /\ Backed /\ Attended
      /\ round.stage = "deciding" /\ ShipLoad(r, p, parcel)
      /\ round' = [round EXCEPT !.stage = "shipping", !.request = r]
      /\ UNCHANGED <<po, receipts, shipped, passedOver>> /\ req[r].stage = "new"
      /\ Fresh(p) /\ po[p].status # "submitted" /\ po[p].status # "absent"
      /\ round \in [stage : RoundStage, pending : SUBSET PurchaseOrders,
                    po : PurchaseOrders \cup {Nobody}, request : Requests \cup {Nobody}]
  BY <1>p DEF Rounds, Ship, ShipLoad, ProcurementInv, MayStart, RoundOK, RoundTypes, Placed
<1>1. PICK h \in Request : /\ req' = [req EXCEPT ![r] = h] /\ h.stage = "loaded" /\ h.po = p
  BY <1>i, LoadEffect
<1>2. req'[r] = h /\ \A q \in Requests : q # r => req'[q] = req[q]
  BY <1>1, <1>i DEF TypeOK
<1>3. \A q \in Requests : ShipmentOf(req'[q], p) <=> q = r
  BY <1>1, <1>2, <1>i DEF Fresh, ShipmentOf, Shipping
<1>4. ASSUME NEW x, x # p, Fresh(x) PROVE Fresh(x)'
  BY <1>1, <1>2, <1>4, <1>i DEF Fresh, ShipmentOf, ReceiptsOf, Shipping, Holding
<1>5. FreshOrders'
  BY <1>4, <1>i DEF FreshOrders
<1>6. OneShipment'
  <2>1. \A g, k \in receipts' : g.po = k.po => g = k
    BY <1>i DEF OneShipment
  <2>2. ASSUME NEW q \in Requests, Shipping(req'[q]) PROVE ReceiptsOf(req[q].po)' = {}
    <3>1. CASE q = r
      BY <3>1, <1>1, <1>2, <1>i DEF Fresh, ReceiptsOf
    <3>2. CASE q # r
      BY <2>2, <3>2, <1>2, <1>i DEF OneShipment, ReceiptsOf
    <3>3. QED
      BY <3>1, <3>2
  <2>3. ASSUME NEW q \in Requests, NEW s \in Requests, Shipping(req'[q]), Shipping(req'[s]),
               req'[q].po = req'[s].po
        PROVE  q = s
    <3>1. CASE req'[q].po = p
      BY <1>3, <2>3, <3>1 DEF ShipmentOf
    <3>2. CASE req'[q].po # p
      BY <1>1, <1>2, <1>i, <2>3, <3>2 DEF OneShipment
    <3>3. QED
      BY <3>1, <3>2
  <2>4. QED
    BY <2>1, <2>2, <2>3 DEF OneShipment, Shipping, Holding
<1>7. ASSUME NEW q \in Requests PROVE Patching(q)'
  <2>1. CASE q = r
    BY <2>1, <1>1, <1>2 DEF Patching, Creating
  <2>2. CASE q # r
    <3>1. Patching(q)
      BY DEF Rounds
    <3>2. QED
      BY <2>2, <3>1, <1>2, <1>i DEF Patching, Creating
  <2>3. QED
    BY <2>1, <2>2
<1>r. /\ round'.stage = "shipping" /\ round'.po = p /\ round'.request = r
      /\ round'.pending = round.pending
  BY <1>i, <1>p
<1>8. RoundOK'
  <2>1. p \notin round.pending /\ \A x \in round.pending : Fresh(x)'
    BY <1>4, <1>i, <1>p DEF RoundOK
  <2>2. ShipmentOf(req'[r], p)
    BY <1>3
  <2>3. ShipmentOf(req[round.request], round.po)'
    BY <2>2, <1>r DEF ShipmentOf, Shipping, Holding
  <2>4. QED
    BY <2>1, <2>3, <1>r DEF RoundOK
<1>9. Backed'
  BY <1>1, <1>2, <1>i, <1>r DEF Backed, Delivered
<1>10. Attended'
  BY <1>i, <1>p, <1>r DEF Attended, ReceiptsOf
<1>11. QED
  BY <1>5, <1>6, <1>7, <1>8, <1>9, <1>10 DEF Rounds

(* What the simulator holds keeps its type, and it counts no more answers than it asked.          *)
LEMMA RoundTypesStep ==
    ASSUME RoundTypes, [ChainNext]_chainVars PROVE RoundTypes'
<1>i. /\ round \in [stage : RoundStage, pending : SUBSET PurchaseOrders,
                    po : PurchaseOrders \cup {Nobody}, request : Requests \cup {Nobody}]
      /\ handled \in SUBSET Requests /\ IsFiniteSet(handled) /\ Cardinality(handled) \in Nat
      /\ acknowledged \in Nat /\ shipped \in Nat
      /\ acknowledged + shipped + Awaited <= Cardinality(handled)
  BY FS_CardinalityType DEF RoundTypes
<1>s. simulated' = simulated /\ simulated \in BOOLEAN
  BY DEF ChainNext, chainVars, RoundTypes
<1>1. CASE UNCHANGED simulatorVars
  BY <1>1, <1>s DEF simulatorVars, RoundTypes, Awaited
<1>2. CASE Poll \/ RoundOver \/ Acknowledged \/ PassOver \/ Shipped \/ HttpError
  <2>1. Pending \subseteq PurchaseOrders
    BY DEF Pending, Placed
  <2>2. /\ handled' = handled
        /\ round' \in [stage : RoundStage, pending : SUBSET PurchaseOrders,
                       po : PurchaseOrders \cup {Nobody}, request : Requests \cup {Nobody}]
        /\ round'.stage \in {"resting", "working", "deciding"}
    <3>1. /\ handled' = handled
          /\ \/ round' = [Resting EXCEPT !.stage = "working", !.pending = Pending]
             \/ round' = Resting
             \/ round' = [round EXCEPT !.stage = "working"]
             \/ round' = [round EXCEPT !.stage = "deciding"]
      BY <1>2 DEF Poll, RoundOver, Acknowledged, PassOver, Shipped, HttpError
    <3>2. CASE round' = Resting
               \/ round' = [Resting EXCEPT !.stage = "working", !.pending = Pending]
      <4>1. round' = Resting \/ round' = [stage |-> "working", pending |-> Pending,
                                           po |-> Nobody, request |-> Nobody]
        BY <3>2 DEF Resting
      <4>2. QED
        BY <3>1, <4>1, <2>1 DEF Resting, RoundStage
    <3>3. CASE \/ round' = [round EXCEPT !.stage = "working"]
               \/ round' = [round EXCEPT !.stage = "deciding"]
      BY <3>1, <3>3, <1>i DEF RoundStage
    <3>4. QED
      BY <3>1, <3>2, <3>3
  <2>3. /\ acknowledged' \in Nat /\ shipped' \in Nat
        /\ acknowledged' + shipped' <= acknowledged + shipped + Awaited
    BY <1>2, <1>i DEF Poll, RoundOver, Acknowledged, PassOver, Shipped, HttpError, Awaited
  <2>4. Awaited' = 0 /\ Awaited \in Nat
    BY <2>2 DEF Awaited
  <2>5. acknowledged' + shipped' + Awaited' <= Cardinality(handled')
    <3>1. PICK a, b, d : a = acknowledged' /\ b = shipped' /\ d = Cardinality(handled)
      OBVIOUS
    <3>2. a \in Nat /\ b \in Nat /\ d \in Nat
      BY <1>i, <2>3, <3>1
    <3>3. a + b = acknowledged' + shipped'
      BY <3>1, Zenon
    <3>4. a + b <= acknowledged + shipped + Awaited
      BY <2>3, <3>3, Zenon
    <3>5. acknowledged + shipped + Awaited <= d
      BY <1>i, <3>1
    <3>6. a + b <= d
      BY <1>i, <2>4, <3>2, <3>4, <3>5
    <3>7. a + b + 0 <= d
      BY <3>2, <3>6
    <3>8. QED
      BY <2>2, <2>4, <3>1, <3>7, Zenon
  <2>6. handled' \in SUBSET Requests /\ IsFiniteSet(handled')
    BY <1>i, <2>2
  <2>7. QED
    BY <1>s, <2>2, <2>3, <2>5, <2>6 DEF RoundTypes
<1>3. ASSUME NEW r \in Requests, r \notin handled, handled' = handled \cup {r},
             UNCHANGED <<acknowledged, shipped>>, round.stage \in {"working", "deciding"},
             round' \in [stage : RoundStage, pending : SUBSET PurchaseOrders,
                         po : PurchaseOrders \cup {Nobody}, request : Requests \cup {Nobody}],
             round'.stage \in {"acknowledging", "shipping"}, round'.request = r
      PROVE  RoundTypes'
  <2>1. /\ handled' \in SUBSET Requests /\ IsFiniteSet(handled')
        /\ Cardinality(handled') = Cardinality(handled) + 1
    BY <1>3, <1>i, FS_AddElement
  <2>2. Awaited = 0 /\ Awaited' = 1
    BY <1>3 DEF Awaited
  <2>3. QED
    BY <1>3, <1>i, <1>s, <2>1, <2>2 DEF RoundTypes
<1>4. ASSUME NEW r \in Requests, NEW p \in PurchaseOrders, Acknowledge(r, p) PROVE RoundTypes'
  BY <1>3, <1>4, <1>i DEF Acknowledge, MayAsk, RoundStage
<1>5. ASSUME NEW r \in Requests, NEW parcel, Ship(r, parcel) PROVE RoundTypes'
  BY <1>3, <1>5, <1>i DEF Ship, MayAsk, RoundStage
<1>6. QED
  BY <1>1, <1>2, <1>4, <1>5 DEF ChainNext, chainVars, Simulate

LEMMA SimulatorStep ==
    ASSUME Patches \cap {"submitted", "acknowledged"} = {},
           SimulatorInv, [ChainNext]_chainVars
    PROVE  SimulatorInv'
<1>1. ProcurementInv' /\ RoundTypes'
  BY ChainStep, RoundTypesStep DEF SimulatorInv
<1>2. simulated' = simulated
  BY DEF ChainNext, chainVars
<1>3. SUFFICES ASSUME simulated PROVE Rounds'
  BY <1>1, <1>2 DEF SimulatorInv
<1>i. ProcurementInv /\ RoundTypes /\ Rounds /\ TypeOK
  BY <1>3 DEF SimulatorInv, ProcurementInv
<1>m. ASSUME NEW r \in Requests, NEW h \in Request, req' = [req EXCEPT ![r] = h],
             Moves(r, h), Harmless(r, h), UNCHANGED simulatorVars
      PROVE  Rounds'
  BY <1>m, <1>1, <1>i, MoveRounds
<1>4. CASE UNCHANGED <<po, receipts, req, simulatorVars>>
  BY <1>4, <1>i DEF simulatorVars, Rounds, FreshOrders, OneShipment, Patching, RoundOK, Backed,
                    Attended, Fresh, ReceiptsOf, Placed, Delivered
<1>5. CASE Simulate
  <2>1. ASSUME NEW r \in Requests, NEW p \in PurchaseOrders, Acknowledge(r, p) PROVE Rounds'
    BY <2>1, <1>i, AcknowledgeRounds
  <2>2. ASSUME NEW r \in Requests, NEW parcel \in Parcels(round.po), Ship(r, parcel)
        PROVE  Rounds'
    <3>1. parcel \in Shipment
      BY <2>2, <1>i, ParcelsAreShipments DEF Ship, ShipLoad, Placed
    <3>2. QED
      BY <2>2, <3>1, <1>i, ShipRounds
  <2>3. CASE Poll \/ RoundOver \/ Acknowledged \/ PassOver \/ Shipped \/ HttpError
    BY <2>3, <1>i, ThinkRounds
  <2>4. QED
    BY <1>5, <2>1, <2>2, <2>3 DEF Simulate
<1>6. ASSUME NEW r \in Requests, ClientStart(r), UNCHANGED simulatorVars PROVE Rounds'
  <2>1. ASSUME NEW p \in PurchaseOrders, NEW s \in Suppliers, NEW ordered \in Orderings,
               NEW status \in {"draft", "submitted"}, CreatePOCount(r, p, s, ordered, status)
        PROVE  Rounds'
    <3>1. ordered \in Ordering
      BY ProcurementAssumption
    <3>2. PICK h \in Request : req' = [req EXCEPT ![r] = h] /\ h.stage = "counted_po"
                               /\ h.target = status
      BY <2>1, <3>1, <1>i, CountEffect
    <3>3. Moves(r, h) /\ Harmless(r, h)
      BY <2>1, <3>2 DEF Moves, Begins, Harmless, CreatePOCount, MayStart
    <3>4. QED
      BY <3>2, <3>3, <1>6, <1>m
  <2>2. ASSUME NEW p \in PurchaseOrders, NEW status \in Patches, UpdatePORead(r, p, status)
        PROVE  Rounds'
    <3>1. PICK h \in Request : req' = [req EXCEPT ![r] = h] /\ h.stage = "patched"
                               /\ h.po = p /\ h.target = status /\ h.seen = po[p].status
      BY <2>2, <1>i, PatchEffect, ProcurementAssumption
    <3>2. status \notin {"submitted", "acknowledged"}
      OBVIOUS
    <3>3. Moves(r, h) /\ Harmless(r, h)
      BY <2>2, <3>1, <3>2 DEF Moves, Begins, Harmless, UpdatePORead, MayStart
    <3>4. QED
      BY <3>1, <3>3, <1>6, <1>m
  <2>3. QED
    BY <1>6, <2>1, <2>2 DEF ClientStart
<1>7. ASSUME NEW r \in Requests, Continue(r) \/ Fail(r), UNCHANGED simulatorVars PROVE Rounds'
  <2>1. PICK h \in Request : req' = [req EXCEPT ![r] = h] /\ Moves(r, h)
    BY <1>7, <1>i, ContinueMoves
  <2>2. SUFFICES ASSUME Begins(r, h) PROVE FALSE
    <3>1. ~Begins(r, h) => Harmless(r, h)
      BY <2>1 DEF Moves, Proceeds, Stops, Places, Updates, Delivers, Harmless
    <3>2. QED
      BY <2>1, <2>2, <3>1, <1>7, <1>m
  <2>3. req[r].stage \in Idle /\ req[r].stage \notin {"done", "failed"}
    BY <2>2 DEF Begins, Idle
  <2>4. QED
    BY <1>7, <2>3 DEF Continue, Fail, Collide, NumberTaken, UpdateSupplierCommit,
         DeleteSupplierCommit, CreatePOInsert, CreatePOCommit, UpdatePOCommit, ShipCount,
         ShipInsert, ShipFindInvoice, ShipCountInvoices, ShipInsertInvoice, ShipCommit,
         MatchCommit, Idle
<1>8. ASSUME NEW s \in Suppliers, CreateSupplier(s), UNCHANGED simulatorVars PROVE Rounds'
  BY <1>8, <1>4 DEF CreateSupplier
<1>9. QED
  BY <1>3, <1>4, <1>5, <1>6, <1>7, <1>8 DEF ChainNext, chainVars, vars

LEMMA SimulatorInit == ChainInit => SimulatorInv
<1> SUFFICES ASSUME ChainInit PROVE SimulatorInv
  OBVIOUS
<1>1. ProcurementInv /\ Init
  BY ProcurementInit DEF ChainInit
<1>2. Cardinality({}) = 0 /\ IsFiniteSet({})
  BY FS_EmptySet
<1>3. RoundTypes
  BY <1>2 DEF ChainInit, RoundTypes, Resting, RoundStage, Awaited
<1>4. /\ receipts = {} /\ \A q \in Requests : req[q].stage = "new"
      /\ \A p \in PurchaseOrders : po[p].status = "absent"
  BY <1>1 DEF Init, NoRequest, NoOrder
<1>5. \A p : Fresh(p)
  BY <1>4 DEF Fresh, ReceiptsOf, ShipmentOf, Shipping, Holding
<1>6. Rounds
  <2>1. FreshOrders /\ OneShipment /\ \A q \in Requests : Patching(q)
    BY <1>4, <1>5 DEF FreshOrders, OneShipment, Patching, Shipping, Holding, Creating
  <2>2. round = Resting /\ shipped = 0
    BY DEF ChainInit
  <2>3. RoundOK /\ Attended
    BY <1>4, <2>2 DEF RoundOK, Resting, Attended
  <2>4. Backed
    BY <1>2, <1>4, <2>2 DEF Backed, Delivered, Resting
  <2>5. QED
    BY <2>1, <2>3, <2>4 DEF Rounds
<1>7. QED
  BY <1>1, <1>3, <1>6 DEF SimulatorInv

LEMMA SimulatorInvIsSound == SimulatorInv => SimulatorIsSound
<1> SUFFICES ASSUME SimulatorInv PROVE SimulatorIsSound
  OBVIOUS
<1>i. /\ RoundTypes /\ ProcurementInv /\ IsFiniteSet(receipts)
      /\ Cardinality(handled) \in Nat /\ Cardinality(receipts) \in Nat
  BY FS_CardinalityType DEF SimulatorInv, ProcurementInv, TablesFinite, RoundTypes
<1>1. SimulatorTypeOK
  <2>1. /\ acknowledged \in Nat /\ shipped \in Nat /\ Awaited \in Nat
        /\ acknowledged + shipped + Awaited <= Cardinality(handled)
    BY <1>i DEF RoundTypes, Awaited
  <2>2. acknowledged \in 0..Cardinality(handled) /\ shipped \in 0..Cardinality(handled)
    BY <2>1, <1>i
  <2>3. QED
    BY <2>2, <1>i DEF RoundTypes, SimulatorTypeOK
<1>2. NothingShippedTwice
  <2>1. SUFFICES ASSUME simulated, NEW p \in PurchaseOrders
                 PROVE  Cardinality(ReceiptsOf(p)) <= 1
    BY DEF NothingShippedTwice
  <2>2. \A g, h \in ReceiptsOf(p) : g = h
    BY <2>1 DEF SimulatorInv, Rounds, OneShipment, ReceiptsOf
  <2>3. CASE ReceiptsOf(p) = {}
    BY <2>3, FS_EmptySet
  <2>4. CASE ReceiptsOf(p) # {}
    <3>1. PICK g \in ReceiptsOf(p) : ReceiptsOf(p) = {g}
      BY <2>2, <2>4
    <3>2. QED
      BY <3>1, FS_Singleton
  <2>5. QED
    BY <2>3, <2>4
<1>3. CountersAreBacked
  BY <1>i DEF SimulatorInv, Rounds, Backed, Delivered, RoundTypes, CountersAreBacked
<1>4. AcknowledgedIsShipped
  BY DEF SimulatorInv, Rounds, Attended, AcknowledgedIsShipped
<1>5. QED
  BY <1>1, <1>2, <1>3, <1>4 DEF SimulatorIsSound

(* As long as no client but the simulator submits an order again or acknowledges one, the          *)
(* simulator ships no order twice, counts only shipments that were recorded, and abandons no        *)
(* acknowledged order without a trace (process_cycle, acknowledge_po, ship_po).                      *)
THEOREM SimulatorKeepsPromises ==
    Patches \cap {"submitted", "acknowledged"} = {} => (ChainSpec => []SimulatorIsSound)
<1>1. ASSUME Patches \cap {"submitted", "acknowledged"} = {}
      PROVE  ChainSpec => []SimulatorIsSound
  <2>1. SimulatorInv /\ [ChainNext]_chainVars => SimulatorInv'
    BY <1>1, SimulatorStep
  <2>2. QED
    BY <2>1, SimulatorInit, SimulatorInvIsSound, PTL DEF ChainSpec
<1>2. QED
  BY <1>1

(* With the simulator at work, numbers stay dense and an order has one invoice exactly if it has     *)
(* a receipt.                                                                                         *)
THEOREM ChainNumbersStayDense == ChainSpec => [](TypeOK /\ NumbersDense /\ OneInvoicePerOrder)
<1>1. ProcurementInv => TypeOK /\ NumbersDense /\ OneInvoicePerOrder
  BY DEF ProcurementInv
<1>2. QED
  BY <1>1, ChainInvariant, PTL
=============================================================================
