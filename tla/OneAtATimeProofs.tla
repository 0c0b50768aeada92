-------------------------- MODULE OneAtATimeProofs ---------------------------
(***************************************************************************)
(* Proofs about the inventory service and about OneAtATime for every set   *)
(* of rows, orders, requests, deltas and quantities.  Inventory: what      *)
(* survives any interleaving (types, no negative figure, legal figures in  *)
(* memory, the reserved units of a row on hand), and what needs requests   *)
(* one at a time (the movements and the counter explain the figures,       *)
(* nothing is oversold and Inventory implements StockBook).  The order     *)
(* service of OneAtATime is the one OrdersProofs is about: what is proved   *)
(* there of requests one at a time holds of every behaviour of OneAtATime.  *)
(***************************************************************************)
EXTENDS OneAtATime, SumFacts, TLAPS

(* What a request in flight refers to exists.                                *)
RequestRefersOK(r) ==
    /\ req[r].kind \in {"adjust", "reserve", "reorder"} => req[r].key \in Locations
    /\ req[r].kind = "reserve" => req[r].amount \in Nat
    /\ req[r].todo \subseteq req[r].batch
    /\ req[r].todo # {} => req[r].kind = "release"
    /\ req[r].stage = "releasing" => req[r].kind = "release"
    /\ \A i \in req[r].batch : resv[i].key \in Locations
    /\ req[r].stage = "computed" => req[r].key \in Locations
    /\ req[r].stage \in Idle => \A k \in Locations : ~mem[r][k].loaded

ReferencesOK ==
    /\ \A i \in Requests : resv[i].status = "active" => resv[i].key \in Locations
    /\ \A r \in Requests : RequestRefersOK(r)

FiguresInv == TypeOK /\ NeverNegative /\ HeldFiguresLegal /\ ReferencesOK

LEMMA NoRequestOK ==
    /\ NoRequest \in Request /\ NotLoaded \in Loaded /\ NoStock \in StockRow
    /\ NoReservation \in Reservation
    /\ \A s \in Stage : [NoRequest EXCEPT !.stage = s] \in Request
    /\ {"new", "done", "failed", "computed", "releasing", "counted"} \subseteq Stage
BY DEF NoRequest, Request, NotLoaded, Loaded, NoStock, StockRow, NoReservation,
       Reservation, Stage, Idle, Kind

LEMMA FiguresInit == Init => FiguresInv
<1> SUFFICES ASSUME Init PROVE FiguresInv
  OBVIOUS
<1>1. TypeOK
  BY NoRequestOK DEF Init, TypeOK
<1>2. NeverNegative /\ HeldFiguresLegal
  BY DEF Init, NeverNegative, HeldFiguresLegal, NoStock, NotLoaded
<1>3. ReferencesOK
  BY DEF Init, ReferencesOK, RequestRefersOK, NoRequest, NoReservation, NotLoaded
<1>4. QED
  BY <1>1, <1>2, <1>3 DEF FiguresInv

(* A request that loads one row and starts keeps the invariant if the row it   *)
(* will write is legal.                                                         *)
LEMMA StartKeepsFigures ==
    ASSUME FiguresInv, NEW r \in Requests, NEW k \in Locations, NEW after \in StockRow,
           NEW stage \in {"computed", "counted"}, NEW kind \in {"adjust", "reserve", "reorder"},
           NEW amount \in Int, NEW o \in OrderIds \cup {Nothing},
           Hold(r, k, after), Begin(r, stage, kind, k, amount, o),
           after.on_hand >= 0, after.reserved >= 0,
           kind \in {"adjust", "reserve"} => after.reserved <= after.on_hand,
           kind = "reserve" => amount \in Nat,
           req[r].stage = "new",
           UNCHANGED <<stock, resv, movements, counter>>
    PROVE  FiguresInv'
<1> USE DEF FiguresInv
<1> DEFINE held == [loaded |-> TRUE, before |-> stock[k],
                    after |-> [after EXCEPT !.present = TRUE]]
           h == [NoRequest EXCEPT !.stage = stage, !.kind = kind, !.key = k,
                                  !.amount = amount, !.order = o]
<1>1. /\ held \in Loaded
      /\ held.after.on_hand = after.on_hand /\ held.after.reserved = after.reserved
  BY DEF TypeOK, Loaded, StockRow
<1>2. /\ h \in Request /\ h.kind = kind /\ h.key = k /\ h.todo = {} /\ h.batch = {}
      /\ h.amount = amount
      /\ h.stage = stage /\ stage \notin Idle
  BY DEF Request, NoRequest, Kind, Stage, Idle
<1>3. /\ mem'[r] = [mem[r] EXCEPT ![k] = held] /\ req'[r] = h
      /\ \A q \in Requests : q # r => mem'[q] = mem[q] /\ req'[q] = req[q]
  BY DEF Hold, Begin, TypeOK
<1> HIDE DEF held, h
<1>4. TypeOK'
  <2>1. mem' \in [Requests -> [Locations -> Loaded]]
    BY <1>1 DEF Hold, TypeOK, held
  <2>2. req' \in [Requests -> Request]
    BY <1>2 DEF Begin, TypeOK, h
  <2>3. QED
    BY <2>1, <2>2 DEF TypeOK
<1>5. NeverNegative'
  BY DEF NeverNegative
<1>6. HeldFiguresLegal'
  <2>1. \A j \in Locations : ~mem[r][j].loaded
    BY DEF ReferencesOK, RequestRefersOK, Idle
  <2>2. \A j \in Locations : mem'[r][j] = IF j = k THEN held ELSE mem[r][j]
    BY <1>3 DEF TypeOK
  <2>3. ASSUME NEW q \in Requests, NEW j \in Locations, mem'[q][j].loaded
        PROVE  /\ mem'[q][j].after.on_hand >= 0
               /\ mem'[q][j].after.reserved >= 0
               /\ req'[q].kind \in {"adjust", "reserve"} =>
                      mem'[q][j].after.reserved <= mem'[q][j].after.on_hand
    <3>1. CASE q # r
      BY <2>3, <3>1, <1>3 DEF HeldFiguresLegal
    <3>2. CASE q = r
      <4>1. j = k /\ mem'[q][j] = held
        BY <2>1, <2>2, <2>3, <3>2
      <4>2. QED
        BY <4>1, <3>2, <1>1, <1>2, <1>3
    <3>3. QED
      BY <3>1, <3>2
  <2>4. QED
    BY <2>3 DEF HeldFiguresLegal
<1>7. ReferencesOK'
  BY <1>2, <1>3 DEF ReferencesOK, RequestRefersOK
<1>8. QED
  BY <1>4, <1>5, <1>6, <1>7

(* A request that finishes without touching rows keeps the invariant.          *)
LEMMA FinishKeepsHandlers ==
    ASSUME FiguresInv, NEW r \in Requests, NEW f \in {"done", "failed"}, Finish(r, f)
    PROVE  /\ req' \in [Requests -> Request]
           /\ mem' \in [Requests -> [Locations -> Loaded]]
           /\ HeldFiguresLegal'
           /\ \A q \in Requests : q # r => req'[q] = req[q] /\ mem'[q] = mem[q]
           /\ req'[r] = [NoRequest EXCEPT !.stage = f]
           /\ \A k \in Locations : ~mem'[r][k].loaded
<1> USE DEF FiguresInv
<1>1. [NoRequest EXCEPT !.stage = f] \in Request
  BY NoRequestOK
<1>2. [k \in Locations |-> NotLoaded] \in [Locations -> Loaded]
  BY NoRequestOK
<1>3. /\ mem'[r] = [k \in Locations |-> NotLoaded]
      /\ req'[r] = [NoRequest EXCEPT !.stage = f]
      /\ \A q \in Requests : q # r => mem'[q] = mem[q] /\ req'[q] = req[q]
  BY DEF Finish, TypeOK
<1>4. HeldFiguresLegal'
  BY <1>3 DEF HeldFiguresLegal, NotLoaded
<1>5. req' \in [Requests -> Request] /\ mem' \in [Requests -> [Locations -> Loaded]]
  BY <1>1, <1>2 DEF Finish, TypeOK
<1>6. QED
  BY <1>3, <1>4, <1>5 DEF NotLoaded

(* Every step preserves the invariant, whatever the interleaving.              *)
LEMMA FiguresStep == FiguresInv /\ [Next]_vars => FiguresInv'
<1> SUFFICES ASSUME FiguresInv, [Next]_vars PROVE FiguresInv'
  OBVIOUS
<1> USE DEF FiguresInv
<1>i. /\ req \in [Requests -> Request] /\ resv \in [Requests -> Reservation]
      /\ stock \in [Locations -> StockRow]
      /\ mem \in [Requests -> [Locations -> Loaded]]
      /\ \A k \in Locations : stock[k].on_hand \in Int /\ stock[k].reserved \in Int
                              /\ stock[k].on_hand >= 0 /\ stock[k].reserved >= 0
  BY DEF TypeOK, StockRow, NeverNegative
<1>n. Nothing \in OrderIds \cup {Nothing}
  OBVIOUS
<1>1. ASSUME NEW r \in Requests, NEW k \in Locations, NEW delta \in Deltas,
             AdjustRead(r, k, delta)
      PROVE FiguresInv'
  <2>0. delta \in Int /\ stock[k].on_hand + delta \in Int
    BY <1>i, InventoryAssumption
  <2>1. PICK after \in StockRow : after = [stock[k] EXCEPT !.on_hand = stock[k].on_hand + delta]
    <3>1. [stock[k] EXCEPT !.on_hand = stock[k].on_hand + delta] \in StockRow
      BY <2>0, <1>i DEF StockRow
    <3>2. QED
      BY <3>1
  <2>2. /\ after.on_hand = stock[k].on_hand + delta /\ after.reserved = stock[k].reserved
        /\ delta \in Int
    BY <2>1, <1>i, InventoryAssumption DEF StockRow
  <2>3. /\ Hold(r, k, after) /\ Begin(r, "computed", "adjust", k, delta, Nothing)
        /\ AdjustmentAllowed(stock[k], stock[k].on_hand + delta) /\ req[r].stage = "new"
        /\ UNCHANGED <<stock, resv, movements, counter>>
    BY <1>1, <2>1 DEF AdjustRead, MayStart
  <2>4. QED
    BY <2>2, <2>3, <1>i, <1>n, StartKeepsFigures DEF AdjustmentAllowed
<1>2. ASSUME NEW r \in Requests, NEW k \in Locations, NEW q \in Quantities,
             NEW o \in OrderIds, ReserveRead(r, k, q, o)
      PROVE FiguresInv'
  <2>0. q \in Nat
    BY InventoryAssumption
  <2>1. PICK after \in StockRow : after = [stock[k] EXCEPT !.reserved = @ + q]
    <3>1. [stock[k] EXCEPT !.reserved = @ + q] \in StockRow
      BY <2>0, <1>i DEF StockRow
    <3>2. QED
      BY <3>1
  <2>2. after.on_hand = stock[k].on_hand /\ after.reserved = stock[k].reserved + q
    BY <2>1, <1>i DEF StockRow
  <2>3. /\ Hold(r, k, after) /\ Begin(r, "computed", "reserve", k, q, o)
        /\ EnoughAvailable(stock[k], q) /\ req[r].stage = "new"
        /\ UNCHANGED <<stock, resv, movements, counter>>
    BY <1>2, <2>1 DEF ReserveRead, MayStart
  <2>4. QED
    BY <2>0, <2>2, <2>3, <1>i, StartKeepsFigures DEF EnoughAvailable
<1>3. ASSUME NEW r \in Requests, NEW k \in Locations, ReorderRead(r, k) PROVE FiguresInv'
  <2>1. PICK after \in StockRow : after = stock[k]
    BY <1>i
  <2>2. /\ Hold(r, k, after) /\ Begin(r, "counted", "reorder", k, 0, Nothing)
        /\ req[r].stage = "new"
        /\ UNCHANGED <<stock, resv, movements, counter>>
    BY <1>3, <2>1 DEF ReorderRead, MayStart
  <2>3. QED
    BY <2>1, <2>2, <1>i, <1>n, StartKeepsFigures
<1>4. ASSUME NEW r \in Requests, ReleaseById(r) \/ ReleaseByOrder(r) PROVE FiguresInv'
  <2>1. PICK batch \in SUBSET Active : ReleaseSelect(r, batch)
    BY <1>4 DEF ReleaseById, ReleaseByOrder
  <2>2. PICK h \in Request : /\ req' = [req EXCEPT ![r] = h]
                             /\ h.kind = "release" /\ h.stage = "releasing"
                             /\ h.todo = batch /\ h.batch = batch
    <3>1. batch \subseteq Requests
      BY <2>1 DEF Active
    <3> DEFINE h == [NoRequest EXCEPT !.stage = "releasing", !.kind = "release",
                                      !.todo = batch, !.batch = batch]
    <3>2. h \in Request /\ h.kind = "release" /\ h.stage = "releasing"
          /\ h.todo = batch /\ h.batch = batch
      BY <3>1, NoRequestOK DEF Request, Kind
    <3>3. req' = [req EXCEPT ![r] = h]
      BY <2>1 DEF ReleaseSelect
    <3>4. QED
      BY <3>2, <3>3
  <2>3. /\ UNCHANGED <<stock, resv, movements, counter, mem>>
        /\ req[r].stage = "new"
    BY <2>1 DEF ReleaseSelect, MayStart
  <2>4. req'[r] = h /\ \A q \in Requests : q # r => req'[q] = req[q]
    BY <2>2, <1>i
  <2>5. TypeOK' /\ NeverNegative'
    BY <2>2, <2>3 DEF TypeOK, NeverNegative
  <2>6. \A k \in Locations : ~mem[r][k].loaded
    BY <2>3 DEF ReferencesOK, RequestRefersOK, Idle
  <2>7. HeldFiguresLegal'
    BY <2>3, <2>4, <2>6 DEF HeldFiguresLegal
  <2>8. \A i \in batch : resv[i].key \in Locations
    BY DEF ReferencesOK, Active
  <2>9. ReferencesOK'
    BY <2>2, <2>3, <2>4, <2>8 DEF ReferencesOK, RequestRefersOK, Idle
  <2>10. QED
    BY <2>5, <2>7, <2>9
<1>5. ASSUME NEW r \in Requests, NEW i \in Requests, ReleaseOne(r, i) PROVE FiguresInv'
  <2>1. PICK k \in Locations : k = resv[i].key
    BY <1>5 DEF ReleaseOne, ReferencesOK, RequestRefersOK
  <2>2. PICK held \in StockRow, before \in StockRow :
           /\ held = IF mem[r][k].loaded THEN mem[r][k].after ELSE stock[k]
           /\ before = IF mem[r][k].loaded THEN mem[r][k].before ELSE stock[k]
    BY <1>i DEF Loaded
  <2>3. held.on_hand >= 0 /\ held.reserved \in Int /\ held.on_hand \in Int
    BY <2>2, <1>i DEF HeldFiguresLegal, StockRow
  <2>4. PICK m \in Loaded :
           /\ mem' = [mem EXCEPT ![r][k] = m]
           /\ m.after.on_hand >= 0 /\ m.after.reserved >= 0
    <3> DEFINE after == [held EXCEPT !.reserved = AtLeastZero(@ - resv[i].quantity)]
               m == [loaded |-> TRUE, before |-> before, after |-> after]
    <3>1. resv[i].quantity \in Nat
      BY <1>i DEF Reservation
    <3>2. after \in StockRow /\ after.on_hand >= 0 /\ after.reserved >= 0
      BY <2>3, <3>1 DEF AtLeastZero, StockRow
    <3>3. m \in Loaded
      BY <3>2 DEF Loaded
    <3>4. mem' = [mem EXCEPT ![r][k] = m]
      BY <1>5, <2>1, <2>2 DEF ReleaseOne
    <3>5. QED
      BY <3>2, <3>3, <3>4
  <2>5. PICK h \in Request : /\ req' = [req EXCEPT ![r] = h]
                             /\ h.kind = req[r].kind /\ h.stage = "computed" /\ h.key = k
                             /\ h.todo \subseteq req[r].todo /\ h.batch = req[r].batch
                             /\ h.amount = req[r].amount
    <3> DEFINE h == [req[r] EXCEPT !.stage = "computed", !.key = k, !.todo = @ \ {i}]
    <3>0. req[r] \in Request /\ "computed" \in Stage /\ req[r].todo \ {i} \subseteq Requests
      BY <1>i DEF Request, Stage
    <3>1. h \in Request /\ h.kind = req[r].kind /\ h.stage = "computed" /\ h.key = k
          /\ h.todo = req[r].todo \ {i} /\ h.batch = req[r].batch
          /\ h.amount = req[r].amount
      BY <3>0 DEF Request
    <3>2. req' = [req EXCEPT ![r] = h]
      BY <1>5, <2>1 DEF ReleaseOne
    <3>3. QED
      BY <3>1, <3>2
  <2>6. /\ mem'[r] = [mem[r] EXCEPT ![k] = m] /\ req'[r] = h
        /\ \A q \in Requests : q # r => mem'[q] = mem[q] /\ req'[q] = req[q]
        /\ UNCHANGED <<stock, resv, movements, counter>>
    BY <1>5, <2>4, <2>5, <1>i DEF ReleaseOne
  <2>7. TypeOK' /\ NeverNegative'
    BY <2>4, <2>5, <2>6 DEF TypeOK, NeverNegative
  <2>8. HeldFiguresLegal'
    <3>1. h.kind = "release"
      BY <1>5, <2>5 DEF ReleaseOne, ReferencesOK, RequestRefersOK
    <3>2. \A j \in Locations : mem'[r][j] = IF j = k THEN m ELSE mem[r][j]
      BY <2>6, <1>i
    <3>3. ASSUME NEW q \in Requests, NEW j \in Locations, mem'[q][j].loaded
          PROVE  /\ mem'[q][j].after.on_hand >= 0
                 /\ mem'[q][j].after.reserved >= 0
                 /\ req'[q].kind \in {"adjust", "reserve"} =>
                        mem'[q][j].after.reserved <= mem'[q][j].after.on_hand
      <4>1. CASE q # r
        BY <3>3, <4>1, <2>6 DEF HeldFiguresLegal
      <4>2. CASE q = r /\ j = k
        BY <4>2, <2>4, <2>5, <2>6, <3>1, <3>2
      <4>3. CASE q = r /\ j # k
        BY <3>3, <4>3, <2>5, <2>6, <3>1, <3>2 DEF HeldFiguresLegal
      <4>4. QED
        BY <4>1, <4>2, <4>3
    <3>4. QED
      BY <3>3 DEF HeldFiguresLegal
  <2>9. ReferencesOK'
    BY <2>5, <2>6 DEF ReferencesOK, RequestRefersOK, Idle
  <2>10. QED
    BY <2>7, <2>8, <2>9
<1>6. ASSUME NEW r \in Requests, SetCounter(r) PROVE FiguresInv'
  <2>1. req[r].key \in Locations /\ req[r].stage = "computed"
    BY <1>6 DEF SetCounter, ReferencesOK, RequestRefersOK
  <2>2. mem[r][req[r].key].after.on_hand - mem[r][req[r].key].after.reserved \in Int
    BY <2>1, <1>i DEF Loaded, StockRow
  <2>3. PICK s \in {"counted", "releasing"} :
           /\ req' = [req EXCEPT ![r].stage = s]
           /\ s = "releasing" => req[r].todo # {}
    BY <1>6 DEF SetCounter
  <2>4. TypeOK'
    <3>1. counter' \in [Locations -> Int]
      BY <1>6, <2>2 DEF SetCounter, TypeOK
    <3>2. req' \in [Requests -> Request]
      BY ZenonT(60), <2>3, <1>i, NoRequestOK DEF Request
    <3>3. QED
      BY <1>6, <3>1, <3>2 DEF SetCounter, TypeOK
  <2>5. NeverNegative' /\ HeldFiguresLegal'
    BY <1>6, <2>3, <1>i DEF SetCounter, NeverNegative, HeldFiguresLegal, Request
  <2>6. ReferencesOK'
    BY <1>6, <2>3, <1>i DEF SetCounter, ReferencesOK, RequestRefersOK, Idle, Request
  <2>7. QED
    BY <2>4, <2>5, <2>6
<1>7. ASSUME NEW r \in Requests, Commit(r) PROVE FiguresInv'
  <2> USE DEF Commit
  <2>1. Finish(r, "done")
    BY <1>7
  <2>2. stock' \in [Locations -> StockRow] /\ NeverNegative'
    <3>1. ASSUME NEW k \in Locations
          PROVE  /\ Written(stock[k], mem[r][k]) \in StockRow
                 /\ Written(stock[k], mem[r][k]).on_hand >= 0
                 /\ Written(stock[k], mem[r][k]).reserved >= 0
      <4>1. mem[r][k] \in Loaded /\ stock[k] \in StockRow
        BY <1>i
      <4>2. mem[r][k].loaded => mem[r][k].after.on_hand >= 0 /\ mem[r][k].after.reserved >= 0
        BY DEF HeldFiguresLegal
      <4>3. QED
        BY <4>1, <4>2, <1>i DEF Written, Loaded, StockRow
    <3>2. QED
      BY <1>7, <3>1 DEF NeverNegative
  <2>3. /\ resv' \in [Requests -> Reservation]
        /\ \A i \in Requests : resv[i].key \in Locations => resv'[i].key \in Locations
        /\ \A i \in Requests : resv'[i].status = "active" => resv'[i].key \in Locations
    <3>1. CASE req[r].kind = "reserve"
      <4> DEFINE v == [status |-> "active", key |-> req[r].key, order |-> req[r].order,
                       quantity |-> req[r].amount]
      <4>1. v \in Reservation /\ v.key \in Locations
        BY <3>1, <1>i DEF ReferencesOK, RequestRefersOK, Reservation, Request
      <4>2. resv' = [resv EXCEPT ![r] = v]
        BY <1>7, <3>1 DEF ReservationsAfter
      <4> HIDE DEF v
      <4>3. QED
        BY <4>1, <4>2, <1>i DEF ReferencesOK
    <3>2. CASE req[r].kind # "reserve"
      <4>1. resv' = [i \in Requests |-> IF i \in req[r].batch
                        THEN [resv[i] EXCEPT !.status = "released"] ELSE resv[i]]
        BY <1>7, <3>2 DEF ReservationsAfter
      <4>2. ASSUME NEW i \in Requests
            PROVE  /\ resv'[i] \in Reservation /\ resv'[i].key = resv[i].key
                   /\ resv'[i].status = "active" => resv[i].status = "active"
        <5>1. resv[i] \in Reservation /\ "released" \in {"none", "active", "released"}
          BY <1>i
        <5>2. CASE i \in req[r].batch
          BY <4>1, <5>1, <5>2 DEF Reservation
        <5>3. CASE i \notin req[r].batch
          BY <4>1, <5>1, <5>3
        <5>4. QED
          BY <5>2, <5>3
      <4>3. QED
        BY <4>1, <4>2 DEF ReferencesOK
    <3>3. QED
      BY <3>1, <3>2
  <2>4. movements' \subseteq [by : Requests, of : Requests, key : Locations, delta : Int]
    <3>1. RecordMovements(r) \subseteq
            [by : Requests, of : Requests, key : Locations, delta : Int]
      <4>1. /\ req[r].amount \in Int /\ req[r].batch \subseteq Requests
            /\ \A i \in Requests : resv[i].quantity \in Int
        BY <1>i DEF Request, Reservation
      <4>2. QED
        BY <4>1 DEF RecordMovements, Movement, ReferencesOK, RequestRefersOK
    <3>2. QED
      BY <1>7, <3>1 DEF TypeOK
  <2>5. TypeOK' /\ HeldFiguresLegal'
    BY <1>7, <2>1, <2>2, <2>3, <2>4, FinishKeepsHandlers DEF TypeOK
  <2>6. ReferencesOK'
    <3>1. \A q \in Requests : q # r => RequestRefersOK(q)'
      BY <2>1, <2>3, <1>i, FinishKeepsHandlers DEF ReferencesOK, RequestRefersOK, Request
    <3>2. RequestRefersOK(r)'
      BY <2>1, FinishKeepsHandlers DEF RequestRefersOK, NoRequest
    <3>3. QED
      BY <3>1, <3>2, <2>3 DEF ReferencesOK
  <2>7. QED
    BY <2>2, <2>5, <2>6
<1>8. ASSUME NEW r \in Requests, Fail(r) PROVE FiguresInv'
  <2>1. Finish(r, "failed") /\ UNCHANGED <<stock, resv, movements, counter>>
    BY <1>8 DEF Fail
  <2>2. TypeOK' /\ NeverNegative' /\ HeldFiguresLegal'
    BY <2>1, FinishKeepsHandlers DEF TypeOK, NeverNegative
  <2>3. ReferencesOK'
    BY SMTT(45), <2>1, FinishKeepsHandlers DEF ReferencesOK, RequestRefersOK, NoRequest
  <2>4. QED
    BY <2>2, <2>3
<1>9. CASE UNCHANGED vars
  BY <1>9 DEF vars, TypeOK, NeverNegative, HeldFiguresLegal, ReferencesOK, RequestRefersOK
<1>10. QED
  BY <1>1, <1>2, <1>3, <1>4, <1>5, <1>6, <1>7, <1>8, <1>9 DEF Next

(* Every state of the inventory service is well typed.                          *)
THEOREM TypeCorrect == Spec => []TypeOK
<1>1. FiguresInv => TypeOK
  BY DEF FiguresInv
<1>2. QED
  BY FiguresInit, FiguresStep, <1>1, PTL DEF Spec

(* Whatever the interleaving of requests and whichever die, no quantity on       *)
(* hand or reserved is ever negative.                                            *)
THEOREM FiguresNeverNegative == Spec => []NeverNegative
<1>1. FiguresInv => NeverNegative
  BY DEF FiguresInv
<1>2. QED
  BY FiguresInit, FiguresStep, <1>1, PTL DEF Spec

(* Whatever the interleaving, what a request is about to write is legal on its   *)
(* own: the checks of adjust_stock and reserve_stock hold of the row it saw.      *)
THEOREM FiguresHeldLegal == Spec => []HeldFiguresLegal
<1>1. FiguresInv => HeldFiguresLegal
  BY DEF FiguresInv
<1>2. QED
  BY FiguresInit, FiguresStep, <1>1, PTL DEF Spec

-----------------------------------------------------------------------------
(* One request at a time.                                                       *)

(* At most one request runs; the row it holds is the stored one, changed only    *)
(* by itself, and both are covered by the units on hand.                          *)
SerialInv ==
    /\ \A r, q \in Requests :
           r # q => req[r].stage \in Idle \/ req[q].stage \in Idle
    /\ \A r \in Requests, k \in Locations :
           mem[r][k].loaded =>
               /\ mem[r][k].before = stock[k]
               /\ mem[r][k].after.reserved <= mem[r][k].after.on_hand
    /\ ReservedOnHand

LEMMA SerialInit == Init => SerialInv
BY DEF Init, SerialInv, NoRequest, Idle, NotLoaded, NoStock, ReservedOnHand

LEMMA SerialStep ==
    ASSUME ~Overlap, FiguresInv, FiguresInv', SerialInv, [Next]_vars
    PROVE  SerialInv'
<1>i. /\ req \in [Requests -> Request] /\ resv \in [Requests -> Reservation]
      /\ stock \in [Locations -> StockRow]
      /\ mem \in [Requests -> [Locations -> Loaded]]
      /\ \A k \in Locations : stock[k].on_hand \in Int /\ stock[k].reserved \in Int
                              /\ stock[k].on_hand >= 0 /\ stock[k].reserved >= 0
  BY DEF FiguresInv, TypeOK, StockRow, NeverNegative
<1>1. ASSUME NEW r \in Requests, NEW k \in Locations, NEW after \in StockRow,
             MayStart(r), UNCHANGED stock, Hold(r, k, after),
             \A q \in Requests : q # r => req'[q] = req[q],
             after.reserved <= after.on_hand
      PROVE SerialInv'
  <2>1. \A q \in Requests, j \in Locations : ~mem[q][j].loaded
    BY <1>1 DEF MayStart, FiguresInv, ReferencesOK, RequestRefersOK
  <2>2. PICK m : /\ mem' = [mem EXCEPT ![r][k] = m]
                 /\ m.before = stock[k] /\ m.after.reserved <= m.after.on_hand
    <3> DEFINE row == [after EXCEPT !.present = TRUE]
               m == [loaded |-> TRUE, before |-> stock[k], after |-> row]
    <3>1. row.reserved = after.reserved /\ row.on_hand = after.on_hand
      BY DEF StockRow
    <3>2. m.before = stock[k] /\ m.after = row
      OBVIOUS
    <3>3. mem' = [mem EXCEPT ![r][k] = m]
      BY <1>1 DEF Hold
    <3> HIDE DEF row, m
    <3>4. m.after.reserved <= m.after.on_hand
      BY <1>1, <3>1, <3>2
    <3>5. QED
      BY <3>2, <3>3, <3>4
  <2>3. \A q \in Requests, j \in Locations :
           mem'[q][j] = IF q = r /\ j = k THEN m ELSE mem[q][j]
    BY <2>2, <1>i
  <2>4. \A q, p \in Requests : q # p => req'[q].stage \in Idle \/ req'[p].stage \in Idle
    BY <1>1 DEF MayStart, SerialInv
  <2>5. \A q \in Requests, j \in Locations :
           mem'[q][j].loaded =>
               /\ mem'[q][j].before = stock'[j]
               /\ mem'[q][j].after.reserved <= mem'[q][j].after.on_hand
    BY <2>1, <2>2, <2>3, <1>1
  <2>6. ReservedOnHand'
    BY <1>1 DEF SerialInv, ReservedOnHand
  <2>7. QED
    BY <2>4, <2>5, <2>6 DEF SerialInv
<1>2. ASSUME NEW r \in Requests, NEW k \in Locations, NEW delta \in Deltas,
             AdjustRead(r, k, delta)
      PROVE SerialInv'
  <2>0. delta \in Int /\ stock[k].on_hand + delta \in Int
    BY <1>i, InventoryAssumption
  <2>1. PICK after \in StockRow : after = [stock[k] EXCEPT !.on_hand = stock[k].on_hand + delta]
    <3>1. [stock[k] EXCEPT !.on_hand = stock[k].on_hand + delta] \in StockRow
      BY <2>0, <1>i DEF StockRow
    <3>2. QED
      BY <3>1
  <2>2. after.on_hand = stock[k].on_hand + delta /\ after.reserved = stock[k].reserved
    BY <2>1, <1>i DEF StockRow
  <2>3. after.reserved <= after.on_hand
    BY <1>2, <2>0, <2>2, <1>i DEF AdjustRead, AdjustmentAllowed
  <2>4. Hold(r, k, after) /\ MayStart(r) /\ UNCHANGED stock
    BY <1>2, <2>1 DEF AdjustRead
  <2>5. \A q \in Requests : q # r => req'[q] = req[q]
    BY <1>2, <1>i DEF AdjustRead, Begin
  <2>6. QED
    BY <2>3, <2>4, <2>5, <1>1
<1>3. ASSUME NEW r \in Requests, NEW k \in Locations, NEW n \in Quantities,
             NEW o \in OrderIds, ReserveRead(r, k, n, o)
      PROVE SerialInv'
  <2>0. n \in Nat
    BY InventoryAssumption
  <2>1. PICK after \in StockRow : after = [stock[k] EXCEPT !.reserved = @ + n]
    <3>1. [stock[k] EXCEPT !.reserved = @ + n] \in StockRow
      BY <2>0, <1>i DEF StockRow
    <3>2. QED
      BY <3>1
  <2>2. after.on_hand = stock[k].on_hand /\ after.reserved = stock[k].reserved + n
    BY <2>1, <1>i DEF StockRow
  <2>3. after.reserved <= after.on_hand
    BY <1>3, <2>0, <2>2, <1>i DEF ReserveRead, EnoughAvailable
  <2>4. Hold(r, k, after) /\ MayStart(r) /\ UNCHANGED stock
    BY <1>3, <2>1 DEF ReserveRead
  <2>5. \A q \in Requests : q # r => req'[q] = req[q]
    BY <1>3, <1>i DEF ReserveRead, Begin
  <2>6. QED
    BY <2>3, <2>4, <2>5, <1>1
<1>4. ASSUME NEW r \in Requests, NEW k \in Locations, ReorderRead(r, k) PROVE SerialInv'
  <2>1. PICK after \in StockRow : after = stock[k]
    BY <1>i
  <2>2. Hold(r, k, after) /\ MayStart(r) /\ UNCHANGED stock
    BY <1>4, <2>1 DEF ReorderRead
  <2>3. \A q \in Requests : q # r => req'[q] = req[q]
    BY <1>4, <1>i DEF ReorderRead, Begin
  <2>4. QED
    BY <2>1, <2>2, <2>3, <1>1 DEF SerialInv, ReservedOnHand
<1>5. ASSUME NEW r \in Requests, ReleaseById(r) \/ ReleaseByOrder(r) PROVE SerialInv'
  <2>1. PICK batch \in SUBSET Active : ReleaseSelect(r, batch)
    BY <1>5 DEF ReleaseById, ReleaseByOrder
  <2>2. /\ UNCHANGED <<stock, mem>> /\ \A q \in Requests : q # r => req'[q] = req[q]
        /\ \A q \in Requests : q # r => req[q].stage \in Idle
    BY <2>1, <1>i DEF ReleaseSelect, MayStart
  <2>3. QED
    BY <2>2 DEF SerialInv, ReservedOnHand
<1>6. ASSUME NEW r \in Requests, NEW i \in Requests, ReleaseOne(r, i) PROVE SerialInv'
  <2>1. PICK k \in Locations : k = resv[i].key
    BY <1>6 DEF ReleaseOne, FiguresInv, ReferencesOK, RequestRefersOK
  <2>2. PICK held \in StockRow :
           held = IF mem[r][k].loaded THEN mem[r][k].after ELSE stock[k]
    BY <1>i DEF Loaded
  <2>3. /\ held.reserved <= held.on_hand /\ held.on_hand >= 0
        /\ held.reserved \in Int /\ held.on_hand \in Int
    BY <2>2, <1>i DEF SerialInv, ReservedOnHand, FiguresInv, HeldFiguresLegal, StockRow
  <2>4. PICK m : /\ mem' = [mem EXCEPT ![r][k] = m]
                 /\ m.before = stock[k] /\ m.after.reserved <= m.after.on_hand
    <3> DEFINE before == IF mem[r][k].loaded THEN mem[r][k].before ELSE stock[k]
               after == [held EXCEPT !.reserved = AtLeastZero(@ - resv[i].quantity)]
               m == [loaded |-> TRUE, before |-> before, after |-> after]
    <3>1. resv[i].quantity \in Nat
      BY <1>i DEF Reservation
    <3>2. after.reserved <= after.on_hand
      BY <2>3, <3>1 DEF AtLeastZero, StockRow
    <3>3. before = stock[k]
      BY DEF SerialInv
    <3>4. mem' = [mem EXCEPT ![r][k] = m]
      BY <1>6, <2>1, <2>2 DEF ReleaseOne
    <3>5. m.before = stock[k] /\ m.after.reserved <= m.after.on_hand
      BY <3>2, <3>3
    <3>6. QED
      BY <3>4, <3>5
  <2>5. \A q \in Requests, j \in Locations :
           mem'[q][j] = IF q = r /\ j = k THEN m ELSE mem[q][j]
    BY <2>4, <1>i
  <2>6. /\ UNCHANGED stock /\ \A q \in Requests : q # r => req'[q] = req[q]
        /\ req[r].stage \notin Idle
    BY <1>6, <1>i DEF ReleaseOne, Idle
  <2>7. QED
    BY <2>4, <2>5, <2>6 DEF SerialInv, ReservedOnHand
<1>7. ASSUME NEW r \in Requests, SetCounter(r) PROVE SerialInv'
  <2>1. /\ UNCHANGED <<stock, mem>> /\ \A q \in Requests : q # r => req'[q] = req[q]
        /\ req[r].stage \notin Idle
    BY <1>7, <1>i DEF SetCounter, Idle
  <2>2. QED
    BY <2>1 DEF SerialInv, ReservedOnHand
<1>8. ASSUME NEW r \in Requests, Commit(r) PROVE SerialInv'
  <2>1. /\ req[r].stage \notin Idle
        /\ \A q \in Requests : q # r => req'[q] = req[q] /\ mem'[q] = mem[q]
        /\ \A j \in Locations : ~mem'[r][j].loaded
    BY <1>8, FinishKeepsHandlers DEF Commit, Idle
  <2>2. \A q \in Requests, j \in Locations : ~mem'[q][j].loaded
    BY <2>1 DEF SerialInv, FiguresInv, ReferencesOK, RequestRefersOK
  <2>3. ReservedOnHand'
    <3>1. ASSUME NEW k \in Locations
          PROVE Written(stock[k], mem[r][k]).reserved <= Written(stock[k], mem[r][k]).on_hand
      <4>1. CASE ~mem[r][k].loaded
        BY <4>1 DEF Written, SerialInv, ReservedOnHand
      <4>2. CASE mem[r][k].loaded
        <5>1. /\ Written(stock[k], mem[r][k]).on_hand = mem[r][k].after.on_hand
              /\ Written(stock[k], mem[r][k]).reserved = mem[r][k].after.reserved
          BY <4>2 DEF Written, SerialInv
        <5>2. QED
          BY <4>2, <5>1 DEF SerialInv
      <4>3. QED
        BY <4>1, <4>2
    <3>2. \A k \in Locations : stock'[k] = Written(stock[k], mem[r][k])
      BY <1>8 DEF Commit
    <3>3. QED
      BY <3>1, <3>2 DEF ReservedOnHand
  <2>4. QED
    BY <2>1, <2>2, <2>3 DEF SerialInv
<1>9. ASSUME NEW r \in Requests, Fail(r) PROVE SerialInv'
  <2>1. /\ req[r].stage \notin Idle /\ UNCHANGED stock
        /\ \A q \in Requests : q # r => req'[q] = req[q] /\ mem'[q] = mem[q]
        /\ \A j \in Locations : ~mem'[r][j].loaded
    BY <1>9, FinishKeepsHandlers DEF Fail
  <2>2. QED
    BY <2>1 DEF SerialInv, ReservedOnHand
<1>10. CASE UNCHANGED vars
  BY <1>10 DEF vars, SerialInv, ReservedOnHand
<1>11. QED
  BY <1>2, <1>3, <1>4, <1>5, <1>6, <1>7, <1>8, <1>9, <1>10 DEF Next

(* With one request at a time, the checks of adjust_stock and reserve_stock and  *)
(* the clamp of release_reservation keep every reserved unit on hand.            *)
THEOREM ReservedStayOnHand == ASSUME ~Overlap PROVE Spec => []ReservedOnHand
<1>1. Init => FiguresInv /\ SerialInv
  BY FiguresInit, SerialInit
<1>2. FiguresInv /\ SerialInv /\ [Next]_vars => (FiguresInv /\ SerialInv)'
  BY FiguresStep, SerialStep
<1>3. SerialInv => ReservedOnHand
  BY DEF SerialInv
<1>4. QED
  BY <1>1, <1>2, <1>3, PTL DEF Spec

-----------------------------------------------------------------------------
(* One request at a time: where every figure comes from.                        *)

Started == {r \in Requests : req[r].stage # "new"}

Units == [i \in Requests |-> resv[i].quantity]

Claims(k) == {i \in Active : resv[i].key = k}

(* The reservations of its batch that a release has already given back in memory. *)
Handled(r, k) == {i \in req[r].batch \ req[r].todo : resv[i].key = k}

OnHandChange(r, k) == IF req[r].kind = "adjust" /\ k = req[r].key THEN req[r].amount ELSE 0

ReservedChange(r, k) ==
    IF req[r].kind = "reserve" /\ k = req[r].key THEN req[r].amount
    ELSE -SumFunctionOnSet(Units, Handled(r, k))

(* A running request holds every row that it changes, changed by exactly what it  *)
(* was asked for so far.                                                           *)
RunningExplained(r) ==
    /\ req[r].kind # "none"
    /\ req[r].kind # "release" => req[r].batch = {}
    /\ req[r].kind = "release" => req[r].batch # {} /\ req[r].batch \subseteq Active
    /\ req[r].stage = "counted" => req[r].todo = {}
    /\ req[r].stage = "computed" => mem[r][req[r].key].loaded
    /\ req[r].kind = "reserve" => req[r].amount > 0
    /\ \A k \in Locations :
           /\ mem[r][k].loaded =>
                  /\ mem[r][k].after.on_hand = stock[k].on_hand + OnHandChange(r, k)
                  /\ mem[r][k].after.reserved = stock[k].reserved + ReservedChange(r, k)
           /\ ~mem[r][k].loaded =>
                  /\ req[r].kind \in {"adjust", "reserve"} => k # req[r].key
                  /\ Handled(r, k) = {}

Moves == [m \in movements |-> m.delta]

MovesAt(k) == {m \in movements : m.key = k}

Explained(k) ==
    /\ stock[k].reserved = SumFunctionOnSet(Units, Claims(k))
    /\ SumFunctionOnSet(Moves, MovesAt(k)) = stock[k].on_hand - stock[k].reserved

(* What is stored is explained by the requests that are done.                      *)
StoredExplained ==
    /\ IsFiniteSet(Started) /\ IsFiniteSet(movements)
    /\ \A i \in Requests : resv[i].status # "none" => req[i].stage = "done"
    /\ \A i \in Active : resv[i].quantity > 0
    /\ \A m \in movements : req[m.by].stage = "done"
    /\ \A k \in Locations : Explained(k)

ExplainedInv ==
    /\ StoredExplained
    /\ \A r \in Requests : req[r].stage \notin Idle => RunningExplained(r)

LEMMA ExplainedImplies ==
    StoredExplained => /\ LedgerExplainsStock
                       /\ \A k \in Locations : stock[k].reserved = Promised(k)
BY DEF Promised, Units, Claims, StoredExplained, Explained, LedgerExplainsStock, Moves, MovesAt

(* The sums in the invariant are over finite sets of natural numbers.               *)
LEMMA ClaimsAreFinite ==
    ASSUME TypeOK, StoredExplained
    PROVE  /\ IsFiniteSet(Active)
           /\ \A k : IsFiniteSet(Claims(k))
           /\ \A i \in Requests : Units[i] = resv[i].quantity /\ Units[i] \in Nat
           /\ Active \subseteq Requests
<1>1. Active \in SUBSET Started
  BY DEF Active, Started, StoredExplained
<1>2. IsFiniteSet(Active)
  BY <1>1, FS_Subset DEF StoredExplained
<1>3. \A k : Claims(k) \in SUBSET Active
  BY DEF Claims
<1>4. \A k : IsFiniteSet(Claims(k))
  BY <1>2, <1>3, FS_Subset
<1>5. \A i \in Requests : Units[i] = resv[i].quantity /\ Units[i] \in Nat
  BY DEF Units, TypeOK, Reservation
<1> QED
  BY <1>2, <1>4, <1>5 DEF Active

LEMMA ExplainedInit == Init => ExplainedInv
<1> SUFFICES ASSUME Init PROVE ExplainedInv
  OBVIOUS
<1>1. Started = {} /\ movements = {} /\ Active = {}
  BY DEF Init, Started, Active, NoRequest, NoReservation
<1>2. ASSUME NEW k \in Locations PROVE Explained(k)
  <2>1. Claims(k) = {} /\ MovesAt(k) = {} /\ stock[k].reserved = 0 /\ stock[k].on_hand = 0
    BY <1>1 DEF Claims, MovesAt, Init, NoStock
  <2> QED
    BY <2>1, SumOfNothing DEF Explained
<1>5. StoredExplained
  BY <1>1, <1>2, FS_EmptySet DEF StoredExplained, Init, NoReservation
<1> QED
  BY <1>5 DEF ExplainedInv, Init, NoRequest, Idle

(* Steps that commit nothing leave what is stored explained.                        *)
LEMMA StoredStaysExplained ==
    ASSUME TypeOK, StoredExplained, NEW r \in Requests, NEW h \in Request,
           req' = [req EXCEPT ![r] = h],
           req[r].stage # "done", h.stage # "new",
           UNCHANGED <<stock, resv, movements>>
    PROVE  StoredExplained'
<1>1. \A q \in Requests : q # r => req'[q] = req[q]
  BY DEF TypeOK
<1>2. IsFiniteSet(Started')
  <2>1. Started' = Started \cup {r}
    BY <1>1 DEF Started, TypeOK
  <2> QED
    BY <2>1, FS_AddElement DEF StoredExplained
<1>3. \A i \in Requests : resv[i].status # "none" => req'[i].stage = "done"
  BY <1>1 DEF StoredExplained
<1>4. \A m \in movements : req'[m.by].stage = "done"
  BY <1>1 DEF StoredExplained, TypeOK
<1>5. Active' = Active /\ \A k \in Locations : Explained(k)' = Explained(k)
  BY DEF Active, Explained, Units, Claims, Moves, MovesAt
<1> QED
  BY <1>2, <1>3, <1>4, <1>5 DEF StoredExplained

(* The other handlers are idle, so only one request has anything to explain.        *)
LEMMA OnlyOneExplains ==
    ASSUME TypeOK, SerialInv, NEW r \in Requests, NEW h \in Request,
           req' = [req EXCEPT ![r] = h],
           req[r].stage \notin Idle \/ \A q \in Requests : req[q].stage \in Idle,
           StoredExplained', h.stage \notin Idle => RunningExplained(r)'
    PROVE  ExplainedInv'
<1>1. ASSUME NEW q \in Requests, req'[q].stage \notin Idle PROVE RunningExplained(q)'
  <2>1. q = r
    BY <1>1 DEF TypeOK, SerialInv
  <2> QED
    BY <1>1, <2>1 DEF TypeOK
<1> QED
  BY <1>1 DEF ExplainedInv

LEMMA StartKeepsExplained ==
    ASSUME FiguresInv, SerialInv, ExplainedInv, ~Overlap,
           NEW r \in Requests, MayStart(r), NEW k \in Locations, NEW after \in StockRow,
           NEW stage \in {"computed", "counted"}, NEW kind \in {"adjust", "reserve", "reorder"},
           NEW amount \in Int, NEW o \in OrderIds \cup {Nothing},
           Hold(r, k, after), Begin(r, stage, kind, k, amount, o),
           after.on_hand = stock[k].on_hand + (IF kind = "adjust" THEN amount ELSE 0),
           after.reserved = stock[k].reserved + (IF kind = "reserve" THEN amount ELSE 0),
           kind = "reserve" => amount > 0,
           UNCHANGED <<stock, resv, movements>>
    PROVE  ExplainedInv'
<1>1. PICK h \in Request :
         /\ req' = [req EXCEPT ![r] = h] /\ h.kind = kind /\ h.key = k
         /\ h.todo = {} /\ h.batch = {} /\ h.amount = amount /\ h.stage = stage
  <2> DEFINE h == [NoRequest EXCEPT !.stage = stage, !.kind = kind, !.key = k,
                                    !.amount = amount, !.order = o]
  <2>1. h \in Request /\ h.kind = kind /\ h.key = k /\ h.todo = {} /\ h.batch = {}
        /\ h.amount = amount /\ h.stage = stage
    BY DEF Request, NoRequest, Kind, Stage, Idle
  <2> QED
    BY <2>1 DEF Begin
<1>2. PICK m : /\ mem' = [mem EXCEPT ![r][k] = m] /\ m.loaded
               /\ m.after.on_hand = after.on_hand /\ m.after.reserved = after.reserved
  <2> DEFINE m == [loaded |-> TRUE, before |-> stock[k],
                   after |-> [after EXCEPT !.present = TRUE]]
  <2>1. m.loaded /\ m.after.on_hand = after.on_hand /\ m.after.reserved = after.reserved
    BY DEF StockRow
  <2> QED
    BY <2>1 DEF Hold
<1>3. TypeOK /\ req[r].stage = "new" /\ \A q \in Requests : req[q].stage \in Idle
  BY DEF FiguresInv, MayStart
<1>4. StoredExplained'
  BY <1>1, <1>3, StoredStaysExplained DEF ExplainedInv
<1>5. /\ req'[r] = h
      /\ \A j \in Locations : mem'[r][j] = IF j = k THEN m ELSE mem[r][j]
      /\ \A j \in Locations : ~mem[r][j].loaded
  BY <1>1, <1>2, <1>3 DEF TypeOK, FiguresInv, ReferencesOK, RequestRefersOK
<1>6. \A j : Handled(r, j)' = {}
  BY <1>1, <1>5 DEF Handled
<1>7. \A j : /\ OnHandChange(r, j)' = IF kind = "adjust" /\ j = k THEN amount ELSE 0
             /\ ReservedChange(r, j)' = IF kind = "reserve" /\ j = k THEN amount ELSE 0
  <2>1. \A j : SumFunctionOnSet(Units', Handled(r, j)') = 0
    BY <1>6, SumOfNothing
  <2> HIDE DEF Handled, Units
  <2> QED
    BY <1>1, <1>5, <2>1 DEF OnHandChange, ReservedChange
<1>8. RunningExplained(r)'
  BY <1>1, <1>2, <1>5, <1>6, <1>7 DEF RunningExplained
<1> QED
  BY <1>1, <1>3, <1>4, <1>8, OnlyOneExplains

LEMMA SelectKeepsExplained ==
    ASSUME FiguresInv, SerialInv, ExplainedInv, ~Overlap,
           NEW r \in Requests, NEW batch \in SUBSET Active, ReleaseSelect(r, batch)
    PROVE  ExplainedInv'
<1>1. PICK h \in Request : /\ req' = [req EXCEPT ![r] = h]
                           /\ h.kind = "release" /\ h.stage = "releasing"
                           /\ h.todo = batch /\ h.batch = batch
  <2> DEFINE h == [NoRequest EXCEPT !.stage = "releasing", !.kind = "release",
                                    !.todo = batch, !.batch = batch]
  <2>1. batch \subseteq Requests
    BY DEF Active
  <2>2. h \in Request /\ h.kind = "release" /\ h.stage = "releasing"
        /\ h.todo = batch /\ h.batch = batch
    BY <2>1, NoRequestOK DEF Request, Kind
  <2> QED
    BY <2>2 DEF ReleaseSelect
<1>2. TypeOK /\ req[r].stage = "new" /\ \A q \in Requests : req[q].stage \in Idle
  BY DEF FiguresInv, ReleaseSelect, MayStart
<1>3. UNCHANGED <<stock, resv, movements, mem>> /\ batch # {}
  BY DEF ReleaseSelect
<1>4. StoredExplained'
  BY <1>1, <1>2, <1>3, StoredStaysExplained DEF ExplainedInv
<1>5. req'[r] = h /\ \A j \in Locations : ~mem'[r][j].loaded
  BY <1>1, <1>2, <1>3 DEF TypeOK, FiguresInv, ReferencesOK, RequestRefersOK
<1>6. \A j : Handled(r, j)' = {}
  BY <1>1, <1>5 DEF Handled
<1>7. RunningExplained(r)'
  BY <1>1, <1>3, <1>5, <1>6 DEF RunningExplained, Active
<1> QED
  BY <1>1, <1>2, <1>4, <1>7, OnlyOneExplains

(* A release never reaches the clamp at zero: what it gives back is reserved.       *)
LEMMA ReleaseOneKeepsExplained ==
    ASSUME FiguresInv, SerialInv, ExplainedInv,
           NEW r \in Requests, NEW i \in Requests, ReleaseOne(r, i)
    PROVE  ExplainedInv'
<1>1. /\ TypeOK /\ StoredExplained /\ RunningExplained(r)
      /\ req[r].stage = "releasing" /\ req[r].kind = "release"
      /\ i \in req[r].todo /\ req[r].todo \subseteq req[r].batch
      /\ req[r].batch \subseteq Active
      /\ resv[i].key \in Locations /\ req[r] \in Request
      /\ UNCHANGED <<stock, resv, movements>>
  BY DEF ReleaseOne, FiguresInv, ReferencesOK, RequestRefersOK, ExplainedInv, RunningExplained,
         Idle, TypeOK
<1>2. PICK k \in Locations : k = resv[i].key
  BY <1>1
<1>3. PICK h \in Request :
         /\ req' = [req EXCEPT ![r] = h] /\ h.kind = "release" /\ h.key = k
         /\ h.todo = req[r].todo \ {i} /\ h.batch = req[r].batch /\ h.stage = "computed"
  <2> DEFINE h == [req[r] EXCEPT !.stage = "computed", !.key = k, !.todo = @ \ {i}]
  <2>1. h \in Request /\ h.kind = "release" /\ h.key = k
        /\ h.todo = req[r].todo \ {i} /\ h.batch = req[r].batch /\ h.stage = "computed"
    BY <1>1, NoRequestOK DEF Request
  <2>2. req' = [req EXCEPT ![r] = h]
    BY <1>1, <1>2 DEF ReleaseOne, TypeOK
  <2> QED
    BY <2>1, <2>2
<1>4. PICK held \in StockRow :
         /\ held = IF mem[r][k].loaded THEN mem[r][k].after ELSE stock[k]
         /\ held.on_hand = stock[k].on_hand
         /\ held.reserved = stock[k].reserved - SumFunctionOnSet(Units, Handled(r, k))
  <2>1. (IF mem[r][k].loaded THEN mem[r][k].after ELSE stock[k]) \in StockRow
    BY <1>1 DEF TypeOK, Loaded
  <2>2. OnHandChange(r, k) = 0
        /\ ReservedChange(r, k) = -SumFunctionOnSet(Units, Handled(r, k))
    BY <1>1 DEF OnHandChange, ReservedChange
  <2>3. SumFunctionOnSet(Units, {}) = 0
    BY SumOfNothing
  <2>4. /\ SumFunctionOnSet(Units, Handled(r, k)) \in Int
        /\ stock[k].on_hand \in Int /\ stock[k].reserved \in Int
    <3>1. Handled(r, k) \in SUBSET Claims(k)
      BY <1>1 DEF Handled, Claims
    <3>2. IsFiniteSet(Handled(r, k)) /\ \A j \in Handled(r, k) : Units[j] \in Int
      BY <1>1, <3>1, ClaimsAreFinite, FS_Subset DEF Claims
    <3> QED
      BY <1>1, <3>2, SumIsInt DEF TypeOK, StockRow
  <2>5. CASE mem[r][k].loaded
    BY <1>1, <2>1, <2>2, <2>4, <2>5 DEF RunningExplained
  <2>6. CASE ~mem[r][k].loaded
    <3>1. Handled(r, k) = {}
      BY <1>1, <2>6 DEF RunningExplained
    <3> QED
      BY <2>1, <2>3, <2>4, <2>6, <3>1
  <2> QED
    BY <2>5, <2>6
<1>5. /\ Units[i] = resv[i].quantity
      /\ Handled(r, k) \cup {i} \in SUBSET Claims(k)
      /\ SumFunctionOnSet(Units, Handled(r, k)) \in Nat
      /\ SumFunctionOnSet(Units, Handled(r, k) \cup {i})
           = SumFunctionOnSet(Units, Handled(r, k)) + Units[i]
      /\ SumFunctionOnSet(Units, Handled(r, k) \cup {i}) <= stock[k].reserved
      /\ Units[i] \in Nat
  <2>1. Handled(r, k) \cup {i} \in SUBSET Claims(k) /\ i \notin Handled(r, k)
    BY <1>1, <1>2 DEF Handled, Claims
  <2>2. IsFiniteSet(Claims(k)) /\ \A j \in Claims(k) : Units[j] \in Nat
    BY <1>1, ClaimsAreFinite DEF Claims
  <2>3. SumFunctionOnSet(Units, Handled(r, k) \cup {i})
          <= SumFunctionOnSet(Units, Claims(k))
    BY <2>1, <2>2, SumOfSubset
  <2>4. IsFiniteSet(Handled(r, k)) /\ \A j \in Handled(r, k) \cup {i} : Units[j] \in Nat
    BY <2>1, <2>2, FS_Subset
  <2>5. SumFunctionOnSet(Units, Handled(r, k)) \in Nat
    BY <2>4, SumIsNat
  <2>6. SumFunctionOnSet(Units, Handled(r, k) \cup {i})
          = SumFunctionOnSet(Units, Handled(r, k)) + Units[i]
    BY <2>1, <2>4, SumPutsIn
  <2>7. stock[k].reserved = SumFunctionOnSet(Units, Claims(k))
    BY <1>1 DEF StoredExplained, Explained
  <2> QED
    BY <1>1, <2>1, <2>2, <2>3, <2>5, <2>6, <2>7, ClaimsAreFinite
<1>6. PICK m : /\ mem' = [mem EXCEPT ![r][k] = m] /\ m.loaded
               /\ m.after.on_hand = held.on_hand
               /\ m.after.reserved = AtLeastZero(held.reserved - resv[i].quantity)
  <2> DEFINE m == [loaded |-> TRUE,
                   before |-> IF mem[r][k].loaded THEN mem[r][k].before ELSE stock[k],
                   after |-> [held EXCEPT !.reserved = AtLeastZero(@ - resv[i].quantity)]]
  <2>1. /\ m.loaded /\ m.after.on_hand = held.on_hand
        /\ m.after.reserved = AtLeastZero(held.reserved - resv[i].quantity)
    BY DEF StockRow
  <2>2. mem' = [mem EXCEPT ![r][k] = m]
    BY <1>2, <1>4 DEF ReleaseOne
  <2> QED
    BY <2>1, <2>2
<1>7. m.after.reserved
        = stock[k].reserved - SumFunctionOnSet(Units, Handled(r, k) \cup {i})
  <2>1. stock[k].reserved \in Int
    BY <1>1 DEF TypeOK, StockRow
  <2> QED
    BY <1>4, <1>5, <1>6, <2>1 DEF AtLeastZero
<1>8. StoredExplained'
  BY <1>1, <1>3, StoredStaysExplained
<1>9. /\ req'[r] = h
      /\ \A j \in Locations : mem'[r][j] = IF j = k THEN m ELSE mem[r][j]
      /\ Units' = Units
  BY <1>1, <1>3, <1>6 DEF TypeOK, Units
<1>10. \A j \in Locations :
          Handled(r, j)' = IF j = k THEN Handled(r, k) \cup {i} ELSE Handled(r, j)
  BY <1>1, <1>2, <1>3, <1>9 DEF Handled
<1>11. ASSUME NEW j \in Locations
       PROVE  /\ OnHandChange(r, j)' = 0 /\ OnHandChange(r, j) = 0
              /\ ReservedChange(r, j) = -SumFunctionOnSet(Units, Handled(r, j))
              /\ ReservedChange(r, j)' =
                   -SumFunctionOnSet(Units, IF j = k THEN Handled(r, k) \cup {i}
                                            ELSE Handled(r, j))
  BY <1>1, <1>3, <1>9, <1>10 DEF OnHandChange, ReservedChange
<1>12. ASSUME NEW j \in Locations
       PROVE  /\ mem'[r][j].loaded =>
                   /\ mem'[r][j].after.on_hand = stock'[j].on_hand + OnHandChange(r, j)'
                   /\ mem'[r][j].after.reserved = stock'[j].reserved + ReservedChange(r, j)'
              /\ ~mem'[r][j].loaded => Handled(r, j)' = {}
  <2>1. CASE j = k
    <3>1. mem'[r][j] = m /\ m.loaded
      BY <1>6, <1>9, <2>1
    <3>2. /\ m.after.on_hand = stock[k].on_hand /\ stock[k].on_hand \in Int
          /\ m.after.reserved
               = stock[k].reserved - SumFunctionOnSet(Units, Handled(r, k) \cup {i})
          /\ SumFunctionOnSet(Units, Handled(r, k) \cup {i}) \in Int
          /\ stock[k].reserved \in Int
      BY <1>1, <1>4, <1>5, <1>6, <1>7 DEF TypeOK, StockRow
    <3>3. /\ OnHandChange(r, j)' = 0 /\ stock' = stock
          /\ ReservedChange(r, j)' = -SumFunctionOnSet(Units, Handled(r, k) \cup {i})
      BY <1>1, <1>11, <2>1
    <3> HIDE DEF OnHandChange, ReservedChange, Handled, Units
    <3> QED
      BY <2>1, <3>1, <3>2, <3>3
  <2>2. CASE j # k
    <3>1. mem'[r][j] = mem[r][j] /\ Handled(r, j)' = Handled(r, j)
      BY <1>9, <1>10, <2>2
    <3> QED
      BY <1>1, <1>11, <2>2, <3>1 DEF RunningExplained
  <2> QED
    BY <2>1, <2>2
<1>13. RunningExplained(r)'
  BY <1>1, <1>3, <1>6, <1>9, <1>12 DEF RunningExplained, Active
<1> QED
  BY <1>1, <1>3, <1>8, <1>13, OnlyOneExplains DEF Idle

LEMMA SetCounterKeepsExplained ==
    ASSUME FiguresInv, SerialInv, ExplainedInv, NEW r \in Requests, SetCounter(r)
    PROVE  ExplainedInv'
<1>1. /\ TypeOK /\ StoredExplained /\ RunningExplained(r)
      /\ req[r].stage = "computed" /\ req[r] \in Request
      /\ UNCHANGED <<stock, resv, movements, mem>>
  BY DEF SetCounter, FiguresInv, ExplainedInv, Idle, TypeOK
<1>2. PICK h \in Request :
         /\ req' = [req EXCEPT ![r] = h] /\ h.kind = req[r].kind /\ h.key = req[r].key
         /\ h.todo = req[r].todo /\ h.batch = req[r].batch /\ h.amount = req[r].amount
         /\ h.stage = IF req[r].todo = {} THEN "counted" ELSE "releasing"
  <2> DEFINE h == [req[r] EXCEPT !.stage = IF req[r].todo = {} THEN "counted" ELSE "releasing"]
  <2>1. h \in Request /\ h.kind = req[r].kind /\ h.key = req[r].key
        /\ h.todo = req[r].todo /\ h.batch = req[r].batch /\ h.amount = req[r].amount
        /\ h.stage = IF req[r].todo = {} THEN "counted" ELSE "releasing"
    BY <1>1, NoRequestOK DEF Request
  <2>2. req' = [req EXCEPT ![r] = h]
    BY <1>1 DEF SetCounter, TypeOK
  <2> QED
    BY <2>1, <2>2
<1>3. StoredExplained'
  BY <1>1, <1>2, StoredStaysExplained
<1>4. req'[r] = h /\ Units' = Units /\ Active' = Active
  BY <1>1, <1>2 DEF TypeOK, Units, Active
<1>5. \A j : Handled(r, j)' = Handled(r, j)
  BY <1>1, <1>2, <1>4 DEF Handled
<1>6. \A j : OnHandChange(r, j)' = OnHandChange(r, j)
             /\ ReservedChange(r, j)' = ReservedChange(r, j)
  BY <1>2, <1>4, <1>5 DEF OnHandChange, ReservedChange
<1>7. RunningExplained(r)'
  BY <1>1, <1>2, <1>4, <1>5, <1>6 DEF RunningExplained
<1> QED
  BY <1>1, <1>2, <1>3, <1>7, OnlyOneExplains DEF Idle

LEMMA FailKeepsExplained ==
    ASSUME FiguresInv, SerialInv, ExplainedInv, NEW r \in Requests, Fail(r)
    PROVE  ExplainedInv'
<1>1. /\ TypeOK /\ StoredExplained /\ req[r].stage \notin Idle
      /\ UNCHANGED <<stock, resv, movements>>
  BY DEF Fail, FiguresInv, ExplainedInv
<1>2. PICK h \in Request : req' = [req EXCEPT ![r] = h] /\ h.stage = "failed"
  <2>1. [NoRequest EXCEPT !.stage = "failed"] \in Request
        /\ [NoRequest EXCEPT !.stage = "failed"].stage = "failed"
    BY NoRequestOK DEF NoRequest
  <2> QED
    BY <2>1 DEF Fail, Finish
<1>3. StoredExplained'
  BY <1>1, <1>2, StoredStaysExplained DEF Idle
<1> QED
  BY <1>1, <1>2, <1>3, OnlyOneExplains DEF Idle

(* The commit writes exactly the changes, moves exactly the units they are about,   *)
(* and each movement is new.                                                         *)
LEMMA CommitWrites ==
    ASSUME FiguresInv, SerialInv, ExplainedInv, NEW r \in Requests, Commit(r),
           NEW k \in Locations
    PROVE  /\ stock'[k].on_hand = stock[k].on_hand + OnHandChange(r, k)
           /\ stock'[k].reserved = stock[k].reserved + ReservedChange(r, k)
           /\ OnHandChange(r, k) \in Int /\ ReservedChange(r, k) \in Int
           /\ stock[k].on_hand \in Int /\ stock[k].reserved \in Int
<1>1. /\ TypeOK /\ StoredExplained /\ RunningExplained(r) /\ req[r].stage = "counted"
      /\ stock' = [j \in Locations |-> Written(stock[j], mem[r][j])]
      /\ stock[k].on_hand \in Int /\ stock[k].reserved \in Int
      /\ req[r] \in Request
  BY DEF Commit, FiguresInv, ExplainedInv, Idle, TypeOK, StockRow
<1>2. SumFunctionOnSet(Units, Handled(r, k)) \in Int /\ SumFunctionOnSet(Units, {}) = 0
  <2>1. IsFiniteSet(Handled(r, k)) /\ \A i \in Handled(r, k) : Units[i] \in Int
    <3>1. Handled(r, k) \in SUBSET Claims(k)
      BY <1>1 DEF Handled, Claims, RunningExplained
    <3> QED
      BY <1>1, <3>1, ClaimsAreFinite, FS_Subset DEF Claims
  <2> QED
    BY <2>1, SumIsInt, SumOfNothing
<1>3. OnHandChange(r, k) \in Int /\ ReservedChange(r, k) \in Int
  BY <1>1, <1>2 DEF OnHandChange, ReservedChange, Request
<1>4. CASE mem[r][k].loaded
  <2>1. mem[r][k].before = stock[k]
    BY <1>4 DEF SerialInv
  <2>2. /\ stock'[k].on_hand = mem[r][k].after.on_hand
        /\ stock'[k].reserved = mem[r][k].after.reserved
    BY <1>1, <1>4, <2>1 DEF Written
  <2> QED
    BY <1>1, <1>3, <1>4, <2>2 DEF RunningExplained
<1>5. CASE ~mem[r][k].loaded
  <2>1. Handled(r, k) = {} /\ (req[r].kind \in {"adjust", "reserve"} => k # req[r].key)
    BY <1>1, <1>5 DEF RunningExplained
  <2>2. OnHandChange(r, k) = 0 /\ ReservedChange(r, k) = 0
    BY <1>2, <2>1 DEF OnHandChange, ReservedChange
  <2>3. stock'[k] = stock[k]
    BY <1>1, <1>5 DEF Written
  <2> QED
    BY <1>1, <2>2, <2>3
<1> QED
  BY <1>1, <1>3, <1>4, <1>5

LEMMA CommitPromises ==
    ASSUME FiguresInv, SerialInv, ExplainedInv, NEW r \in Requests, Commit(r),
           NEW k \in Locations
    PROVE  SumFunctionOnSet(Units', Claims(k)')
             = SumFunctionOnSet(Units, Claims(k)) + ReservedChange(r, k)
<1>1. /\ TypeOK /\ StoredExplained /\ RunningExplained(r) /\ req[r].stage = "counted"
      /\ resv' = ReservationsAfter(r) /\ req[r] \in Request
      /\ resv[r].status = "none" /\ r \notin Active
  BY DEF Commit, FiguresInv, ExplainedInv, Idle, TypeOK, Active, StoredExplained
<1>2. /\ IsFiniteSet(Claims(k)) /\ Claims(k) \subseteq Requests
      /\ \A i \in Requests : Units[i] = resv[i].quantity /\ Units[i] \in Nat
  BY <1>1, ClaimsAreFinite DEF Claims
<1>3. SumFunctionOnSet(Units, Claims(k)) \in Int
  BY <1>2, SumIsInt
<1>4. CASE req[r].kind = "reserve"
  <2>1. PICK v \in Reservation : /\ resv' = [resv EXCEPT ![r] = v] /\ v.status = "active"
                                 /\ v.key = req[r].key /\ v.quantity = req[r].amount
    <3> DEFINE v == [status |-> "active", key |-> req[r].key, order |-> req[r].order,
                     quantity |-> req[r].amount]
    <3>1. v \in Reservation /\ v.key = req[r].key /\ v.status = "active"
          /\ v.quantity = req[r].amount
      BY <1>1, <1>4 DEF FiguresInv, ReferencesOK, RequestRefersOK, Reservation, Request
    <3>2. resv' = [resv EXCEPT ![r] = v]
      BY <1>1, <1>4 DEF ReservationsAfter
    <3> QED
      BY <3>1, <3>2
  <2>2. resv'[r] = v /\ \A i \in Requests : i # r => resv'[i] = resv[i]
    BY <1>1, <2>1 DEF TypeOK
  <2>3. /\ Units'[r] = req[r].amount
        /\ \A i \in Requests : i # r => Units'[i] = Units[i]
    BY <2>1, <2>2 DEF Units
  <2>4. r \notin Claims(k) /\ \A i \in Claims(k) : Units'[i] = Units[i]
    BY <1>1, <1>2, <2>3 DEF Claims
  <2>5. SumFunctionOnSet(Units', Claims(k)) = SumFunctionOnSet(Units, Claims(k))
    BY <1>2, <2>4, SumOfEqualTerms
  <2>6. CASE k = req[r].key
    <3>1. Claims(k)' = Claims(k) \cup {r}
      BY <2>1, <2>2, <2>6 DEF Claims, Active
    <3>2. \A i \in Claims(k) \cup {r} : Units'[i] \in Int
      BY <1>1, <1>2, <2>3, <2>4 DEF Request
    <3>3. SumFunctionOnSet(Units', Claims(k) \cup {r})
            = SumFunctionOnSet(Units', Claims(k)) + Units'[r]
      BY <1>2, <2>4, <3>2, SumPutsIn
    <3> QED
      BY <1>4, <2>3, <2>5, <2>6, <3>1, <3>3 DEF ReservedChange
  <2>7. CASE k # req[r].key
    <3>1. Claims(k)' = Claims(k)
      BY <1>1, <2>1, <2>2, <2>7 DEF Claims, Active
    <3>2. ReservedChange(r, k) = -SumFunctionOnSet(Units, Handled(r, k))
          /\ Handled(r, k) = {}
      BY <1>1, <1>4, <2>7 DEF ReservedChange, RunningExplained, Handled
    <3> QED
      BY <1>3, <2>5, <3>1, <3>2, SumOfNothing
  <2> QED
    BY <2>6, <2>7
<1>5. CASE req[r].kind # "reserve"
  <2>1. /\ resv' = [i \in Requests |-> IF i \in req[r].batch
                      THEN [resv[i] EXCEPT !.status = "released"] ELSE resv[i]]
        /\ req[r].todo = {} /\ req[r].batch \subseteq Active
    BY <1>1, <1>5 DEF ReservationsAfter, RunningExplained
  <2>2. \A i \in Requests : /\ resv'[i].key = resv[i].key
                            /\ resv'[i].quantity = resv[i].quantity
                            /\ resv'[i].status = IF i \in req[r].batch THEN "released"
                                                 ELSE resv[i].status
    BY <1>1, <2>1 DEF TypeOK, Reservation
  <2>3. Units' = Units
    BY <2>2 DEF Units
  <2>4. Claims(k)' = Claims(k) \ Handled(r, k) /\ Handled(r, k) \in SUBSET Claims(k)
    BY <2>1, <2>2 DEF Claims, Active, Handled
  <2>5. SumFunctionOnSet(Units, Claims(k) \ Handled(r, k))
          = SumFunctionOnSet(Units, Claims(k)) - SumFunctionOnSet(Units, Handled(r, k))
        /\ SumFunctionOnSet(Units, Handled(r, k)) \in Nat
    <3>1. \A i \in Claims(k) : Units[i] \in Nat
      BY <1>2
    <3> QED
      BY <1>2, <2>4, <3>1, SumOfSubset
  <2>6. ReservedChange(r, k) = -SumFunctionOnSet(Units, Handled(r, k))
    BY <1>5 DEF ReservedChange
  <2> QED
    BY <1>3, <2>3, <2>4, <2>5, <2>6
<1> QED
  BY <1>4, <1>5

LEMMA CommitMoves ==
    ASSUME FiguresInv, SerialInv, ExplainedInv, NEW r \in Requests, Commit(r)
    PROVE  /\ IsFiniteSet(movements')
           /\ \A m \in movements' : m \in movements \/ m.by = r
           /\ \A k \in Locations :
                  SumFunctionOnSet(Moves', MovesAt(k)')
                    = SumFunctionOnSet(Moves, MovesAt(k))
                        + OnHandChange(r, k) - ReservedChange(r, k)
<1>1. /\ TypeOK /\ StoredExplained /\ RunningExplained(r) /\ req[r].stage = "counted"
      /\ movements' = movements \cup RecordMovements(r) /\ req[r] \in Request
      /\ req[r].todo = {} /\ IsFiniteSet(movements)
  BY DEF Commit, FiguresInv, ExplainedInv, Idle, TypeOK, StoredExplained, RunningExplained
<1> DEFINE new == RecordMovements(r)
           h == [i \in req[r].batch |-> Movement(r, i, resv[i].key, resv[i].quantity)]
<1>2. /\ req[r].kind = "adjust" => new = {Movement(r, r, req[r].key, req[r].amount)}
      /\ req[r].kind = "reserve" => new = {Movement(r, r, req[r].key, -req[r].amount)}
      /\ req[r].kind = "release" => new = {h[i] : i \in req[r].batch}
      /\ req[r].kind \notin {"adjust", "reserve", "release"} => new = {}
  BY DEF RecordMovements
<1>3. IsFiniteSet(new)
  <2>1. req[r].kind = "release" => IsFiniteSet(req[r].batch)
    BY <1>1, ClaimsAreFinite, FS_Subset DEF RunningExplained
  <2>2. req[r].kind = "release" => IsFiniteSet({h[i] : i \in req[r].batch})
    <3> HIDE DEF h
    <3> QED
      BY <2>1, ImageIsFinite
  <2> HIDE DEF new, h
  <2>3. CASE req[r].kind = "release"
    BY <1>2, <2>2, <2>3
  <2>4. CASE req[r].kind # "release"
    <3>1. new = {} \/ \E m : new = {m}
      BY <1>2, <2>4
    <3> QED
      BY <3>1, FS_EmptySet, FS_Singleton
  <2> QED
    BY <2>3, <2>4
<1>4. \A m \in new : m.by = r /\ m.delta \in Int
  <2>1. req[r].amount \in Int /\ \A i \in req[r].batch : resv[i].quantity \in Int
    BY <1>1 DEF TypeOK, Request, Reservation
  <2>2. \A i \in req[r].batch : h[i].by = r /\ h[i].delta = resv[i].quantity
    BY DEF Movement
  <2> HIDE DEF new, h
  <2> QED
    BY <1>2, <2>1, <2>2 DEF Movement
<1>5. new \cap movements = {}
  BY <1>1, <1>4 DEF StoredExplained
<1> HIDE DEF new, h
<1>6. ASSUME NEW k \in Locations
      PROVE  SumFunctionOnSet(Moves', MovesAt(k)')
               = SumFunctionOnSet(Moves, MovesAt(k)) + OnHandChange(r, k) - ReservedChange(r, k)
  <2> DEFINE newAt == {m \in new : m.key = k}
  <2>1. /\ MovesAt(k)' = MovesAt(k) \cup newAt /\ MovesAt(k) \cap newAt = {}
        /\ IsFiniteSet(MovesAt(k)) /\ IsFiniteSet(newAt)
    BY <1>1, <1>3, <1>5, FS_Subset DEF MovesAt, new
  <2>2. /\ \A m \in MovesAt(k) : Moves'[m] = Moves[m] /\ Moves[m] \in Int
        /\ \A m \in new : Moves'[m] = m.delta /\ Moves'[m] \in Int
    BY <1>1, <1>4 DEF Moves, MovesAt, TypeOK, new
  <2>3. SumFunctionOnSet(Moves', MovesAt(k)) = SumFunctionOnSet(Moves, MovesAt(k))
        /\ SumFunctionOnSet(Moves, MovesAt(k)) \in Int
    BY <2>1, <2>2, SumOfEqualTerms, SumIsInt
  <2>4. SumFunctionOnSet(Moves', MovesAt(k)')
          = SumFunctionOnSet(Moves, MovesAt(k)) + SumFunctionOnSet(Moves', newAt)
    <3>1. \A m \in MovesAt(k) \cup newAt : Moves'[m] \in Int
      BY <2>2
    <3> HIDE DEF newAt
    <3>2. SumFunctionOnSet(Moves', MovesAt(k) \cup newAt)
            = SumFunctionOnSet(Moves', MovesAt(k)) + SumFunctionOnSet(Moves', newAt)
      BY <2>1, <3>1, SumOfUnion
    <3> QED
      BY <2>1, <2>3, <3>2
  <2>5. SumFunctionOnSet(Moves', newAt) = OnHandChange(r, k) - ReservedChange(r, k)
        /\ OnHandChange(r, k) \in Int /\ ReservedChange(r, k) \in Int
    <3>0. SumFunctionOnSet(Moves', {}) = 0 /\ SumFunctionOnSet(Units, {}) = 0
          /\ req[r].amount \in Int
      BY <1>1, SumOfNothing DEF Request
    <3>1. CASE req[r].kind \in {"adjust", "reserve"}
      <4> DEFINE amount == IF req[r].kind = "adjust" THEN req[r].amount ELSE -req[r].amount
                 m == Movement(r, r, req[r].key, amount)
      <4>1. new = {m} /\ m.key = req[r].key /\ m.delta = amount /\ amount \in Int
        BY <1>2, <3>0, <3>1 DEF Movement
      <4>2. Handled(r, k) = {}
        BY <1>1, <3>1 DEF RunningExplained, Handled
      <4>3. /\ OnHandChange(r, k) - ReservedChange(r, k) = IF k = req[r].key THEN amount ELSE 0
            /\ OnHandChange(r, k) \in Int /\ ReservedChange(r, k) \in Int
        BY <3>0, <3>1, <4>2 DEF OnHandChange, ReservedChange
      <4> HIDE DEF amount, m
      <4>4. CASE k = req[r].key
        <5>1. newAt = {m} /\ Moves'[m] = amount
          BY <2>2, <4>1, <4>4
        <5> QED
          BY <4>1, <4>3, <4>4, <5>1, SumOfOne
      <4>5. CASE k # req[r].key
        <5>1. newAt = {}
          BY <4>1, <4>5
        <5> QED
          BY <3>0, <4>3, <4>5, <5>1
      <4> QED
        BY <4>4, <4>5
    <3>2. CASE req[r].kind = "release"
      <4>1. /\ Handled(r, k) \subseteq Requests /\ Handled(r, k) \in SUBSET Claims(k)
            /\ Handled(r, k) = {i \in req[r].batch : resv[i].key = k}
        BY <1>1, <3>2 DEF Handled, Claims, RunningExplained, Active
      <4>2. IsFiniteSet(Handled(r, k)) /\ \A i \in Handled(r, k) : Units[i] \in Int
        BY <1>1, <4>1, ClaimsAreFinite, FS_Subset
      <4>3. /\ \A i \in Handled(r, k) : /\ h[i].of = i /\ h[i].key = k
                                        /\ h[i].delta = Units[i] /\ h[i] \in new
            /\ \A i \in req[r].batch : h[i].key = resv[i].key
        BY <1>1, <1>2, <3>2, <4>1 DEF h, Movement, Units
      <4>4. newAt = {h[i] : i \in Handled(r, k)}
        BY <1>2, <3>2, <4>1, <4>3
      <4>5. /\ \A i, j \in Handled(r, k) : h[i] = h[j] => i = j
            /\ \A i \in Handled(r, k) : Moves'[h[i]] = Units[i]
        BY <2>2, <4>3
      <4>6. SumFunctionOnSet(Moves', {h[i] : i \in Handled(r, k)})
              = SumFunctionOnSet(Units, Handled(r, k))
        BY <4>2, <4>5, SumOfImage
      <4>7. SumFunctionOnSet(Units, Handled(r, k)) \in Int
        BY <4>2, SumIsInt
      <4>8. OnHandChange(r, k) = 0
            /\ ReservedChange(r, k) = -SumFunctionOnSet(Units, Handled(r, k))
        BY <3>2 DEF OnHandChange, ReservedChange
      <4> HIDE DEF newAt
      <4> QED
        BY <4>4, <4>6, <4>7, <4>8
    <3>3. CASE req[r].kind \notin {"adjust", "reserve", "release"}
      <4>1. newAt = {} /\ Handled(r, k) = {}
        BY <1>1, <1>2, <3>3 DEF RunningExplained, Handled
      <4> QED
        BY <3>0, <3>3, <4>1 DEF OnHandChange, ReservedChange
    <3> QED
      BY <3>1, <3>2, <3>3
  <2> HIDE DEF newAt
  <2> QED
    BY <2>3, <2>4, <2>5
<1>7. IsFiniteSet(movements')
  BY <1>1, <1>3, FS_Union DEF new
<1> QED
  BY <1>1, <1>4, <1>6, <1>7 DEF new

LEMMA CommitKeepsExplained ==
    ASSUME FiguresInv, SerialInv, ExplainedInv, NEW r \in Requests, Commit(r)
    PROVE  ExplainedInv'
<1>1. /\ TypeOK /\ StoredExplained /\ RunningExplained(r) /\ req[r].stage = "counted"
      /\ resv' = ReservationsAfter(r) /\ req[r] \in Request
  BY DEF Commit, FiguresInv, ExplainedInv, Idle, TypeOK
<1>2. PICK h \in Request : req' = [req EXCEPT ![r] = h] /\ h.stage = "done"
  <2>1. [NoRequest EXCEPT !.stage = "done"] \in Request
        /\ [NoRequest EXCEPT !.stage = "done"].stage = "done"
    BY NoRequestOK DEF NoRequest
  <2> QED
    BY <2>1 DEF Commit, Finish
<1>3. req'[r] = h /\ \A q \in Requests : q # r => req'[q] = req[q]
  BY <1>1, <1>2 DEF TypeOK
<1>4. IsFiniteSet(Started')
  <2>1. Started' = Started
    BY <1>1, <1>2, <1>3 DEF Started
  <2> QED
    BY <1>1, <2>1 DEF StoredExplained
<1>5. /\ \A i \in Requests : resv'[i].status # "none" => req'[i].stage = "done"
      /\ \A i \in Active' : resv'[i].quantity > 0
  <2>1. CASE req[r].kind = "reserve"
    <3>1. /\ resv'[r].quantity = req[r].amount /\ req[r].amount > 0
          /\ \A i \in Requests : i # r => resv'[i] = resv[i]
      BY <1>1, <2>1 DEF TypeOK, ReservationsAfter, RunningExplained
    <3> QED
      BY <1>1, <1>2, <1>3, <3>1 DEF StoredExplained, Active
  <2>2. CASE req[r].kind # "reserve"
    <3>1. \A i \in Requests : /\ resv'[i].quantity = resv[i].quantity
                              /\ resv'[i].status # "none" => resv[i].status # "none"
                              /\ resv'[i].status = "active" => resv[i].status = "active"
      <4>1. \A i \in Requests : i \in req[r].batch => resv[i].status = "active"
        BY <1>1 DEF RunningExplained, Active
      <4> QED
        BY <1>1, <2>2, <4>1 DEF ReservationsAfter, TypeOK, Reservation
    <3> QED
      BY <1>1, <1>2, <1>3, <3>1 DEF StoredExplained, Active
  <2> QED
    BY <2>1, <2>2
<1>6. \A m \in movements' : req'[m.by].stage = "done"
  BY <1>1, <1>2, <1>3, CommitMoves DEF StoredExplained, TypeOK
<1>7. ASSUME NEW k \in Locations PROVE Explained(k)'
  <2>1. /\ stock[k].reserved = SumFunctionOnSet(Units, Claims(k))
        /\ SumFunctionOnSet(Moves, MovesAt(k)) = stock[k].on_hand - stock[k].reserved
    BY <1>1 DEF StoredExplained, Explained
  <2>2. /\ SumFunctionOnSet(Units', Claims(k)')
             = SumFunctionOnSet(Units, Claims(k)) + ReservedChange(r, k)
        /\ SumFunctionOnSet(Moves', MovesAt(k)')
             = SumFunctionOnSet(Moves, MovesAt(k)) + OnHandChange(r, k) - ReservedChange(r, k)
    BY CommitPromises, CommitMoves
  <2>3. /\ stock'[k].on_hand = stock[k].on_hand + OnHandChange(r, k)
        /\ stock'[k].reserved = stock[k].reserved + ReservedChange(r, k)
        /\ OnHandChange(r, k) \in Int /\ ReservedChange(r, k) \in Int
        /\ stock[k].on_hand \in Int /\ stock[k].reserved \in Int
    BY CommitWrites
  <2> QED
    BY <2>1, <2>2, <2>3 DEF Explained
<1>8. StoredExplained'
  BY <1>4, <1>5, <1>6, <1>7, CommitMoves DEF StoredExplained
<1> QED
  BY <1>1, <1>2, <1>8, OnlyOneExplains DEF Idle

LEMMA ExplainedStep ==
    ASSUME ~Overlap, FiguresInv, SerialInv, ExplainedInv, [Next]_vars
    PROVE  ExplainedInv'
<1>i. /\ stock \in [Locations -> StockRow]
      /\ \A k \in Locations : stock[k].on_hand \in Int /\ stock[k].reserved \in Int
      /\ Nothing \in OrderIds \cup {Nothing}
  BY DEF FiguresInv, TypeOK, StockRow
<1>1. ASSUME NEW r \in Requests, NEW k \in Locations, NEW delta \in Deltas,
             AdjustRead(r, k, delta)
      PROVE ExplainedInv'
  <2>1. delta \in Int /\ stock[k].on_hand + delta \in Int
    BY <1>i, InventoryAssumption
  <2>2. PICK after \in StockRow : after = [stock[k] EXCEPT !.on_hand = stock[k].on_hand + delta]
    <3>1. [stock[k] EXCEPT !.on_hand = stock[k].on_hand + delta] \in StockRow
      BY <2>1, <1>i DEF StockRow
    <3> QED
      BY <3>1
  <2>3. after.on_hand = stock[k].on_hand + delta /\ after.reserved = stock[k].reserved
    BY <2>2, <1>i DEF StockRow
  <2>4. /\ Hold(r, k, after) /\ Begin(r, "computed", "adjust", k, delta, Nothing)
        /\ MayStart(r) /\ UNCHANGED <<stock, resv, movements>>
    BY <1>1, <2>2 DEF AdjustRead
  <2> QED
    BY <1>i, <2>1, <2>3, <2>4, StartKeepsExplained
<1>2. ASSUME NEW r \in Requests, NEW k \in Locations, NEW n \in Quantities,
             NEW o \in OrderIds, ReserveRead(r, k, n, o)
      PROVE ExplainedInv'
  <2>1. n \in Nat /\ n > 0
    BY InventoryAssumption
  <2>2. PICK after \in StockRow : after = [stock[k] EXCEPT !.reserved = @ + n]
    <3>1. [stock[k] EXCEPT !.reserved = @ + n] \in StockRow
      BY <2>1, <1>i DEF StockRow
    <3> QED
      BY <3>1
  <2>3. after.on_hand = stock[k].on_hand /\ after.reserved = stock[k].reserved + n
    BY <2>2, <1>i DEF StockRow
  <2>4. /\ Hold(r, k, after) /\ Begin(r, "computed", "reserve", k, n, o)
        /\ MayStart(r) /\ UNCHANGED <<stock, resv, movements>>
    BY <1>2, <2>2 DEF ReserveRead
  <2> QED
    BY <1>i, <2>1, <2>3, <2>4, StartKeepsExplained
<1>3. ASSUME NEW r \in Requests, NEW k \in Locations, ReorderRead(r, k) PROVE ExplainedInv'
  <2>1. PICK after \in StockRow : after = stock[k]
    BY <1>i
  <2>2. /\ Hold(r, k, after) /\ Begin(r, "counted", "reorder", k, 0, Nothing)
        /\ MayStart(r) /\ UNCHANGED <<stock, resv, movements>>
    BY <1>3, <2>1 DEF ReorderRead
  <2> QED
    BY <1>i, <2>1, <2>2, StartKeepsExplained
<1>4. ASSUME NEW r \in Requests, ReleaseById(r) \/ ReleaseByOrder(r) PROVE ExplainedInv'
  <2>1. PICK batch \in SUBSET Active : ReleaseSelect(r, batch)
    BY <1>4 DEF ReleaseById, ReleaseByOrder
  <2> QED
    BY <2>1, SelectKeepsExplained
<1>5. ASSUME NEW r \in Requests, NEW i \in Requests, ReleaseOne(r, i) PROVE ExplainedInv'
  BY <1>5, ReleaseOneKeepsExplained
<1>6. ASSUME NEW r \in Requests, SetCounter(r) PROVE ExplainedInv'
  BY <1>6, SetCounterKeepsExplained
<1>7. ASSUME NEW r \in Requests, Commit(r) PROVE ExplainedInv'
  BY <1>7, CommitKeepsExplained
<1>8. ASSUME NEW r \in Requests, Fail(r) PROVE ExplainedInv'
  BY <1>8, FailKeepsExplained
<1>9. CASE UNCHANGED vars
  <2>1. /\ UNCHANGED <<stock, resv, movements, req, mem>>
        /\ Started' = Started /\ Units' = Units /\ Active' = Active /\ Moves' = Moves
    BY <1>9 DEF vars, Started, Units, Active, Moves
  <2>2. \A k : Claims(k)' = Claims(k) /\ MovesAt(k)' = MovesAt(k)
    BY <2>1 DEF Claims, MovesAt
  <2>3. \A r, k : Handled(r, k)' = Handled(r, k)
    BY <2>1 DEF Handled
  <2>4. \A r, k : /\ OnHandChange(r, k)' = OnHandChange(r, k)
                  /\ ReservedChange(r, k)' = ReservedChange(r, k)
    BY <2>1, <2>3 DEF OnHandChange, ReservedChange
  <2>5. \A k \in Locations : Explained(k)' = Explained(k)
    BY <2>1, <2>2 DEF Explained
  <2>6. StoredExplained'
    BY <2>1, <2>5 DEF ExplainedInv, StoredExplained
  <2>7. \A r \in Requests : RunningExplained(r)' = RunningExplained(r)
    BY <2>1, <2>3, <2>4 DEF RunningExplained
  <2> QED
    BY <2>1, <2>6, <2>7 DEF ExplainedInv
<1> QED
  BY <1>1, <1>2, <1>3, <1>4, <1>5, <1>6, <1>7, <1>8, <1>9 DEF Next

(* The counter of each row is the available units that the running request will      *)
(* store, unless it is just about to set it or some request has failed.              *)
CounterInv ==
    \A k \in Locations :
        \/ \E r \in Requests : req[r].stage = "failed"
        \/ \E r \in Requests :
               /\ req[r].stage \notin Idle
               /\ \/ req[r].stage = "computed" /\ req[r].key = k
                  \/ /\ mem[r][k].loaded
                     /\ counter[k] = mem[r][k].after.on_hand - mem[r][k].after.reserved
        \/ /\ \A r \in Requests : ~mem[r][k].loaded
           /\ counter[k] = stock[k].on_hand - stock[k].reserved

LEMMA CounterStep ==
    ASSUME ~Overlap, FiguresInv, SerialInv, ExplainedInv, CounterInv, [Next]_vars
    PROVE  CounterInv'
<1>i. /\ req \in [Requests -> Request] /\ counter \in [Locations -> Int]
      /\ stock \in [Locations -> StockRow]
      /\ mem \in [Requests -> [Locations -> Loaded]]
  BY DEF FiguresInv, TypeOK
<1>0. SUFFICES ASSUME NEW k \in Locations, \A r \in Requests : req'[r].stage # "failed"
               PROVE  \/ \E r \in Requests :
                            /\ req'[r].stage \notin Idle
                            /\ \/ req'[r].stage = "computed" /\ req'[r].key = k
                               \/ /\ mem'[r][k].loaded
                                  /\ counter'[k] = mem'[r][k].after.on_hand
                                                     - mem'[r][k].after.reserved
                      \/ /\ \A r \in Requests : ~mem'[r][k].loaded
                         /\ counter'[k] = stock'[k].on_hand - stock'[k].reserved
  BY DEF CounterInv
<1> DEFINE Shown(r) == /\ req[r].stage \notin Idle
                       /\ \/ req[r].stage = "computed" /\ req[r].key = k
                          \/ /\ mem[r][k].loaded
                             /\ counter[k] = mem[r][k].after.on_hand - mem[r][k].after.reserved
           Stored == /\ \A r \in Requests : ~mem[r][k].loaded
                     /\ counter[k] = stock[k].on_hand - stock[k].reserved
           Goal == (\E r \in Requests : Shown(r)') \/ Stored'
<1> SUFFICES Goal
  OBVIOUS
<1>a. ASSUME NEW r \in Requests, \A q \in Requests : q # r => req'[q] = req[q],
             req[r].stage # "failed"
      PROVE  (\E q \in Requests : Shown(q)) \/ Stored
  <2>1. \A q \in Requests : req[q].stage # "failed"
    BY <1>0, <1>a
  <2> QED
    BY <2>1 DEF CounterInv
<1>b. ASSUME NEW r \in Requests, NEW j \in Locations, NEW after \in StockRow, MayStart(r),
             NEW stage \in {"computed", "counted"}, NEW kind, NEW amount, NEW o,
             Hold(r, j, after), Begin(r, stage, kind, j, amount, o),
             stage = "counted" => after = stock[j], UNCHANGED <<stock, counter>>
      PROVE  Goal
  <2>1. /\ \A q \in Requests : req[q].stage \in Idle /\ ~mem[q][k].loaded
        /\ req[r].stage = "new"
    BY <1>b DEF MayStart, FiguresInv, ReferencesOK, RequestRefersOK
  <2>2. /\ req'[r].stage = stage /\ req'[r].key = j
        /\ \A q \in Requests : q # r => req'[q] = req[q] /\ mem'[q] = mem[q]
    BY <1>b, <1>i DEF Begin, Hold, NoRequest
  <2>3. Stored
    BY <1>a, <2>1, <2>2
  <2>4. mem'[r][k] = IF k = j THEN [loaded |-> TRUE, before |-> stock[j],
                                    after |-> [after EXCEPT !.present = TRUE]]
                     ELSE mem[r][k]
    BY <1>b, <1>i DEF Hold
  <2>5. CASE k = j /\ stage = "computed"
    <3>1. Shown(r)'
      BY <2>2, <2>5 DEF Idle
    <3> QED
      BY <3>1
  <2>6. CASE k = j /\ stage = "counted"
    <3>1. /\ mem'[r][k].loaded
          /\ mem'[r][k].after.on_hand = stock[k].on_hand
          /\ mem'[r][k].after.reserved = stock[k].reserved
      BY <1>b, <2>4, <2>6 DEF StockRow
    <3>2. counter'[k] = mem'[r][k].after.on_hand - mem'[r][k].after.reserved
          /\ req'[r].stage \notin Idle
      BY <1>b, <2>2, <2>3, <2>6, <3>1 DEF Idle
    <3>3. Shown(r)'
      BY <3>1, <3>2
    <3> QED
      BY <3>3
  <2>7. CASE k # j
    <3>1. Stored'
      BY <1>b, <2>1, <2>2, <2>3, <2>4, <2>7
    <3> QED
      BY <3>1
  <2> QED
    BY <2>5, <2>6, <2>7
<1>1. ASSUME NEW r \in Requests, NEW j \in Locations, NEW delta \in Deltas,
             AdjustRead(r, j, delta)
      PROVE Goal
  <2>1. PICK after \in StockRow : after = [stock[j] EXCEPT !.on_hand = stock[j].on_hand + delta]
    <3>1. delta \in Int /\ stock[j].on_hand + delta \in Int
      BY <1>i, InventoryAssumption DEF StockRow
    <3>2. [stock[j] EXCEPT !.on_hand = stock[j].on_hand + delta] \in StockRow
      BY <3>1, <1>i DEF StockRow
    <3> QED
      BY <3>2
  <2>2. /\ Hold(r, j, after) /\ Begin(r, "computed", "adjust", j, delta, Nothing)
        /\ MayStart(r) /\ UNCHANGED <<stock, counter>>
    BY <1>1, <2>1 DEF AdjustRead
  <2> HIDE DEF Goal
  <2> QED
    BY <2>2, <1>b
<1>2. ASSUME NEW r \in Requests, NEW j \in Locations, NEW n \in Quantities,
             NEW o \in OrderIds, ReserveRead(r, j, n, o)
      PROVE Goal
  <2>1. PICK after \in StockRow : after = [stock[j] EXCEPT !.reserved = @ + n]
    <3>1. n \in Int /\ [stock[j] EXCEPT !.reserved = @ + n] \in StockRow
      BY <1>i, InventoryAssumption DEF StockRow
    <3> QED
      BY <3>1
  <2>2. /\ Hold(r, j, after) /\ Begin(r, "computed", "reserve", j, n, o)
        /\ MayStart(r) /\ UNCHANGED <<stock, counter>>
    BY <1>2, <2>1 DEF ReserveRead
  <2> HIDE DEF Goal
  <2> QED
    BY <2>2, <1>b
<1>3. ASSUME NEW r \in Requests, NEW j \in Locations, ReorderRead(r, j) PROVE Goal
  <2>1. PICK after \in StockRow : after = stock[j]
    BY <1>i
  <2>2. /\ Hold(r, j, after) /\ Begin(r, "counted", "reorder", j, 0, Nothing)
        /\ MayStart(r) /\ UNCHANGED <<stock, counter>>
    BY <1>3, <2>1 DEF ReorderRead
  <2> HIDE DEF Goal
  <2> QED
    BY <2>1, <2>2, <1>b
<1>4. ASSUME NEW r \in Requests, ReleaseById(r) \/ ReleaseByOrder(r) PROVE Goal
  <2>1. PICK batch \in SUBSET Active : ReleaseSelect(r, batch)
    BY <1>4 DEF ReleaseById, ReleaseByOrder
  <2>2. /\ UNCHANGED <<stock, counter, mem>> /\ req[r].stage = "new"
        /\ \A q \in Requests : req[q].stage \in Idle
        /\ \A q \in Requests : q # r => req'[q] = req[q]
    BY <2>1, <1>i DEF ReleaseSelect, MayStart
  <2>3. Stored
    BY <1>a, <2>2
  <2> QED
    BY <2>2, <2>3
<1>5. ASSUME NEW r \in Requests, NEW i \in Requests, ReleaseOne(r, i) PROVE Goal
  <2>1. PICK j \in Locations : j = resv[i].key
    BY <1>5 DEF ReleaseOne, FiguresInv, ReferencesOK, RequestRefersOK
  <2>2. /\ req[r].stage = "releasing" /\ UNCHANGED <<stock, counter>>
        /\ req'[r].stage = "computed" /\ req'[r].key = j
        /\ \A q \in Requests : q # r => req'[q] = req[q] /\ mem'[q] = mem[q]
        /\ k # j => mem'[r][k] = mem[r][k]
    <3>1. PICK held : mem' = [mem EXCEPT ![r][j] = held]
      BY <1>5, <2>1 DEF ReleaseOne
    <3>2. /\ req[r].stage = "releasing" /\ UNCHANGED <<stock, counter>>
          /\ req' = [req EXCEPT ![r].stage = "computed", ![r].key = j, ![r].todo = @ \ {i}]
      BY <1>5, <2>1 DEF ReleaseOne
    <3>3. /\ req'[r].stage = "computed" /\ req'[r].key = j
          /\ \A q \in Requests : q # r => req'[q] = req[q]
      BY <1>i, <3>2
    <3>4. /\ \A q \in Requests : q # r => mem'[q] = mem[q]
          /\ k # j => mem'[r][k] = mem[r][k]
      BY <1>i, <2>1, <3>1
    <3> QED BY <3>2, <3>3, <3>4
  <2>3. CASE k = j
    <3>1. Shown(r)'
      BY <2>2, <2>3 DEF Idle
    <3> QED
      BY <3>1
  <2>4. CASE k # j
    <3>1. CASE Stored
      BY <2>2, <2>4, <3>1
    <3>2. ASSUME NEW q \in Requests, Shown(q) PROVE Goal
      <4>1. q = r
        BY <2>2, <3>2 DEF SerialInv, Idle
      <4>2. Shown(r)'
        BY <2>2, <2>4, <3>2, <4>1 DEF Idle
      <4> QED
        BY <4>2
    <3> QED
      BY <1>a, <2>2, <3>1, <3>2
  <2> QED
    BY <2>3, <2>4
<1>6. ASSUME NEW r \in Requests, SetCounter(r) PROVE Goal
  <2>1. /\ req[r].stage = "computed" /\ req[r].key \in Locations
        /\ mem[r][req[r].key].loaded /\ UNCHANGED <<stock, mem>>
        /\ req'[r].stage \notin Idle /\ req'[r].key = req[r].key
        /\ \A q \in Requests : q # r => req'[q] = req[q]
        /\ counter'[k] = IF k = req[r].key
                         THEN mem[r][k].after.on_hand - mem[r][k].after.reserved
                         ELSE counter[k]
    BY <1>6, <1>i DEF SetCounter, ExplainedInv, RunningExplained, FiguresInv, ReferencesOK,
                      RequestRefersOK, Idle
  <2>2. CASE k = req[r].key
    <3>1. Shown(r)'
      BY <2>1, <2>2
    <3> QED
      BY <3>1
  <2>3. CASE k # req[r].key
    <3>1. CASE Stored
      BY <2>1, <2>3, <3>1
    <3>2. ASSUME NEW q \in Requests, Shown(q) PROVE Goal
      <4>1. q = r
        BY <2>1, <3>2 DEF SerialInv, Idle
      <4>2. Shown(r)'
        BY <2>1, <2>3, <3>2, <4>1
      <4> QED
        BY <4>2
    <3> QED
      BY <1>a, <2>1, <3>1, <3>2
  <2> QED
    BY <2>2, <2>3
<1>7. ASSUME NEW r \in Requests, Commit(r) PROVE Goal
  <2>1. /\ req[r].stage = "counted" /\ UNCHANGED counter
        /\ \A q \in Requests : q # r => req'[q] = req[q] /\ mem'[q] = mem[q]
        /\ \A j \in Locations : ~mem'[r][j].loaded
        /\ stock'[k] = Written(stock[k], mem[r][k])
    BY <1>7, FinishKeepsHandlers DEF Commit
  <2>2. \A q \in Requests : ~mem'[q][k].loaded
    BY <2>1 DEF SerialInv, FiguresInv, ReferencesOK, RequestRefersOK, Idle
  <2>3. CASE Stored
    <3>1. stock'[k] = stock[k]
      BY <2>1, <2>3 DEF Written
    <3> QED
      BY <2>1, <2>2, <2>3, <3>1
  <2>4. ASSUME NEW q \in Requests, Shown(q) PROVE Goal
    <3>1. q = r
      BY <2>1, <2>4 DEF SerialInv, Idle
    <3>2. /\ mem[r][k].loaded /\ mem[r][k].before = stock[k]
          /\ counter[k] = mem[r][k].after.on_hand - mem[r][k].after.reserved
      BY <2>1, <2>4, <3>1 DEF SerialInv
    <3>3. /\ stock'[k].on_hand = mem[r][k].after.on_hand
          /\ stock'[k].reserved = mem[r][k].after.reserved
      BY <2>1, <3>2 DEF Written
    <3> QED
      BY <2>1, <2>2, <3>2, <3>3
  <2> QED
    BY <1>a, <2>1, <2>3, <2>4
<1>8. ASSUME NEW r \in Requests, Fail(r) PROVE Goal
  <2>1. req'[r].stage = "failed"
    BY <1>8, FinishKeepsHandlers DEF Fail, NoRequest
  <2> QED
    BY <1>0, <2>1
<1>9. CASE UNCHANGED vars
  BY <1>0, <1>9 DEF vars, CounterInv
<1> QED
  BY <1>1, <1>2, <1>3, <1>4, <1>5, <1>6, <1>7, <1>8, <1>9 DEF Next

SerialStockInv == FiguresInv /\ SerialInv /\ ExplainedInv /\ CounterInv

LEMMA SerialStockInit == Init => SerialStockInv
<1>1. Init => CounterInv
  BY DEF Init, CounterInv, NoStock, NotLoaded
<1> QED
  BY <1>1, FiguresInit, SerialInit, ExplainedInit DEF SerialStockInv

LEMMA SerialStockStep == ASSUME ~Overlap, SerialStockInv, [Next]_vars PROVE SerialStockInv'
<1>1. FiguresInv'
  BY FiguresStep DEF SerialStockInv
<1> QED
  BY <1>1, SerialStep, ExplainedStep, CounterStep DEF SerialStockInv

(* A step of the two services is a step of the inventory service, or none of it.      *)
LEMMA OneStepIsInventory == [OneNext]_oneVars => [Next]_vars
BY DEF OneNext, oneVars, vars

LEMMA SerialStockHolds == ASSUME ~Overlap PROVE OneSpec => []SerialStockInv
<1>1. OneInit => SerialStockInv
  BY SerialStockInit DEF OneInit
<1>2. SerialStockInv /\ [OneNext]_oneVars => SerialStockInv'
  BY SerialStockStep, OneStepIsInventory
<1> QED
  BY <1>1, <1>2, PTL DEF OneSpec

(* With one request at a time the movements and the figures of a row account for     *)
(* each other (record_movement beside every change), and the counter in Redis is the  *)
(* available units unless a request runs or one has died.                             *)
THEOREM StockStaysExplained == ASSUME ~Overlap PROVE OneSpec => []StockIsExplained
<1>1. SerialStockInv => StockIsExplained
  <2> SUFFICES ASSUME SerialStockInv PROVE StockIsExplained
    OBVIOUS
  <2>1. LedgerExplainsStock
    BY ExplainedImplies DEF SerialStockInv, ExplainedInv
  <2>2. CounterOffOnlyAfterFailure
    BY DEF SerialStockInv, CounterInv, CounterOffOnlyAfterFailure, Idle
  <2> QED
    BY <2>1, <2>2 DEF StockIsExplained
<1> QED
  BY <1>1, SerialStockHolds, PTL

(* With one request at a time the units promised by active reservations are on hand:  *)
(* reserve_stock never sells a unit twice, whatever dies.                              *)
THEOREM NeverOversold == ASSUME ~Overlap PROVE OneSpec => []NothingOversold
<1>1. SerialStockInv => NothingOversold
  BY ExplainedImplies DEF SerialStockInv, ExplainedInv, SerialInv, ReservedOnHand, NothingOversold
<1> QED
  BY <1>1, SerialStockHolds, PTL

-----------------------------------------------------------------------------
(* With one request at a time the inventory service implements StockBook.              *)

OnHand == [k \in Locations |-> stock[k].on_hand]

Entry(i) == [ticket |-> i, key |-> resv[i].key, quantity |-> resv[i].quantity]

Entries == {Entry(i) : i \in Active}

LEMMA BookSumIsSum ==
    ASSUME NEW f, NEW S PROVE Book!SumFunctionOnSet(f, S) = SumFunctionOnSet(f, S)
BY DEF SumFunctionOnSet, FoldFunctionOnSet, MapThenFoldSet,
       Book!SumFunctionOnSet, Book!FoldFunctionOnSet, Book!MapThenFoldSet

LEMMA BookPromisesClaims ==
    ASSUME TypeOK, StoredExplained, NEW k \in Locations
    PROVE  Book!Promised(k) = SumFunctionOnSet(Units, Claims(k))
<1> DEFINE h == [i \in Requests |-> Entry(i)]
           g == [a \in Entries |-> a.quantity]
<1>1. /\ IsFiniteSet(Claims(k)) /\ Claims(k) \subseteq Active /\ Active \subseteq Requests
      /\ \A i \in Requests : Units[i] = resv[i].quantity /\ Units[i] \in Nat
  BY ClaimsAreFinite DEF Claims
<1>2. {a \in Entries : a.key = k} = {h[i] : i \in Claims(k)}
  <2>1. Claims(k) = {i \in Active : Entry(i).key = k}
    BY DEF Claims, Entry
  <2>2. \A i \in Active : h[i] = Entry(i)
    BY <1>1
  <2> HIDE DEF h
  <2>3. {h[i] : i \in Claims(k)} = {Entry(i) : i \in Claims(k)}
    BY <1>1, <2>2
  <2> QED
    BY <2>1, <2>3 DEF Entries
<1>3. /\ \A i, j \in Claims(k) : h[i] = h[j] => i = j
      /\ \A i \in Claims(k) : g[h[i]] = Units[i]
  BY <1>1 DEF Entries, Entry
<1>4. Book!Promised(k) = SumFunctionOnSet(g, {a \in Entries : a.key = k})
  BY BookSumIsSum DEF Book!Promised, Entries, Entry
<1> HIDE DEF h, g
<1>5. SumFunctionOnSet(g, {h[i] : i \in Claims(k)}) = SumFunctionOnSet(Units, Claims(k))
  BY <1>1, <1>3, SumOfImage
<1> QED
  BY <1>2, <1>4, <1>5

LEMMA BookInit == Init => Book!Init
BY DEF Init, Book!Init, Active, NoReservation, NoStock

LEMMA BookStep ==
    ASSUME ~Overlap, SerialStockInv, SerialStockInv', [Next]_vars
    PROVE  [Book!Next]_(Book!vars)
<1>1. ASSUME UNCHANGED <<stock, resv>> PROVE UNCHANGED Book!vars
  BY <1>1 DEF Book!vars, Active
<1>2. ASSUME NEW r \in Requests, Commit(r) PROVE [Book!Next]_(Book!vars)
  <2>1. /\ FiguresInv /\ SerialInv /\ ExplainedInv /\ TypeOK /\ StoredExplained
        /\ RunningExplained(r) /\ req[r].stage = "counted" /\ req[r] \in Request
        /\ resv' = ReservationsAfter(r) /\ req[r].todo = {}
        /\ RequestRefersOK(r)
    BY <1>2 DEF Commit, SerialStockInv, FiguresInv, ExplainedInv, Idle, TypeOK,
                RunningExplained, ReferencesOK
  <2>2. \A k \in Locations :
           /\ OnHand[k] = stock[k].on_hand /\ OnHand'[k] = stock'[k].on_hand
           /\ stock'[k].on_hand = stock[k].on_hand + OnHandChange(r, k)
           /\ stock'[k].reserved = stock[k].reserved + ReservedChange(r, k)
           /\ stock'[k].reserved <= stock'[k].on_hand
           /\ Book!Promised(k) = stock[k].reserved
           /\ stock[k].on_hand \in Int /\ stock[k].reserved \in Int
    BY <1>2, <2>1, CommitWrites, BookPromisesClaims
       DEF OnHand, SerialStockInv, SerialInv, ReservedOnHand, StoredExplained, Explained
  <2>3. CASE req[r].kind = "adjust"
    <3>1. PICK k \in Locations : k = req[r].key
      BY <2>1, <2>3 DEF RequestRefersOK
    <3>2. resv' = resv
      BY <2>1, <2>3 DEF ReservationsAfter, RunningExplained, TypeOK
    <3>3. ReservedChange(r, k) = 0
      <4>1. Handled(r, k) = {}
        BY <2>1, <2>3 DEF Handled, RunningExplained
      <4> QED
        BY <2>3, <4>1, SumOfNothing DEF ReservedChange
    <3>4. OnHand'[k] >= Book!Promised(k)
      BY <2>2, <3>3
    <3>5. OnHand' = [OnHand EXCEPT ![k] = OnHand'[k]]
      <4>1. /\ OnHand' = [j \in Locations |-> stock'[j].on_hand]
            /\ OnHand = [j \in Locations |-> stock[j].on_hand]
        BY DEF OnHand
      <4>2. \A j \in Locations : j # k => stock'[j].on_hand = stock[j].on_hand
        BY <2>2, <3>1 DEF OnHandChange
      <4> QED
        BY <4>1, <4>2
    <3>6. Entries' = Entries
      BY <3>2 DEF Entries, Entry, Active
    <3> QED
      BY <3>4, <3>5, <3>6 DEF Book!Next, Book!Adjust, OnHand, Entries, Entry
  <2>4. ASSUME req[r].kind # "adjust" PROVE OnHand' = OnHand
    BY <2>2, <2>4 DEF OnHand, OnHandChange
  <2>5. CASE req[r].kind = "reserve"
    <3>1. PICK k \in Locations : k = req[r].key
      BY <2>1, <2>5 DEF RequestRefersOK
    <3>2. PICK v \in Reservation : /\ resv' = [resv EXCEPT ![r] = v] /\ v.status = "active"
                                   /\ v.key = k /\ v.quantity = req[r].amount
      <4> DEFINE v == [status |-> "active", key |-> req[r].key, order |-> req[r].order,
                       quantity |-> req[r].amount]
      <4>1. v \in Reservation /\ v.key = k /\ v.status = "active" /\ v.quantity = req[r].amount
        BY <2>1, <2>5, <3>1 DEF RequestRefersOK, Reservation, Request
      <4>2. resv' = [resv EXCEPT ![r] = v]
        BY <2>1, <2>5 DEF ReservationsAfter
      <4> QED
        BY <4>1, <4>2
    <3>3. /\ resv'[r] = v /\ \A i \in Requests : i # r => resv'[i] = resv[i]
          /\ r \notin Active /\ Active' = Active \cup {r} /\ Active \subseteq Requests
      BY <2>1, <3>2 DEF TypeOK, Active, StoredExplained
    <3>4. Entries' = Entries \cup {[ticket |-> r, key |-> k, quantity |-> req[r].amount]}
      BY <3>2, <3>3 DEF Entries, Entry
    <3>5. r \notin {a.ticket : a \in Entries}
      BY <3>3 DEF Entries, Entry
    <3>6. req[r].amount \in 1..(OnHand[k] - Book!Promised(k))
      <4>1. ReservedChange(r, k) = req[r].amount /\ OnHandChange(r, k) = 0
            /\ req[r].amount \in Int /\ req[r].amount > 0
        BY <2>1, <2>5, <3>1 DEF ReservedChange, OnHandChange, Request, RunningExplained
      <4> QED
        BY <2>2, <4>1
    <3> QED
      BY <2>4, <2>5, <3>4, <3>5, <3>6
         DEF Book!Next, Book!Reserve, Book!Available, OnHand, Entries, Entry
  <2>6. CASE req[r].kind = "release"
    <3> DEFINE some == {Entry(i) : i \in req[r].batch}
    <3>1. req[r].batch # {} /\ req[r].batch \subseteq Active /\ Active \subseteq Requests
      BY <2>1, <2>6 DEF RunningExplained, Active
    <3>2. \A i \in Requests : /\ resv'[i].key = resv[i].key
                              /\ resv'[i].quantity = resv[i].quantity
                              /\ resv'[i].status = IF i \in req[r].batch THEN "released"
                                                   ELSE resv[i].status
      BY <2>1, <2>6 DEF TypeOK, Reservation, ReservationsAfter
    <3>3. Active' = Active \ req[r].batch
      BY <3>2 DEF Active
    <3>4. Entries' = Entries \ some
      BY <3>1, <3>2, <3>3 DEF Entries, Entry
    <3>5. some \in (SUBSET Entries) \ {{}}
      BY <3>1 DEF Entries
    <3> HIDE DEF some
    <3> QED
      BY <2>4, <2>6, <3>4, <3>5 DEF Book!Next, Book!Release, OnHand, Entries, Entry
  <2>7. CASE req[r].kind \notin {"adjust", "reserve", "release"}
    <3>1. resv' = resv
      BY <2>1, <2>7 DEF ReservationsAfter, RunningExplained, TypeOK
    <3>2. Entries' = Entries
      BY <3>1 DEF Entries, Entry, Active
    <3> QED
      BY <2>4, <2>7, <3>2 DEF Book!vars, OnHand, Entries, Entry
  <2> QED
    BY <2>3, <2>5, <2>6, <2>7
<1>3. ASSUME NEW r \in Requests,
             \/ \E k \in Locations, delta \in Deltas : AdjustRead(r, k, delta)
             \/ \E k \in Locations, n \in Quantities, o \in OrderIds : ReserveRead(r, k, n, o)
             \/ \E k \in Locations : ReorderRead(r, k)
             \/ ReleaseById(r) \/ ReleaseByOrder(r)
             \/ \E i \in Requests : ReleaseOne(r, i)
             \/ SetCounter(r) \/ Fail(r)
      PROVE  UNCHANGED <<stock, resv>>
  BY <1>3 DEF AdjustRead, ReserveRead, ReorderRead, ReleaseById, ReleaseByOrder, ReleaseSelect,
              ReleaseOne, SetCounter, Fail
<1>4. CASE UNCHANGED vars
  BY <1>1, <1>4 DEF vars
<1> QED
  BY <1>1, <1>2, <1>3, <1>4 DEF Next

(* With one request at a time every commit of the inventory service adjusts within    *)
(* what is promised, reserves available units or releases, as StockBook promises.      *)
THEOREM StockBookImplemented == ASSUME ~Overlap PROVE OneSpec => ImplementsBook
<1>1. OneInit => Book!Init
  BY BookInit DEF OneInit
<1>2. SerialStockInv /\ SerialStockInv' /\ [OneNext]_oneVars => [Book!Next]_(Book!vars)
  BY BookStep, OneStepIsInventory
<1> QED
  BY <1>1, <1>2, SerialStockHolds, PTL DEF OneSpec, ImplementsBook, Book!Spec

-----------------------------------------------------------------------------
(* The order service within OneAtATime.                                        *)

Proved == INSTANCE OrdersProofs WITH req <- serving

(* The two instances of Orders are the same module at the same variables.    *)
LEMMA SameData ==
    /\ Shop!VALID_TRANSITIONS = Proved!VALID_TRANSITIONS
    /\ Shop!Status = Proved!Status /\ Shop!Terminal = Proved!Terminal
    /\ Shop!Returnable = Proved!Returnable /\ Shop!Idle = Proved!Idle
    /\ Shop!NoRow = Proved!NoRow /\ Shop!Miss = Proved!Miss
    /\ Shop!NoRequest = Proved!NoRequest
BY DEF Shop!VALID_TRANSITIONS, Proved!VALID_TRANSITIONS, Shop!Status, Proved!Status,
       Shop!Terminal, Proved!Terminal, Shop!Returnable, Proved!Returnable, Shop!Idle,
       Proved!Idle, Shop!NoRow, Proved!NoRow, Shop!Miss, Proved!Miss, Shop!NoRequest,
       Proved!NoRequest

(* Both start a request the same ways.                                         *)
LEMMA SameStart == \A r : Shop!Start(r) <=> Proved!Start(r)
<1> USE SameData
    DEF Shop!MayStart, Proved!MayStart, Shop!Known, Proved!Known, Shop!RecordEvent,
        Proved!RecordEvent, Shop!Closed, Proved!Closed, Shop!Finish, Proved!Finish,
        Shop!AssertTransition, Proved!AssertTransition
<1>1. \A r, o : Shop!CreateInsert(r, o) <=> Proved!CreateInsert(r, o)
  BY DEF Shop!CreateInsert, Proved!CreateInsert
<1>2. \A r, o, t : Shop!TransitionRead(r, o, t) <=> Proved!TransitionRead(r, o, t)
  BY DEF Shop!TransitionRead, Proved!TransitionRead
<1>3. \A r, o, t : Shop!TransitionRejected(r, o, t) <=> Proved!TransitionRejected(r, o, t)
  BY DEF Shop!TransitionRejected, Proved!TransitionRejected
<1>4. \A r, o : Shop!StatusCacheHit(r, o) <=> Proved!StatusCacheHit(r, o)
  BY DEF Shop!StatusCacheHit, Proved!StatusCacheHit
<1>5. \A r, o : Shop!StatusCacheMiss(r, o) <=> Proved!StatusCacheMiss(r, o)
  BY DEF Shop!StatusCacheMiss, Proved!StatusCacheMiss
<1>6. \A r, o : Shop!ReturnRead(r, o) <=> Proved!ReturnRead(r, o)
  BY DEF Shop!ReturnRead, Proved!ReturnRead
<1>7. QED
  BY <1>1, <1>2, <1>3, <1>4, <1>5, <1>6 DEF Shop!Start, Proved!Start

(* Both carry a request on the same ways.                                       *)
LEMMA SameContinue == \A r : Shop!Continue(r) <=> Proved!Continue(r)
<1> USE SameData
    DEF Shop!Advance, Proved!Advance, Shop!RecordEvent, Proved!RecordEvent,
        Shop!Closed, Proved!Closed, Shop!Finish, Proved!Finish
<1>1. \A r : Shop!CreateConfirm(r) <=> Proved!CreateConfirm(r)
  BY DEF Shop!CreateConfirm, Proved!CreateConfirm
<1>2. \A r : Shop!CreatePublish(r) <=> Proved!CreatePublish(r)
  BY DEF Shop!CreatePublish, Proved!CreatePublish
<1>3. \A r : Shop!CreateFillCache(r) <=> Proved!CreateFillCache(r)
  BY DEF Shop!CreateFillCache, Proved!CreateFillCache
<1>4. \A r : Shop!TransitionCommit(r) <=> Proved!TransitionCommit(r)
  BY DEF Shop!TransitionCommit, Proved!TransitionCommit, Shop!RowAfter, Proved!RowAfter
<1>5. \A r : Shop!TransitionInvalidate(r) <=> Proved!TransitionInvalidate(r)
  BY DEF Shop!TransitionInvalidate, Proved!TransitionInvalidate
<1>6. \A r : Shop!TransitionPublish(r) <=> Proved!TransitionPublish(r)
  BY DEF Shop!TransitionPublish, Proved!TransitionPublish
<1>7. \A r : Shop!StatusLoad(r) <=> Proved!StatusLoad(r)
  BY DEF Shop!StatusLoad, Proved!StatusLoad
<1>8. \A r : Shop!StatusFillCache(r) <=> Proved!StatusFillCache(r)
  BY DEF Shop!StatusFillCache, Proved!StatusFillCache, Shop!StatusOut, Proved!StatusOut
<1>9. \A r : Shop!ReturnCommit(r) <=> Proved!ReturnCommit(r)
  BY DEF Shop!ReturnCommit, Proved!ReturnCommit
<1>10. \A r : Shop!ReturnPublish(r) <=> Proved!ReturnPublish(r)
  BY DEF Shop!ReturnPublish, Proved!ReturnPublish
<1>11. QED
  BY <1>1, <1>2, <1>3, <1>4, <1>5, <1>6, <1>7, <1>8, <1>9, <1>10
  DEF Shop!Continue, Proved!Continue

(* Hence both take the same steps,                                              *)
LEMMA SameNext == Shop!Next <=> Proved!Next
<1>1. \A r : Shop!Fail(r) <=> Proved!Fail(r)
  BY SameData DEF Shop!Fail, Proved!Fail, Shop!Closed, Proved!Closed
<1>2. \A o : Shop!Expire(o) <=> Proved!Expire(o)
  BY SameData DEF Shop!Expire, Proved!Expire
<1>3. QED
  BY SameStart, SameContinue, <1>1, <1>2 DEF Shop!Next, Proved!Next

(* from the same initial states.                                                *)
LEMMA SameInit == Shop!Init <=> Proved!Init
BY SameData DEF Shop!Init, Proved!Init

(* Whichever service runs, the order service takes a step of its own or none. *)
LEMMA OneSpecIsOrders == OneSpec => Proved!Spec
<1>1. OneInit => Proved!Init
  BY SameInit DEF OneInit
<1>2. [OneNext]_oneVars => [Proved!Next]_(Proved!vars)
  BY SameNext DEF OneNext, oneVars, shopVars, Proved!vars
<1>3. QED
  BY <1>1, <1>2, PTL DEF OneSpec, Proved!Spec

(* What OrdersProofs assumes of its constants.                                   *)
LEMMA OrdersAssumptions ==
    NoOrder \notin OrderIds /\ Overlap \in BOOLEAN /\ MayFail \in BOOLEAN
BY InventoryAssumption, OneAtATimeAssumption

-----------------------------------------------------------------------------
(* With requests one at a time, whichever of them die, the events of an order   *)
(* replay to its row and its three columns agree.                                *)
THEOREM RowStaysExplained == ~Overlap => (OneSpec => []RowIsExplained)
<1>1. Proved!AuditTrailReplays /\ Proved!ColumnsAgree => RowIsExplained
  BY SameData DEF RowIsExplained, Shop!AuditTrailReplays, Proved!AuditTrailReplays,
     Shop!ColumnsAgree, Proved!ColumnsAgree, Shop!Known, Proved!Known
<1>2. ~Overlap /\ Proved!Spec => []Proved!AuditTrailReplays
  BY Proved!TrailReplays, OrdersAssumptions
<1>3. ~Overlap /\ Proved!Spec => []Proved!ColumnsAgree
  BY Proved!ColumnsStayTogether, OrdersAssumptions
<1>4. QED
  BY <1>1, <1>2, <1>3, OneSpecIsOrders, PTL

(* With requests one at a time a cached status and the last message differ      *)
(* from the row only while a request runs or after one died.                     *)
THEOREM LagsOnlyIfDied == ~Overlap => (OneSpec => []LagOnlyAfterFailure)
<1>1. Proved!StaleOnlyAfterFailure /\ Proved!SubscribersUpToDate => LagOnlyAfterFailure
  BY SameData DEF LagOnlyAfterFailure, Shop!StaleOnlyAfterFailure,
     Proved!StaleOnlyAfterFailure, Shop!SubscribersUpToDate, Proved!SubscribersUpToDate,
     Shop!StatusOut, Proved!StatusOut
<1>2. ~Overlap /\ Proved!Spec => []Proved!StaleOnlyAfterFailure
  BY Proved!StaleOnlyIfDied, OrdersAssumptions
<1>3. ~Overlap /\ Proved!Spec => []Proved!SubscribersUpToDate
  BY Proved!SubscribersKnow, OrdersAssumptions
<1>4. QED
  BY <1>1, <1>2, <1>3, OneSpecIsOrders, PTL

(* With requests one at a time every commit of the order service is a step of   *)
(* the promised lifecycle.                                                       *)
THEOREM LifecycleRefined == ~Overlap => (OneSpec => ImplementsLifecycle)
<1>1. Proved!Lifecycle!Init => Shop!Lifecycle!Init
  BY DEF Shop!Lifecycle!Init, Proved!Lifecycle!Init
<1>2. [Proved!Lifecycle!Next]_(Proved!Lifecycle!vars) =>
          [Shop!Lifecycle!Next]_(Shop!Lifecycle!vars)
  <2>1. \A o : Proved!Lifecycle!Place(o) => Shop!Lifecycle!Place(o)
    BY DEF Shop!Lifecycle!Place, Proved!Lifecycle!Place
  <2>2. \A o : Proved!Lifecycle!Capture(o) => Shop!Lifecycle!Capture(o)
    BY DEF Shop!Lifecycle!Capture, Proved!Lifecycle!Capture
  <2>3. \A o, t : Proved!Lifecycle!Advance(o, t) => Shop!Lifecycle!Advance(o, t)
    BY SameData DEF Shop!Lifecycle!Advance, Proved!Lifecycle!Advance
  <2>4. \A o : Proved!Lifecycle!Cancel(o) => Shop!Lifecycle!Cancel(o)
    BY SameData DEF Shop!Lifecycle!Cancel, Proved!Lifecycle!Cancel
  <2>5. Proved!Lifecycle!Next => Shop!Lifecycle!Next
    BY <2>1, <2>2, <2>3, <2>4, SameData DEF Shop!Lifecycle!Next, Proved!Lifecycle!Next
  <2>6. QED
    BY <2>5 DEF Shop!Lifecycle!vars, Proved!Lifecycle!vars
<1>3. ~Overlap /\ Proved!Spec => Proved!ImplementsLifecycle
  BY Proved!LifecycleImplemented, OrdersAssumptions
<1>4. QED
  BY <1>1, <1>2, <1>3, OneSpecIsOrders, PTL
  DEF ImplementsLifecycle, Shop!ImplementsLifecycle, Proved!ImplementsLifecycle,
      Shop!Lifecycle!Spec, Proved!Lifecycle!Spec
=============================================================================
