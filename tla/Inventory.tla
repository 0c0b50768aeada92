----------------------------- MODULE Inventory ------------------------------
(***************************************************************************)
(* The inventory service (inventory_service): stock rows, reservations and *)
(* the movement ledger in PostgreSQL, and a Redis counter of the available *)
(* units of each row.  A request reads a row, decides in memory, sets the  *)
(* counter in Redis and only then commits; no row is locked, and an UPDATE *)
(* writes the columns the request changed with the values it computed.     *)
(* An UPDATE that waits for another transaction's row lock is a commit     *)
(* that comes later; a deadlock victim is a request that dies.             *)
(***************************************************************************)
EXTENDS Integers, FiniteSets, Functions

CONSTANTS
    Locations,  \* stock rows: a SKU at a fulfillment center
    OrderIds,   \* orders that units are reserved for
    Requests,   \* HTTP requests; each is issued at most once
    Deltas,     \* quantity_delta of an adjustment
    Quantities, \* quantity of a reservation
    Nothing,    \* the location or order of a request that has none
    Overlap,    \* TRUE: requests interleave; FALSE: one at a time
    MayFail     \* TRUE: a request may die between two of its steps

ASSUME InventoryAssumption ==
    /\ Nothing \notin Locations \cup OrderIds
    /\ Deltas \subseteq Int
    /\ Quantities \subseteq Nat \ {0}
    /\ Overlap \in BOOLEAN
    /\ MayFail \in BOOLEAN

VARIABLES
    stock,      \* stock[k]: the sku_stock row
    resv,       \* resv[r]: the reservation that request r inserted
    movements,  \* the stock_movements rows
    counter,    \* counter[k]: the Redis counter, 0 while it is not set
    req,        \* req[r]: how far the handler of request r has come
    mem         \* mem[r][k]: the row as request r holds it in its session

vars == <<stock, resv, movements, counter, req, mem>>

Idle == {"new", "done", "failed"}

Stage == Idle \cup {"computed", "releasing", "counted"}

Kind == {"none", "adjust", "reserve", "release", "reorder"}

StockRow == [present : BOOLEAN, on_hand : Int, reserved : Int]

NoStock == [present |-> FALSE, on_hand |-> 0, reserved |-> 0]

Reservation == [status : {"none", "active", "released"}, key : Locations \cup {Nothing},
                order : OrderIds \cup {Nothing}, quantity : Nat]

NoReservation == [status |-> "none", key |-> Nothing, order |-> Nothing, quantity |-> 0]

(* The row a session holds: what it loaded and what it will write. *)
Loaded == [loaded : BOOLEAN, before : StockRow, after : StockRow]

NotLoaded == [loaded |-> FALSE, before |-> NoStock, after |-> NoStock]

Request == [stage : Stage, kind : Kind, key : Locations \cup {Nothing},
            order : OrderIds \cup {Nothing}, amount : Int,
            todo : SUBSET Requests, batch : SUBSET Requests]

NoRequest == [stage |-> "new", kind |-> "none", key |-> Nothing, order |-> Nothing,
              amount |-> 0, todo |-> {}, batch |-> {}]

TypeOK ==
    /\ stock \in [Locations -> StockRow]
    /\ resv \in [Requests -> Reservation]
    /\ movements \subseteq [by : Requests, of : Requests, key : Locations, delta : Int]
    /\ counter \in [Locations -> Int]
    /\ req \in [Requests -> Request]
    /\ mem \in [Requests -> [Locations -> Loaded]]

Init ==
    /\ stock = [k \in Locations |-> NoStock]
    /\ resv = [r \in Requests |-> NoReservation]
    /\ movements = {}
    /\ counter = [k \in Locations |-> 0]
    /\ req = [r \in Requests |-> NoRequest]
    /\ mem = [r \in Requests |-> [k \in Locations |-> NotLoaded]]

-----------------------------------------------------------------------------
MayStart(r) ==
    /\ req[r].stage = "new"
    /\ Overlap \/ \A q \in Requests : req[q].stage \in Idle

(* A finished handler closes its session: nothing stays in memory. *)
Finish(r, final) ==
    /\ req' = [req EXCEPT ![r] = [NoRequest EXCEPT !.stage = final]]
    /\ mem' = [mem EXCEPT ![r] = [k \in Locations |-> NotLoaded]]

(* get_or_create_stock: the row, or a new one inserted with zeros.  The       *)
(* unique index makes an insert wait for another request's uncommitted        *)
(* insert of the same row.                                                     *)
MayLoad(r, k) ==
    \/ stock[k].present
    \/ \A q \in Requests \ {r} : ~mem[q][k].loaded

Hold(r, k, after) ==
    mem' = [mem EXCEPT ![r][k] = [loaded |-> TRUE, before |-> stock[k],
                                  after |-> [after EXCEPT !.present = TRUE]]]

Begin(r, stage, kind, k, amount, o) ==
    req' = [req EXCEPT ![r] = [NoRequest EXCEPT !.stage = stage, !.kind = kind, !.key = k,
                                                !.amount = amount, !.order = o]]

(* A plausible slip: an adjustment only has to leave units on hand. *)
AdjustmentAllowedUnreserved(row, new_on_hand) == new_on_hand >= 0

(* adjust_stock: 409 below the reserved quantity or below zero. *)
AdjustmentAllowed(row, new_on_hand) == new_on_hand >= row.reserved /\ new_on_hand >= 0

AdjustRead(r, k, delta) ==
    LET new_on_hand == stock[k].on_hand + delta IN
    /\ MayStart(r)
    /\ MayLoad(r, k)
    /\ AdjustmentAllowed(stock[k], new_on_hand)
    /\ Hold(r, k, [stock[k] EXCEPT !.on_hand = new_on_hand])
    /\ Begin(r, "computed", "adjust", k, delta, Nothing)
    /\ UNCHANGED <<stock, resv, movements, counter>>

(* A plausible slip: the check compares with the units on hand. *)
EnoughOnHand(row, quantity) == row.on_hand >= quantity

EnoughAvailable(row, quantity) == row.on_hand - row.reserved >= quantity

(* reserve_stock: 409 unless the units are available. *)
ReserveRead(r, k, quantity, o) ==
    /\ MayStart(r)
    /\ MayLoad(r, k)
    /\ EnoughAvailable(stock[k], quantity)
    /\ Hold(r, k, [stock[k] EXCEPT !.reserved = @ + quantity])
    /\ Begin(r, "computed", "reserve", k, quantity, o)
    /\ UNCHANGED <<stock, resv, movements, counter>>

(* set_reorder_point: may create the row; writes no quantity and no counter. *)
ReorderRead(r, k) ==
    /\ MayStart(r)
    /\ MayLoad(r, k)
    /\ Hold(r, k, stock[k])
    /\ Begin(r, "counted", "reorder", k, 0, Nothing)
    /\ UNCHANGED <<stock, resv, movements, counter>>

Active == {i \in Requests : resv[i].status = "active"}

(* release_reservation selects the active reservations by id or by order;     *)
(* 404 if there are none.                                                      *)
ReleaseSelect(r, batch) ==
    /\ MayStart(r)
    /\ batch # {}
    /\ req' = [req EXCEPT ![r] = [NoRequest EXCEPT !.stage = "releasing", !.kind = "release",
                                                   !.todo = batch, !.batch = batch]]
    /\ UNCHANGED <<stock, resv, movements, counter, mem>>

ReleaseById(r) == \E i \in Active : ReleaseSelect(r, {i})

(* All reservations of an order, or those in the rows of the SKU that is named with it. *)
ReleaseByOrder(r) ==
    \E o \in OrderIds, rows \in SUBSET Locations :
        ReleaseSelect(r, {i \in Active : resv[i].order = o /\ resv[i].key \in rows})

(* A plausible slip: the difference is stored as it is. *)
AnyNumber(n) == n

AtLeastZero(n) == IF n < 0 THEN 0 ELSE n

(* One turn of the release loop: the row is read unless the session already    *)
(* holds it, and its reserved quantity lowered in memory.                       *)
ReleaseOne(r, i) ==
    LET k == resv[i].key
        held == IF mem[r][k].loaded THEN mem[r][k].after ELSE stock[k]
        before == IF mem[r][k].loaded THEN mem[r][k].before ELSE stock[k] IN
    /\ req[r].stage = "releasing"
    /\ i \in req[r].todo
    /\ mem' = [mem EXCEPT ![r][k] =
                 [loaded |-> TRUE, before |-> before,
                  after |-> [held EXCEPT !.reserved = AtLeastZero(@ - resv[i].quantity)]]]
    /\ req' = [req EXCEPT ![r].stage = "computed", ![r].key = k, ![r].todo = @ \ {i}]
    /\ UNCHANGED <<stock, resv, movements, counter>>

(* sync_stock_counter: a SET of the figure in memory, before the commit. *)
SetCounter(r) ==
    LET k == req[r].key
        row == mem[r][k].after IN
    /\ req[r].stage = "computed"
    /\ counter' = [counter EXCEPT ![k] = row.on_hand - row.reserved]
    /\ req' = [req EXCEPT ![r].stage = IF req[r].todo = {} THEN "counted" ELSE "releasing"]
    /\ UNCHANGED <<stock, resv, movements, mem>>

-----------------------------------------------------------------------------
(* The commit: each loaded row gets the columns that changed in memory, the    *)
(* reservation is inserted or the batch marked released, and the movements      *)
(* are added.                                                                   *)

Written(now, held) ==
    IF ~held.loaded THEN now
    ELSE [present |-> TRUE,
          on_hand |-> IF held.after.on_hand # held.before.on_hand
                      THEN held.after.on_hand ELSE now.on_hand,
          reserved |-> IF held.after.reserved # held.before.reserved
                       THEN held.after.reserved ELSE now.reserved]

Movement(r, i, k, delta) == [by |-> r, of |-> i, key |-> k, delta |-> delta]

(* A plausible slip: a release moves the units the wrong way. *)
RecordMovementsReversed(r) ==
    CASE req[r].kind = "adjust" -> {Movement(r, r, req[r].key, req[r].amount)}
      [] req[r].kind = "reserve" -> {Movement(r, r, req[r].key, -req[r].amount)}
      [] req[r].kind = "release" ->
             {Movement(r, i, resv[i].key, -resv[i].quantity) : i \in req[r].batch}
      [] OTHER -> {}

(* record_movement, called once per adjustment, reservation or release.         *)
RecordMovements(r) ==
    CASE req[r].kind = "adjust" -> {Movement(r, r, req[r].key, req[r].amount)}
      [] req[r].kind = "reserve" -> {Movement(r, r, req[r].key, -req[r].amount)}
      [] req[r].kind = "release" ->
             {Movement(r, i, resv[i].key, resv[i].quantity) : i \in req[r].batch}
      [] OTHER -> {}

(* A plausible slip: released reservations keep their status. *)
ReservationsAfterUnreleased(r) ==
    IF req[r].kind = "reserve"
    THEN [resv EXCEPT ![r] = [status |-> "active", key |-> req[r].key,
                              order |-> req[r].order, quantity |-> req[r].amount]]
    ELSE resv

ReservationsAfter(r) ==
    IF req[r].kind = "reserve"
    THEN [resv EXCEPT ![r] = [status |-> "active", key |-> req[r].key,
                              order |-> req[r].order, quantity |-> req[r].amount]]
    ELSE [i \in Requests |-> IF i \in req[r].batch
                             THEN [resv[i] EXCEPT !.status = "released"] ELSE resv[i]]

Commit(r) ==
    /\ req[r].stage = "counted"
    /\ stock' = [k \in Locations |-> Written(stock[k], mem[r][k])]
    /\ resv' = ReservationsAfter(r)
    /\ movements' = movements \cup RecordMovements(r)
    /\ Finish(r, "done")
    /\ UNCHANGED counter

(* The process dies, a statement fails or PostgreSQL picks the transaction      *)
(* as a deadlock victim: everything but the Redis counter is rolled back.       *)
Fail(r) ==
    /\ MayFail
    /\ req[r].stage \notin Idle
    /\ Finish(r, "failed")
    /\ UNCHANGED <<stock, resv, movements, counter>>

Next ==
    \E r \in Requests :
        \/ \E k \in Locations, delta \in Deltas : AdjustRead(r, k, delta)
        \/ \E k \in Locations, q \in Quantities, o \in OrderIds : ReserveRead(r, k, q, o)
        \/ \E k \in Locations : ReorderRead(r, k)
        \/ ReleaseById(r)
        \/ ReleaseByOrder(r)
        \/ \E i \in Requests : ReleaseOne(r, i)
        \/ SetCounter(r)
        \/ Commit(r)
        \/ Fail(r)

Spec == Init /\ [][Next]_vars

-----------------------------------------------------------------------------
(* Properties. *)

Promised(k) ==
    SumFunctionOnSet([i \in Requests |-> resv[i].quantity], {i \in Active : resv[i].key = k})

(* However requests interleave and fail, no quantity becomes negative: lost      *)
(* updates and double releases may leave wrong figures, never negative ones.     *)
NeverNegative ==
    \A k \in Locations : stock[k].on_hand >= 0 /\ stock[k].reserved >= 0

(* Whatever the interleaving, a request in flight holds figures that would be    *)
(* legal to write on their own: what it will store is not negative and it        *)
(* reserves no more than the units it saw.                                       *)
HeldFiguresLegal ==
    \A r \in Requests, k \in Locations :
        mem[r][k].loaded =>
            /\ mem[r][k].after.on_hand >= 0
            /\ mem[r][k].after.reserved >= 0
            /\ req[r].kind \in {"adjust", "reserve"} =>
                   mem[r][k].after.reserved <= mem[r][k].after.on_hand

(* The reserved units of a row are on hand. *)
ReservedOnHand == \A k \in Locations : stock[k].reserved <= stock[k].on_hand

(* The units promised by active reservations are on hand: nothing is sold        *)
(* twice.                                                                        *)
NothingOversold == \A k \in Locations : Promised(k) <= stock[k].on_hand

(* Replaying the movement ledger gives the available units of the row: no        *)
(* adjustment, reservation or release is lost.                                   *)
LedgerExplainsStock ==
    \A k \in Locations :
        SumFunctionOnSet([m \in movements |-> m.delta], {m \in movements : m.key = k})
            = stock[k].on_hand - stock[k].reserved

(* One at a time, the Redis counter of a row differs from the available units     *)
(* only while a request runs or after one died between its SET and its commit.    *)
CounterOffOnlyAfterFailure ==
    \A k \in Locations :
        \/ counter[k] = stock[k].on_hand - stock[k].reserved
        \/ \E r \in Requests : req[r].stage \notin {"new", "done"}

Book ==
    INSTANCE StockBook WITH
        Tickets <- Requests,
        onHand <- [k \in Locations |-> stock[k].on_hand],
        active <- {[ticket |-> i, key |-> resv[i].key, quantity |-> resv[i].quantity] :
                      i \in Active}

(* One at a time, the reserved column is exactly the active reservations: every   *)
(* commit adjusts, reserves what is available, or releases, as the book promises.  *)
ImplementsBook == Book!Spec
=============================================================================
