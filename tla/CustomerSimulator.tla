-------------------------- MODULE CustomerSimulator --------------------------
(***************************************************************************)
(* The customer simulator (customer_simulator): one loop that registers        *)
(* customers, places orders and, every third time round, pages through the       *)
(* orders of each status and patches them to the next.  The order service is     *)
(* seen from outside: it lists orders newest first, refuses a step that is not    *)
(* allowed, and has other clients that place, patch and cancel orders.  An HTTP error    *)
(* may mean that the request was carried out all the same.                         *)
(***************************************************************************)
EXTENDS Naturals, SequencesExt, FiniteSetsExt

CONSTANTS
    Goods,      \* SKUs of the catalog
    Purchases,   \* identities of orders
    PageSize,   \* page_size (100)
    FewGoods,   \* the smallest catalog that a wholesale cart can be drawn from (4)
    People      \* how many customers are registered at most

CustomerSimulatorAssumption ==
    /\ IsFiniteSet(Goods) /\ IsFiniteSet(Purchases)
    /\ {PageSize, FewGoods} \subseteq Nat \ {0} /\ People \in Nat

VARIABLES
    status,     \* status[o] of an order at the order service
    listing,    \* the orders there, newest first
    mine,       \* history: those that the simulator placed
    sim,        \* the loop: its stage and what it holds
    skus,       \* _skus
    customers,  \* the length of _customers
    registered, \* history: the customers that the customer service registered for it
    placed,     \* orders_placed
    unanswered  \* history: a request was carried out and its answer lost

vars == <<status, listing, mine, sim, skus, customers, registered, placed, unanswered>>

counters == <<skus, customers, registered, placed>>

(* advance_orders: from one status to the next. *)
Pipeline == <<"confirmed", "in_fulfillment", "shipped", "delivered", "closed">>

(* A plausible slip: the first step is left to the warehouse. *)
PassesShort == 2..4

Passes == 1..4

OrderStatus == ToSet(Pipeline) \cup {"absent", "cancelled"}

Stage == {"off", "starting", "shopping", "ordering", "paging", "patching", "resting", "over"}

(* round: the cycle modulo three; pass: the step of the pipeline it is at; offset and     *)
(* batch: the page to fetch next and the orders of the pages so far.                        *)
Loop == [stage |-> "off", round |-> 0, pass |-> 0, offset |-> 0, batch |-> <<>>]

TypeOK ==
    /\ status \in [Purchases -> OrderStatus]
    /\ ToSet(listing) = {o \in Purchases : status[o] # "absent"} /\ mine \subseteq ToSet(listing)
    /\ sim.stage \in Stage /\ sim.round \in 0..2 /\ sim.pass \in 0..4
    /\ skus \subseteq Goods /\ {customers, registered} \subseteq 0..People

Init ==
    /\ status = [o \in Purchases |-> "absent"] /\ listing = <<>> /\ mine = {}
    /\ sim = Loop /\ skus = {} /\ customers = 0 /\ registered = 0 /\ placed = 0
    /\ unanswered = FALSE

-----------------------------------------------------------------------------
(* Other clients. *)

Arrives(o) ==
    /\ status[o] = "absent"
    /\ status' = [status EXCEPT ![o] = "confirmed"]
    /\ listing' = <<o>> \o listing

OtherOrder(o) == Arrives(o) /\ UNCHANGED <<mine, sim, counters, unanswered>>

(* They cancel an order, or patch its status, before the simulator does.                    *)
OtherCancel(o) ==
    /\ status[o] \in {"confirmed", "in_fulfillment"}
    /\ status' = [status EXCEPT ![o] = "cancelled"]
    /\ UNCHANGED <<listing, mine, sim, counters, unanswered>>

OtherPatch(o) ==
    /\ \E i \in 1..4 : /\ status[o] = Pipeline[i]
                       /\ status' = [status EXCEPT ![o] = Pipeline[i + 1]]
    /\ UNCHANGED <<listing, mine, sim, counters, unanswered>>

-----------------------------------------------------------------------------
Go(stage) == sim' = [sim EXCEPT !.stage = stage]

AfterShopping == IF sim.round = 0 THEN [sim EXCEPT !.stage = "paging", !.pass = Min(Passes)]
                 ELSE [sim EXCEPT !.stage = "resting"]

(* main: the container is started. *)
StartSimulator ==
    /\ sim.stage = "off"
    /\ Go("starting")
    /\ UNCHANGED <<status, listing, mine, counters, unanswered>>

(* refresh_catalog: at the start, and again while no SKU is known.  An HTTP error before   *)
(* the loop has begun ends the program.                                                     *)
RefreshCatalog ==
    /\ sim.stage = "starting" \/ (sim.stage = "shopping" /\ skus = {})
    /\ \/ \E some \in SUBSET Goods :
              /\ skus' = some
              /\ sim' = IF sim.stage = "starting" THEN [sim EXCEPT !.stage = "shopping"]
                        ELSE IF some = {} THEN AfterShopping ELSE sim
       \/ /\ sim' = IF sim.stage = "starting" THEN [sim EXCEPT !.stage = "over"]
                    ELSE AfterShopping
          /\ UNCHANGED skus
    /\ UNCHANGED <<status, listing, mine, customers, registered, placed, unanswered>>

(* _pick_customer: a customer that is known, or a new one.                                   *)
PickCustomer ==
    /\ sim.stage = "shopping" /\ skus # {}
    /\ \/ customers > 0 /\ Go("ordering") /\ UNCHANGED <<customers, registered, unanswered>>
       \/ /\ registered < People
          /\ registered' = registered + 1 /\ customers' = customers + 1
          /\ Go("ordering") /\ UNCHANGED unanswered
       \/ /\ registered < People                                   \* the answer is lost
          /\ registered' = registered + 1 /\ unanswered' = TRUE
          /\ sim' = AfterShopping /\ UNCHANGED customers
       \/ /\ sim' = IF customers > 0 THEN [sim EXCEPT !.stage = "ordering"] ELSE AfterShopping
          /\ UNCHANGED <<customers, registered, unanswered>>       \* registration was refused
    /\ UNCHANGED <<status, listing, mine, skus, placed>>

(* place_order with a cart from build_random_cart.                                            *)
PlaceOrder(o) ==
    /\ sim.stage = "ordering"
    /\ Arrives(o) /\ mine' = mine \cup {o}
    /\ \/ placed' = placed + 1 /\ UNCHANGED unanswered
       \/ unanswered' = TRUE /\ UNCHANGED placed
    /\ sim' = AfterShopping
    /\ UNCHANGED <<skus, customers, registered>>

(* A plausible slip: every attempt is counted. *)
PlaceNothingCounted ==
    /\ sim.stage = "ordering"
    /\ placed' = placed + 1
    /\ sim' = AfterShopping
    /\ UNCHANGED <<status, listing, mine, skus, customers, registered, unanswered>>

(* The order was refused, or the request failed before it came to anything.                    *)
PlaceNothing ==
    /\ sim.stage = "ordering"
    /\ sim' = AfterShopping
    /\ UNCHANGED <<status, listing, mine, counters, unanswered>>

WholesaleImpossible(n) == n < FewGoods

(* A wholesale cart has at least four lines: drawn from a smaller catalog, it ends the          *)
(* program, for the loop survives HTTP errors only.                                               *)
DrawWholesale ==
    /\ sim.stage = "ordering" /\ WholesaleImpossible(Cardinality(skus))
    /\ Go("over")
    /\ UNCHANGED <<status, listing, mine, counters, unanswered>>

-----------------------------------------------------------------------------
(* advance_orders *)

From == Pipeline[sim.pass]

Listed == SelectSeq(listing, LAMBDA o : status[o] = From)

(* _fetch_all_by_status: offsets count from the newest, whatever came or went since.              *)
FetchPage(i) ==
    LET page == SubSeq(Listed, sim.offset + 1, Min({sim.offset + PageSize, Len(Listed)})) IN
    /\ sim.stage = "paging" /\ sim.pass = i
    /\ sim' = [sim EXCEPT !.batch = @ \o page,
                          !.stage = IF Len(page) < PageSize THEN "patching" ELSE "paging",
                          !.offset = IF Len(page) < PageSize THEN 0 ELSE @ + PageSize]
    /\ UNCHANGED <<status, listing, mine, counters, unanswered>>

(* An error ends the paging; what was fetched is worked on.                                       *)
FetchPageFails ==
    /\ sim.stage = "paging"
    /\ sim' = [sim EXCEPT !.stage = "patching", !.offset = 0]
    /\ UNCHANGED <<status, listing, mine, counters, unanswered>>

(* PATCH /orders/{id}/status: refused if the order has moved.                                     *)
Patch(o) ==
    /\ sim.stage = "patching" /\ sim.batch # <<>> /\ o = Head(sim.batch)
    /\ status' = IF status[o] = From THEN [status EXCEPT ![o] = Pipeline[sim.pass + 1]]
                 ELSE status
    /\ sim' = [sim EXCEPT !.batch = Tail(@)]
    /\ UNCHANGED <<listing, mine, counters, unanswered>>

PatchFails ==
    /\ sim.stage = "patching" /\ sim.batch # <<>>
    /\ sim' = [sim EXCEPT !.batch = Tail(@)]
    /\ UNCHANGED <<status, listing, mine, counters, unanswered>>

NextPass ==
    /\ sim.stage = "patching" /\ sim.batch = <<>>
    /\ sim' = IF sim.pass = Max(Passes) THEN [sim EXCEPT !.stage = "resting", !.pass = 0]
              ELSE [sim EXCEPT !.stage = "paging", !.pass = @ + 1]
    /\ UNCHANGED <<status, listing, mine, counters, unanswered>>

Rest ==
    /\ sim.stage = "resting"
    /\ sim' = [sim EXCEPT !.stage = "shopping", !.round = (@ + 1) % 3]
    /\ UNCHANGED <<status, listing, mine, counters, unanswered>>

Step ==
    \/ RefreshCatalog \/ PickCustomer \/ (\E o \in Purchases : PlaceOrder(o)) \/ PlaceNothing
    \/ DrawWholesale \/ (\E i \in 1..4 : FetchPage(i)) \/ FetchPageFails
    \/ (\E o \in Purchases : Patch(o)) \/ PatchFails \/ NextPass \/ Rest

Next ==
    \/ StartSimulator \/ Step
    \/ \E o \in Purchases : OtherOrder(o) \/ OtherCancel(o) \/ OtherPatch(o)

(* The loop never waits for anything but a timer and answers that come within their             *)
(* timeouts, and neither a list nor a patch fails each time.                                      *)
Fairness ==
    /\ WF_vars(Step)
    /\ \A i \in 1..4 : SF_vars(FetchPage(i))
    /\ \A o \in Purchases : SF_vars(Patch(o))

-----------------------------------------------------------------------------
(* The simulator has counted the orders that exist because of it, and the customers, and fewer   *)
(* only if an answer was lost after the request was carried out (place_order, _pick_customer).      *)
CountsWhatItDid ==
    /\ placed <= Cardinality(mine) /\ customers <= registered
    /\ ~unanswered => placed = Cardinality(mine) /\ customers = registered

(* HTTP errors do not end the loop; too small a catalog does, or none at the start (run_loop).      *)
EndsOfSmallCatalog == sim.stage = "over" => Cardinality(skus) < FewGoods

(* As long as the simulator runs, every confirmed order is closed or cancelled in the end, however   *)
(* the pages shift while other clients place and cancel orders (advance_orders).                       *)
OrdersAreClosed ==
    \A o \in Purchases :
        (status[o] = "confirmed") ~>
            (status[o] \in {"closed", "cancelled"} \/ sim.stage \in {"off", "over"})
=============================================================================
