----------------------------- MODULE Storefront ------------------------------
(***************************************************************************)
(* The website's cart and checkout (website), as one browser uses them.     *)
(* Sessions live in the memory of the process, which is the default: a      *)
(* handler gets the session object itself, keeps references to its list of  *)
(* lines and to single lines while it waits for the gateway, and changes    *)
(* made meanwhile are visible to it.  Objects are named by the request that *)
(* made them: a token, a session, a list of lines and a line each.          *)
(*                                                                         *)
(* Behind the gateway the customer service creates an account or an address *)
(* and the order service an order; the answer may be an error or never come. *)
(***************************************************************************)
EXTENDS Integers, FiniteSets

CONSTANTS
    Skus,       \* SKUs on sale
    Quantities, \* quantities that forms send
    Requests,   \* HTTP requests of the browser; each is issued at most once
    None        \* no token, no session

ASSUME StorefrontAssumption ==
    /\ Quantities \subseteq Int
    /\ None \notin Requests

VARIABLES
    cookie,     \* the token that the browser holds
    store,      \* _memory_sessions: store[token] is a session
    session,    \* session[s]: its list of lines and whether it knows the customer
    lines,      \* lines[l]: the lines in the list l
    line,       \* line[i]: SKU and quantity
    req,        \* req[r]: how far the handler of request r has come
    account,    \* customer service: whether the customer is registered
    addresses,  \* customer service: how many addresses the customer has
    order,      \* order service: order[r], the order that request r has sent
    wanted,     \* history: what the customer was told the cart holds
    overlapped, \* history: a request began while another was under way
    disturbed   \* history: an answer was lost, the process died, or the browser dropped
                \* its token while a request was under way

heap == <<session, lines, line>>
services == <<account, addresses, order>>
history == <<wanted, overlapped, disturbed>>
vars == <<cookie, store, heap, req, services, history>>

Idle == {"new", "done", "failed"}

Stage == Idle \cup {"pricing_add", "pricing_update", "registering", "logging_in",
                    "addressing", "ordering"}

Reference == Requests \cup {None}

Line == [sku : Skus, quantity : Int]

Request == [stage : Stage, token : Reference, session : Reference, list : Reference,
            line : Reference, sku : Skus \cup {None}, quantity : Int]

NoRequest == [stage |-> "new", token |-> None, session |-> None, list |-> None,
              line |-> None, sku |-> None, quantity |-> 0]

Order == [state : {"none", "sent", "placed", "refused"}, list : Reference,
          lines : SUBSET Line]

TypeOK ==
    /\ cookie \in Reference
    /\ store \in [Requests -> Reference]
    /\ session \in [Requests -> [cart : Requests, customer : BOOLEAN]]
    /\ lines \in [Requests -> SUBSET Requests]
    /\ \A i \in UNION {lines[l] : l \in Requests} : line[i] \in Line
    /\ req \in [Requests -> Request]
    /\ account \in BOOLEAN /\ addresses \in Nat
    /\ order \in [Requests -> Order]
    /\ wanted \in [Skus -> Nat]
    /\ overlapped \in BOOLEAN /\ disturbed \in BOOLEAN

Init ==
    /\ cookie = None
    /\ store = [t \in Requests |-> None]
    /\ session = [s \in Requests |-> [cart |-> s, customer |-> FALSE]]
    /\ lines = [l \in Requests |-> {}]
    /\ line = [i \in Requests |-> [sku |-> None, quantity |-> 0]]
    /\ req = [r \in Requests |-> NoRequest]
    /\ account = FALSE /\ addresses = 0
    /\ order = [r \in Requests |-> [state |-> "none", list |-> None, lines |-> {}]]
    /\ wanted = [k \in Skus |-> 0]
    /\ overlapped = FALSE /\ disturbed = FALSE

-----------------------------------------------------------------------------
InFlight(r) == req[r].stage \notin Idle

(* load_session: the stored session, or a fresh one for an unknown token.      *)
Loaded(r) == IF cookie # None /\ store[cookie] # None THEN store[cookie] ELSE r

Cart(s) == lines[session[s].cart]

(* _find_cart_item *)
Matching(s, sku) == {i \in Cart(s) : line[i].sku = sku}

(* The first step of a handler.                                                 *)
Begin(r, h) ==
    /\ req[r].stage = "new"
    /\ req' = [req EXCEPT ![r] = h]
    /\ overlapped' = (overlapped \/ \E q \in Requests : InFlight(q))

Held(r, stage) ==
    [NoRequest EXCEPT !.stage = stage, !.token = cookie, !.session = Loaded(r)]

Finish(r, final) == req' = [req EXCEPT ![r] = [NoRequest EXCEPT !.stage = final]]

(* persist_session: the session under its token, or under a new one.           *)
Persist(r, token, s) ==
    LET used == IF token # None THEN token ELSE r IN
    /\ store' = [store EXCEPT ![used] = s]
    /\ cookie' = used

-----------------------------------------------------------------------------
(* The cart. *)

(* cart_add asks for a price first.                                             *)
AddLoad(r, sku, quantity) ==
    /\ Begin(r, [Held(r, "pricing_add") EXCEPT !.sku = sku, !.quantity = quantity])
    /\ UNCHANGED <<cookie, store, heap, services, wanted, disturbed>>

Clamped(n) == IF n < 1 THEN 1 ELSE IF n > 99 THEN 99 ELSE n

(* A plausible slip: every add is a line of its own. *)
PutInCartUnmerged(r, s, sku, n) ==
    /\ line' = [line EXCEPT ![r] = [sku |-> sku, quantity |-> n]]
    /\ lines' = [lines EXCEPT ![session[s].cart] = @ \cup {r}]

(* A line of the SKU grows, or a new line is appended.                          *)
PutInCart(r, s, sku, n) ==
    \/ \E i \in Matching(s, sku) :
           /\ line' = [line EXCEPT ![i].quantity = @ + n]
           /\ UNCHANGED lines
    \/ /\ Matching(s, sku) = {}
       /\ line' = [line EXCEPT ![r] = [sku |-> sku, quantity |-> n]]
       /\ lines' = [lines EXCEPT ![session[s].cart] = @ \cup {r}]

AddPriced(r) ==
    LET h == req[r]
        n == Clamped(h.quantity) IN
    /\ h.stage = "pricing_add"
    /\ PutInCart(r, h.session, h.sku, n)
    /\ Persist(r, h.token, h.session)
    /\ wanted' = [wanted EXCEPT ![h.sku] = @ + n]
    /\ Finish(r, "done")
    /\ UNCHANGED <<session, services, overlapped, disturbed>>

(* No price: the cart page shows an error.                                      *)
AddUnpriced(r) ==
    /\ req[r].stage = "pricing_add"
    /\ Finish(r, "done")
    /\ UNCHANGED <<cookie, store, heap, services, history>>

(* cart_remove, and cart_update to nothing: a new list without the SKU.         *)
Remove(r, sku) ==
    LET s == Loaded(r) IN
    /\ Begin(r, [NoRequest EXCEPT !.stage = "done"])
    /\ lines' = [lines EXCEPT ![r] = Cart(s) \ Matching(s, sku)]
    /\ session' = [session EXCEPT ![s].cart = r]
    /\ Persist(r, cookie, s)
    /\ wanted' = [wanted EXCEPT ![sku] = 0]
    /\ UNCHANGED <<line, services, disturbed>>

(* cart_update of a SKU that the cart does not hold.                            *)
UpdateNothing(r, sku) ==
    /\ Matching(Loaded(r), sku) = {}
    /\ Begin(r, [NoRequest EXCEPT !.stage = "done"])
    /\ Persist(r, cookie, Loaded(r))
    /\ UNCHANGED <<heap, services, wanted, disturbed>>

UpdateLoad(r, sku, quantity) ==
    /\ quantity > 0
    /\ \E i \in Matching(Loaded(r), sku) :
           Begin(r, [Held(r, "pricing_update") EXCEPT
                         !.line = i, !.sku = sku, !.quantity = quantity])
    /\ UNCHANGED <<cookie, store, heap, services, wanted, disturbed>>

(* A plausible slip: an update adds to the line, as an add does. *)
UpdatePricedAdds(r) ==
    LET h == req[r] IN
    /\ h.stage = "pricing_update"
    /\ \/ /\ line' = [line EXCEPT ![h.line].quantity = @ + h.quantity]
          /\ wanted' = [wanted EXCEPT ![h.sku] = h.quantity]
       \/ UNCHANGED <<line, wanted>>
    /\ Persist(r, h.token, h.session)
    /\ Finish(r, "done")
    /\ UNCHANGED <<session, lines, services, overlapped, disturbed>>

(* The line that was found is changed, in the cart or no longer in it.          *)
UpdatePriced(r) ==
    LET h == req[r] IN
    /\ h.stage = "pricing_update"
    /\ \/ /\ line' = [line EXCEPT ![h.line].quantity = h.quantity]
          /\ wanted' = [wanted EXCEPT ![h.sku] = h.quantity]
       \/ UNCHANGED <<line, wanted>>
    /\ Persist(r, h.token, h.session)
    /\ Finish(r, "done")
    /\ UNCHANGED <<session, lines, services, overlapped, disturbed>>

-----------------------------------------------------------------------------
(* Checkout: account, address, order, each a call through the gateway.         *)

(* The order is posted with the lines of the list that was loaded.              *)
SendOrder(r, l) ==
    order' = [order EXCEPT ![r] =
                 [state |-> "sent", list |-> l, lines |-> {line[i] : i \in lines[l]}]]

(* An empty cart is not checked out.                                            *)
CheckoutLoad(r) ==
    LET s == Loaded(r)
        l == session[s].cart IN
    /\ Cart(s) # {}
    /\ IF session[s].customer
       THEN /\ Begin(r, [Held(r, "ordering") EXCEPT !.list = l])
            /\ SendOrder(r, l)
       ELSE /\ Begin(r, [Held(r, "registering") EXCEPT !.list = l])
            /\ UNCHANGED order
    /\ UNCHANGED <<cookie, store, heap, account, addresses, wanted, disturbed>>

Advance(r, stage) == req' = [req EXCEPT ![r].stage = stage]

KnowCustomer(r) == session' = [session EXCEPT ![req[r].session].customer = TRUE]

(* 201: a new account; 409: log in; anything else ends the checkout.            *)
RegisterReturn(r) ==
    /\ req[r].stage = "registering"
    /\ \/ ~account /\ account' = TRUE /\ KnowCustomer(r) /\ Advance(r, "addressing")
       \/ account /\ Advance(r, "logging_in") /\ UNCHANGED <<account, session>>
       \/ Finish(r, "done") /\ UNCHANGED <<account, session>>
    /\ UNCHANGED <<cookie, store, lines, line, addresses, order, history>>

LoginReturn(r) ==
    /\ req[r].stage = "logging_in"
    /\ \/ KnowCustomer(r) /\ Advance(r, "addressing")
       \/ Finish(r, "done") /\ UNCHANGED session
    /\ UNCHANGED <<cookie, store, lines, line, services, history>>

(* The answer to the address is not looked at.                                  *)
AddressReturn(r) ==
    /\ req[r].stage = "addressing"
    /\ addresses' \in {addresses, addresses + 1}
    /\ SendOrder(r, req[r].list)
    /\ Advance(r, "ordering")
    /\ UNCHANGED <<cookie, store, heap, account, history>>

(* create_order of the order service answers what was sent, perhaps long after   *)
(* the website gave up.                                                          *)
OrderHandled(r) ==
    /\ order[r].state = "sent"
    /\ \E outcome \in {"placed", "refused"} :
           order' = [order EXCEPT ![r].state = outcome]
    /\ UNCHANGED <<cookie, store, heap, req, account, addresses, history>>

(* A plausible slip: the cart is left as it is. *)
OrderConfirmedUncleared(r) ==
    LET h == req[r] IN
    /\ h.stage = "ordering" /\ order[r].state = "placed"
    /\ Persist(r, h.token, h.session)
    /\ wanted' = [k \in Skus |-> 0]
    /\ Finish(r, "done")
    /\ UNCHANGED <<heap, services, overlapped, disturbed>>

(* 201: the session gets a new, empty cart.                                     *)
OrderConfirmed(r) ==
    LET h == req[r] IN
    /\ h.stage = "ordering" /\ order[r].state = "placed"
    /\ session' = [session EXCEPT ![h.session].cart = r]
    /\ Persist(r, h.token, h.session)
    /\ wanted' = [k \in Skus |-> 0]
    /\ Finish(r, "done")
    /\ UNCHANGED <<lines, line, services, overlapped, disturbed>>

(* An error page, because the order was refused, or because the gateway gave up *)
(* on an order that is still under way or even placed.                           *)
OrderFailed(r) ==
    /\ req[r].stage = "ordering"
    /\ IF order[r].state = "refused"
       THEN Finish(r, "done") /\ UNCHANGED disturbed
       ELSE Finish(r, "failed") /\ disturbed' = TRUE
    /\ UNCHANGED <<cookie, store, heap, services, wanted, overlapped>>

(* A call times out: what it asked for may have happened all the same.          *)
TimeOut(r) ==
    /\ InFlight(r)
    /\ account' \in {account, account \/ req[r].stage = "registering"}
    /\ addresses' \in {addresses, addresses + (IF req[r].stage = "addressing" THEN 1 ELSE 0)}
    /\ Finish(r, "failed")
    /\ disturbed' = TRUE
    /\ UNCHANGED <<cookie, store, heap, order, wanted, overlapped>>

(* The process restarts without its sessions.                                    *)
Restart ==
    /\ store' = [t \in Requests |-> None]
    /\ req' = [r \in Requests |->
                  IF InFlight(r) THEN [NoRequest EXCEPT !.stage = "failed"] ELSE req[r]]
    /\ disturbed' = TRUE
    /\ UNCHANGED <<cookie, heap, services, wanted, overlapped>>

(* max_age: the browser drops the token when no answer has renewed it for as long  *)
(* as a session may live.  The cart is gone then, for the customer as for the        *)
(* website, and the customer is nobody it knows.                                      *)
CookieExpires ==
    /\ cookie # None
    /\ cookie' = None
    /\ wanted' = [k \in Skus |-> 0]
    /\ disturbed' = (disturbed \/ \E q \in Requests : InFlight(q))
    /\ UNCHANGED <<store, heap, req, services, overlapped>>

Start(r) ==
    \/ \E sku \in Skus, quantity \in Quantities :
           AddLoad(r, sku, quantity) \/ UpdateLoad(r, sku, quantity)
    \/ \E sku \in Skus : Remove(r, sku) \/ UpdateNothing(r, sku)
    \/ CheckoutLoad(r)

Continue(r) ==
    \/ AddPriced(r) \/ AddUnpriced(r) \/ UpdatePriced(r)
    \/ RegisterReturn(r) \/ LoginReturn(r) \/ AddressReturn(r)
    \/ OrderConfirmed(r) \/ OrderFailed(r)
    \/ TimeOut(r)

Next ==
    \/ \E r \in Requests : Start(r) \/ Continue(r) \/ OrderHandled(r)
    \/ Restart \/ CookieExpires

Spec == Init /\ [][Next]_vars

-----------------------------------------------------------------------------
(* Properties. *)

(* However requests of the browser overlap, no list ever holds two lines of one *)
(* SKU: the existing line is looked for after the price came back, not before.    *)
OneLinePerSku ==
    \A l \in Requests : \A i, j \in lines[l] : line[i].sku = line[j].sku => i = j

(* However requests overlap, time out or die, an order that is sent has lines,   *)
(* each of at least one unit, and belongs to a customer that is registered.       *)
OrdersAreSound ==
    \A r \in Requests : order[r].state # "none" =>
        /\ order[r].lines # {} /\ \A x \in order[r].lines : x.quantity >= 1
        /\ account

Shown(sku) ==
    IF cookie = None \/ store[cookie] = None THEN {}
    ELSE {line[i].quantity : i \in Matching(store[cookie], sku)}

(* As long as requests do not overlap, no answer is lost and the process lives,  *)
(* the cart holds what the customer was told it holds, nothing once the cookie has  *)
(* expired, and what is sent to be ordered is exactly that.                          *)
CartIsWhatWasWanted ==
    ~overlapped /\ ~disturbed =>
        /\ \A sku \in Skus :
               Shown(sku) = IF wanted[sku] = 0 THEN {} ELSE {wanted[sku]}
        /\ \A r \in Requests : req[r].stage = "ordering" =>
               order[r].lines = {[sku |-> k, quantity |-> wanted[k]] :
                                     k \in {j \in Skus : wanted[j] > 0}}

(* Sessions that know their customer. *)
Known == {s \in Requests : session[s].customer}

(* As long as requests do not overlap, but whatever answers are lost, cookies       *)
(* expire and processes die: of two orders placed of one cart at least one was       *)
(* reported to the customer as failed, and a session adds at most one address to      *)
(* its customer (a customer who comes back in a new session gets another).            *)
OrderedOnce ==
    ~overlapped =>
        /\ \A q, r \in Requests :
               /\ q # r /\ order[q].list = order[r].list
               /\ order[q].state = "placed" /\ order[r].state = "placed"
               => req[q].stage = "failed" \/ req[r].stage = "failed"
        /\ addresses <= Cardinality(Known)
=============================================================================
