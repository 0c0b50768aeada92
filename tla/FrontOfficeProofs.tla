-------------------------- MODULE FrontOfficeProofs --------------------------
(***************************************************************************)
(* Proofs about FrontOffice for every value of its constants: what its     *)
(* three parts promise however requests overlap, time out or die, and what *)
(* the catalog and the warehouse promise until they do.  The storefront's  *)
(* objects are named by requests; a list holds one line of a SKU, and what *)
(* is sent to be ordered is sound.  While its requests come one at a time,  *)
(* the only one knows the current cart, which is what the customer was      *)
(* told and is ordered once.  In fulfillment the handler under way knows    *)
(* the jobs that nobody has been told about.  In the catalog nothing stale  *)
(* outlives the sweep of the handler that made it stale.                    *)
(***************************************************************************)
EXTENDS FrontOffice, Sequences, FiniteSetTheorems, TLAPS

CheckingOut == {"registering", "logging_in", "addressing", "ordering"}

StoreTypes ==
    /\ cookie \in Reference
    /\ store \in [Requests -> Reference]
    /\ session \in [Requests -> [cart : Requests, customer : BOOLEAN]]
    /\ lines \in [Requests -> SUBSET Requests]
    /\ line \in [Requests -> [sku : Skus \cup {None}, quantity : Int]]
    /\ req \in [Requests -> Request]
    /\ account \in BOOLEAN /\ addresses \in Nat
    /\ order \in [Requests -> Order]
    /\ wanted \in [Skus -> Nat]

(* What a handler h of request r holds on to.                                  *)
HoldsOK(r, h) ==
    /\ h.stage \notin Idle => h.session \in Requests
                              /\ (h.session = r \/ req[h.session].stage = "done")
    /\ h.stage \in {"pricing_add", "pricing_update"} => h.sku \in Skus
    /\ h.stage = "pricing_update" => h.line \in Requests /\ h.quantity > 0
    /\ h.stage \in CheckingOut => h.list \in Requests /\ lines[h.list] # {}
    /\ h.stage \in {"logging_in", "addressing"} => account

(* Objects are named by the request that made them: until it is done nobody    *)
(* else finds its session, its list or its line.                               *)
Objects ==
    /\ \A r \in Requests : req[r].stage # "done" => lines[r] = {} /\ session[r].cart = r
    /\ \A t \in Requests : store[t] # None => req[store[t]].stage = "done"
    /\ \A s \in Requests :
           session[s].cart # s => req[session[s].cart].stage = "done"
    /\ \A l \in Requests : \A i \in lines[l] : req[i].stage = "done"

LinesSound ==
    \A l \in Requests :
        /\ \A i \in lines[l] : line[i].sku \in Skus /\ line[i].quantity >= 1
        /\ \A i, j \in lines[l] : line[i].sku = line[j].sku => i = j

CustomersKnown ==
    /\ \A s \in Requests : session[s].customer => account
    /\ \A r \in Requests : req[r].stage = "ordering" => order[r].state # "none"

StoreInv ==
    /\ StoreTypes /\ \A r \in Requests : HoldsOK(r, req[r])
    /\ Objects /\ LinesSound /\ CustomersKnown /\ OrdersAreSound

LEMMA FreshRequest ==
  /\ NoRequest \in Request /\ NoRequest.stage = "new" /\ None \notin Requests
  /\ \A stage \in Stage : [NoRequest EXCEPT !.stage = stage] \in Request
                          /\ [NoRequest EXCEPT !.stage = stage].stage = stage
BY StorefrontAssumption DEF NoRequest, Request, Reference, Stage, Idle

LEMMA StoreInit == Init => StoreInv
<1> SUFFICES ASSUME Init PROVE StoreInv
  OBVIOUS
<1>1. StoreTypes
  <2>1. req \in [Requests -> Request]
    BY FreshRequest DEF Init
  <2>2. order \in [Requests -> Order]
    BY DEF Init, Order, Reference
  <2>3. /\ session \in [Requests -> [cart : Requests, customer : BOOLEAN]]
        /\ lines \in [Requests -> SUBSET Requests]
    BY DEF Init
  <2>4. line \in [Requests -> [sku : Skus \cup {None}, quantity : Int]]
    BY DEF Init
  <2>5. cookie \in Reference /\ store \in [Requests -> Reference] /\ wanted \in [Skus -> Nat]
    BY DEF Init, Reference
  <2>6. account \in BOOLEAN /\ addresses \in Nat
    BY DEF Init
  <2> QED BY <2>1, <2>2, <2>3, <2>4, <2>5, <2>6 DEF StoreTypes
<1>2. \A r \in Requests : req[r].stage = "new"
  BY FreshRequest DEF Init
<1>3. (\A r \in Requests : HoldsOK(r, req[r])) /\ Objects /\ LinesSound
  BY <1>2 DEF Init, HoldsOK, Objects, LinesSound, Idle, CheckingOut
<1>4. CustomersKnown /\ OrdersAreSound
  BY <1>2 DEF Init, CustomersKnown, OrdersAreSound
<1> QED BY <1>1, <1>3, <1>4 DEF StoreInv

(* What a handler starts with.                                                  *)
LEMMA LoadedFacts ==
  ASSUME StoreInv, NEW r \in Requests
  PROVE  /\ Loaded(r) \in Requests
         /\ Loaded(r) = r \/ req[Loaded(r)].stage = "done"
BY FreshRequest DEF StoreInv, StoreTypes, Objects, Loaded, Reference

LEMMA HeldFacts ==
  ASSUME StoreInv, NEW r \in Requests, NEW stage \in Stage
  PROVE  /\ Held(r, stage) \in Request /\ Held(r, stage).stage = stage
         /\ Held(r, stage).token = cookie /\ Held(r, stage).session = Loaded(r)
BY LoadedFacts, FreshRequest DEF StoreInv, StoreTypes, Held, NoRequest, Request, Reference

(* A request moves on, the lists and lines stay as they are.                    *)
LEMMA RequestMoves ==
  ASSUME StoreInv, NEW r \in Requests, req[r].stage \notin {"done", "failed"},
         NEW h \in Request, h.stage # "new", HoldsOK(r, h)',
         req' = [req EXCEPT ![r] = h],
         UNCHANGED <<store, lines, line>>, cookie' \in Reference,
         session' \in [Requests -> [cart : Requests, customer : BOOLEAN]],
         \A s \in Requests : session'[s].cart = session[s].cart
                             /\ (session'[s].customer => account'),
         account' \in BOOLEAN, account => account', addresses' \in Nat,
         order' \in [Requests -> Order], OrdersAreSound',
         \A q \in Requests : q # r => order'[q] = order[q],
         h.stage = "ordering" => order'[r].state # "none",
         wanted' \in [Skus -> Nat]
  PROVE  StoreInv'
<1>1. /\ req \in [Requests -> Request] /\ req' \in [Requests -> Request] /\ req'[r] = h
      /\ \A q \in Requests : q # r => req'[q] = req[q]
      /\ \A q \in Requests : req[q].stage = "done" => req'[q].stage = "done"
      /\ \A q \in Requests : req'[q].stage # "done" => req[q].stage # "done"
  BY DEF StoreInv, StoreTypes
<1>2. StoreTypes'
  BY <1>1 DEF StoreInv, StoreTypes
<1>3. ASSUME NEW q \in Requests PROVE HoldsOK(q, req[q])'
  <2>1. CASE q = r
    BY <1>1, <2>1 DEF HoldsOK
  <2>2. CASE q # r
    <3>1. HoldsOK(q, req[q]) /\ req'[q] = req[q]
      BY <1>1, <2>2 DEF StoreInv
    <3> QED BY <1>1, <3>1 DEF HoldsOK
  <2> QED BY <2>1, <2>2
<1>4. Objects'
  <2>1. \A t \in Requests : store[t] # None => store[t] \in Requests
    BY DEF StoreInv, StoreTypes, Reference
  <2>2. \A s \in Requests : session[s].cart \in Requests /\ lines[s] \subseteq Requests
    BY DEF StoreInv, StoreTypes
  <2>3. \A q \in Requests : req'[q].stage # "done" => lines'[q] = {} /\ session'[q].cart = q
    BY SMTT(45), <1>1 DEF StoreInv, Objects
  <2>4. \A t \in Requests : store'[t] # None => req'[store'[t]].stage = "done"
    BY <1>1, <2>1 DEF StoreInv, Objects
  <2>5. \A s \in Requests : session'[s].cart # s => req'[session'[s].cart].stage = "done"
    <3> TAKE s \in Requests
    <3>1. session'[s].cart = session[s].cart /\ session[s].cart \in Requests
      BY <2>2
    <3>2. session[s].cart # s => req[session[s].cart].stage = "done"
      BY DEF StoreInv, Objects
    <3> QED BY <1>1, <3>1, <3>2
  <2>6. \A l \in Requests : \A i \in lines'[l] : req'[i].stage = "done"
    BY <1>1, <2>2 DEF StoreInv, Objects
  <2> QED BY <2>3, <2>4, <2>5, <2>6 DEF Objects
<1>5. LinesSound' /\ CustomersKnown'
  BY <1>1 DEF StoreInv, LinesSound, CustomersKnown
<1> QED BY <1>2, <1>3, <1>4, <1>5 DEF StoreInv

LEMMA BeginFacts ==
  ASSUME StoreInv, NEW r \in Requests, NEW h, Begin(r, h)
  PROVE  /\ req[r].stage = "new" /\ req' = [req EXCEPT ![r] = h]
         /\ overlapped' = (overlapped \/ \E q \in Requests : InFlight(q))
BY DEF Begin

(* Orders that stay as they were, and one that is sent.                          *)
LEMMA OrdersStay ==
  ASSUME StoreInv, UNCHANGED order, account => account'
  PROVE  /\ OrdersAreSound' /\ order' \in [Requests -> Order]
BY DEF StoreInv, StoreTypes, OrdersAreSound

LEMMA SentOrder ==
  ASSUME StoreInv, NEW r \in Requests, NEW l \in Requests, SendOrder(r, l),
         lines[l] # {}, account', account => account'
  PROVE  /\ OrdersAreSound' /\ order' \in [Requests -> Order]
         /\ order'[r].state = "sent" /\ order'[r].list = l
         /\ order'[r].lines = {line[i] : i \in lines[l]}
         /\ \A q \in Requests : q # r => order'[q] = order[q]
<1>1. PICK sent : sent = {line[i] : i \in lines[l]}
  OBVIOUS
<1>2. \A i \in lines[l] : line[i] \in Line /\ line[i].quantity >= 1
  BY DEF StoreInv, StoreTypes, LinesSound, Line
<1>3. sent # {} /\ sent \in SUBSET Line /\ \A x \in sent : x.quantity >= 1
  BY <1>1, <1>2
<1>4. PICK o : o = [state |-> "sent", list |-> l, lines |-> sent]
  OBVIOUS
<1>5. o \in Order /\ o.state = "sent" /\ o.list = l /\ o.lines = sent
  BY <1>3, <1>4 DEF Order, Reference
<1>6. order' = [order EXCEPT ![r] = o] /\ order \in [Requests -> Order]
  BY <1>1, <1>4 DEF SendOrder, StoreInv, StoreTypes
<1>7. /\ order' \in [Requests -> Order] /\ order'[r] = o
      /\ \A q \in Requests : q # r => order'[q] = order[q]
  BY <1>5, <1>6
<1>8. OrdersAreSound'
  BY <1>3, <1>5, <1>7 DEF StoreInv, OrdersAreSound
<1> QED BY <1>1, <1>5, <1>7, <1>8

(* The steps of a request that leave the cart alone.                              *)
LEMMA StartSteps ==
  ASSUME StoreInv, NEW r \in Requests,
         \/ \E sku \in Skus, quantity \in Quantities :
                AddLoad(r, sku, quantity) \/ UpdateLoad(r, sku, quantity)
         \/ CheckoutLoad(r)
  PROVE  StoreInv'
<1>s. /\ session \in [Requests -> [cart : Requests, customer : BOOLEAN]] /\ account \in BOOLEAN
      /\ order \in [Requests -> Order] /\ cookie \in Reference /\ addresses \in Nat
      /\ wanted \in [Skus -> Nat] /\ \A s \in Requests : session[s].customer => account
      /\ \A l \in Requests : lines[l] \in SUBSET Requests
  BY DEF StoreInv, StoreTypes, CustomersKnown
<1>l. /\ Loaded(r) \in Requests
      /\ Loaded(r) = r \/ req[Loaded(r)].stage = "done"
  BY LoadedFacts
<1>q. Quantities \subseteq Int
  BY StorefrontAssumption
<1>1. ASSUME NEW sku \in Skus, NEW quantity \in Quantities, AddLoad(r, sku, quantity)
      PROVE  StoreInv'
  <2>1. PICK k : k = Held(r, "pricing_add")
    OBVIOUS
  <2>2. k \in Request /\ k.stage = "pricing_add" /\ k.session = Loaded(r)
    BY <2>1, HeldFacts DEF Stage
  <2>3. PICK h : h = [k EXCEPT !.sku = sku, !.quantity = quantity]
    OBVIOUS
  <2>4. h \in Request /\ h.stage = "pricing_add" /\ h.session = Loaded(r) /\ h.sku = sku
    BY <1>q, <2>2, <2>3 DEF Request
  <2>5. Begin(r, h) /\ UNCHANGED <<cookie, store, session, lines, line, account, addresses,
                                   order, wanted>>
    BY <1>1, <2>1, <2>3 DEF AddLoad, heap, services
  <2>6. /\ req[r].stage = "new" /\ req' = [req EXCEPT ![r] = h]
    BY <2>5, BeginFacts
  <2>7. req'[Loaded(r)].stage = "done" \/ Loaded(r) = r
    BY <1>l, <2>6 DEF StoreInv, StoreTypes
  <2>8. HoldsOK(r, h)'
    BY <1>l, <2>4, <2>7 DEF HoldsOK, Idle, CheckingOut
  <2>9. OrdersAreSound'
    BY <2>5, OrdersStay
  <2> QED BY <1>s, <2>4, <2>5, <2>6, <2>8, <2>9, RequestMoves
<1>2. ASSUME NEW sku \in Skus, NEW quantity \in Quantities, UpdateLoad(r, sku, quantity)
      PROVE  StoreInv'
  <2>0. PICK i \in Matching(Loaded(r), sku) :
            Begin(r, [Held(r, "pricing_update") EXCEPT
                          !.line = i, !.sku = sku, !.quantity = quantity])
    BY <1>2 DEF UpdateLoad
  <2>1. PICK k : k = Held(r, "pricing_update")
    OBVIOUS
  <2>2. k \in Request /\ k.stage = "pricing_update" /\ k.session = Loaded(r)
    BY <2>1, HeldFacts DEF Stage
  <2>3. PICK h : h = [k EXCEPT !.line = i, !.sku = sku, !.quantity = quantity]
    OBVIOUS
  <2>i. i \in Requests
    BY <1>l, <1>s DEF Matching, Cart
  <2>4. /\ h \in Request /\ h.stage = "pricing_update" /\ h.session = Loaded(r) /\ h.sku = sku
        /\ h.line \in Requests /\ h.quantity > 0
    BY <1>2, <1>q, <2>i, <2>2, <2>3 DEF Request, Reference, UpdateLoad
  <2>5. Begin(r, h) /\ UNCHANGED <<cookie, store, session, lines, line, account, addresses,
                                   order, wanted>>
    BY <1>2, <2>0, <2>1, <2>3 DEF UpdateLoad, heap, services
  <2>6. /\ req[r].stage = "new" /\ req' = [req EXCEPT ![r] = h]
    BY <2>5, BeginFacts
  <2>7. req'[Loaded(r)].stage = "done" \/ Loaded(r) = r
    BY <1>l, <2>6 DEF StoreInv, StoreTypes
  <2>8. HoldsOK(r, h)'
    BY <1>l, <2>4, <2>7 DEF HoldsOK, Idle, CheckingOut
  <2>9. OrdersAreSound'
    BY <2>5, OrdersStay
  <2> QED BY <1>s, <2>4, <2>5, <2>6, <2>8, <2>9, RequestMoves
<1>3. CASE CheckoutLoad(r)
  <2>0. PICK stage \in {"ordering", "registering"} :
            stage = IF session[Loaded(r)].customer THEN "ordering" ELSE "registering"
    OBVIOUS
  <2>1. PICK k : k = Held(r, stage)
    OBVIOUS
  <2>2. k \in Request /\ k.stage = stage /\ k.session = Loaded(r)
    BY <2>1, HeldFacts DEF Stage
  <2>l. PICK l \in Requests : l = session[Loaded(r)].cart
    BY <1>l, <1>s
  <2>n. lines[l] # {}
    BY <1>3, <2>l DEF CheckoutLoad, Cart
  <2>3. PICK h : h = [k EXCEPT !.list = l]
    OBVIOUS
  <2>4. h \in Request /\ h.stage = stage /\ h.session = Loaded(r) /\ h.list = l
    BY <2>2, <2>3 DEF Request, Reference
  <2>5. /\ Begin(r, h) /\ UNCHANGED <<cookie, store, session, lines, line, account, addresses, wanted>>
        /\ IF session[Loaded(r)].customer THEN SendOrder(r, l) ELSE UNCHANGED order
    BY <1>3, <2>0, <2>1, <2>3, <2>l DEF CheckoutLoad, heap
  <2>6. /\ req[r].stage = "new" /\ req' = [req EXCEPT ![r] = h]
    BY <2>5, BeginFacts
  <2>7. req'[Loaded(r)].stage = "done" \/ Loaded(r) = r
    BY <1>l, <2>6 DEF StoreInv, StoreTypes
  <2>8. HoldsOK(r, h)'
    BY <1>l, <2>0, <2>4, <2>5, <2>7, <2>n DEF HoldsOK, Idle, CheckingOut
  <2>9. /\ OrdersAreSound' /\ order' \in [Requests -> Order]
        /\ \A q \in Requests : q # r => order'[q] = order[q]
        /\ stage = "ordering" => order'[r].state # "none"
    <3>1. CASE session[Loaded(r)].customer
      <4>1. account
        BY <1>l, <1>s, <3>1
      <4> QED BY <2>5, <2>n, <3>1, <4>1, SentOrder
    <3>2. CASE ~session[Loaded(r)].customer
      BY <2>0, <2>5, <3>2, OrdersStay
    <3> QED BY <3>1, <3>2
  <2> QED BY <1>s, <2>4, <2>5, <2>6, <2>8, <2>9, RequestMoves
<1> QED BY <1>1, <1>2, <1>3

(* A handler that ends keeps nothing.                                              *)
LEMMA EndedFacts ==
  ASSUME NEW final \in {"done", "failed"}
  PROVE  LET h == [NoRequest EXCEPT !.stage = final] IN
         h \in Request /\ h.stage = final /\ \A r \in Requests : HoldsOK(r, h)'
<1>1. PICK h : h = [NoRequest EXCEPT !.stage = final]
  OBVIOUS
<1>2. h \in Request /\ h.stage = final
  BY <1>1, FreshRequest DEF Stage, Idle
<1> QED BY <1>1, <1>2 DEF HoldsOK, Idle, CheckingOut

LEMMA QuietReturns ==
  ASSUME StoreInv, NEW r \in Requests,
         \/ AddUnpriced(r) \/ RegisterReturn(r) \/ LoginReturn(r) \/ AddressReturn(r)
         \/ OrderFailed(r) \/ TimeOut(r)
  PROVE  StoreInv'
<1>s. /\ session \in [Requests -> [cart : Requests, customer : BOOLEAN]] /\ account \in BOOLEAN
      /\ order \in [Requests -> Order] /\ cookie \in Reference /\ addresses \in Nat
      /\ wanted \in [Skus -> Nat] /\ \A s \in Requests : session[s].customer => account
      /\ req \in [Requests -> Request]
  BY DEF StoreInv, StoreTypes, CustomersKnown
<1>h. HoldsOK(r, req[r])
  BY DEF StoreInv
<1>i. req[r].stage \notin {"done", "failed"} /\ req[r].stage \notin Idle
  BY DEF AddUnpriced, RegisterReturn, LoginReturn, AddressReturn, OrderFailed, TimeOut, InFlight, Idle
<1>u. UNCHANGED <<cookie, store, lines, line, wanted>>
  BY DEF AddUnpriced, RegisterReturn, LoginReturn, AddressReturn, OrderFailed, TimeOut, heap, services,
         history
<1>1. ASSUME NEW final \in {"done", "failed"}, Finish(r, final), UNCHANGED <<session, order>>,
             account' \in BOOLEAN, account => account', addresses' \in Nat
      PROVE  StoreInv'
  <2>1. PICK h : h = [NoRequest EXCEPT !.stage = final]
    OBVIOUS
  <2>2. h \in Request /\ h.stage = final /\ HoldsOK(r, h)'
    BY <2>1, EndedFacts
  <2>3. req' = [req EXCEPT ![r] = h]
    BY <1>1, <2>1 DEF Finish
  <2>4. OrdersAreSound'
    BY <1>1, OrdersStay
  <2> QED BY <1>s, <1>i, <1>u, <1>1, <2>2, <2>3, <2>4, RequestMoves
<1>2. CASE AddUnpriced(r)
  BY <1>s, <1>1, <1>2 DEF AddUnpriced, heap, services
<1>3. CASE TimeOut(r)
  <2>1. account' \in BOOLEAN /\ (account => account')
    <3>1. account' \in {account, account \/ req[r].stage = "registering"}
      BY <1>3 DEF TimeOut
    <3> QED BY <1>s, <3>1, Zenon
  <2>2. addresses' \in Nat
    BY <1>3, <1>s DEF TimeOut
  <2> QED BY <1>1, <1>3, <2>1, <2>2 DEF TimeOut, heap
<1>4. CASE OrderFailed(r)
  <2>1. Finish(r, "done") \/ Finish(r, "failed")
    BY <1>4 DEF OrderFailed
  <2> QED BY <1>s, <1>1, <1>4, <2>1 DEF OrderFailed, heap, services
<1>k. ASSUME KnowCustomer(r), account'
      PROVE  /\ session' \in [Requests -> [cart : Requests, customer : BOOLEAN]]
             /\ \A s \in Requests : session'[s].cart = session[s].cart
                                    /\ (session'[s].customer => account')
  <2>1. PICK s \in Requests : s = req[r].session
    BY <1>h, <1>i DEF HoldsOK
  <2>2. PICK x : x = session[s]
    OBVIOUS
  <2>3. x \in [cart : Requests, customer : BOOLEAN]
    BY <1>s, <2>2
  <2>4. session' = [session EXCEPT ![s] = [x EXCEPT !.customer = TRUE]]
    BY <1>k, <2>1, <2>2 DEF KnowCustomer
  <2>5. [x EXCEPT !.customer = TRUE] \in [cart : Requests, customer : BOOLEAN]
        /\ [x EXCEPT !.customer = TRUE].cart = x.cart
    BY <2>3
  <2> QED BY <1>s, <1>k, <2>2, <2>4, <2>5
<1>a. ASSUME NEW stage \in {"logging_in", "addressing", "ordering"}, Advance(r, stage),
             req[r].stage \in CheckingOut
      PROVE  \E h \in Request :
                 /\ req' = [req EXCEPT ![r] = h] /\ h.stage = stage
                 /\ account' => HoldsOK(r, h)'
  <2>1. req[r] \in Request
    BY <1>s
  <2>2. PICK h : h = [req[r] EXCEPT !.stage = stage]
    OBVIOUS
  <2>3. /\ h \in Request /\ h.stage = stage /\ h.session = req[r].session
        /\ h.list = req[r].list
    BY <2>1, <2>2 DEF Request, Stage
  <2>4. req' = [req EXCEPT ![r] = h]
    BY <1>a, <2>2 DEF Advance
  <2>5. h.session \in Requests /\ (h.session = r \/ req'[h.session].stage = "done")
    BY <1>s, <1>h, <1>i, <2>3, <2>4 DEF HoldsOK
  <2>6. h.list \in Requests /\ lines'[h.list] # {}
    BY <1>u, <1>h, <1>a, <2>3 DEF HoldsOK
  <2>7. account' => HoldsOK(r, h)'
    BY <2>3, <2>5, <2>6 DEF HoldsOK, Idle, CheckingOut
  <2> QED BY <2>3, <2>4, <2>7
<1>m. ASSUME NEW stage \in {"logging_in", "addressing"}, Advance(r, stage),
             req[r].stage \in CheckingOut, account',
             session' = session \/ KnowCustomer(r), UNCHANGED <<order, addresses>>
      PROVE  StoreInv'
  <2>1. PICK h \in Request : /\ req' = [req EXCEPT ![r] = h] /\ h.stage = stage
                             /\ account' => HoldsOK(r, h)'
    BY <1>m, <1>a
  <2>2. HoldsOK(r, h)'
    BY <1>m, <2>1
  <2>3. /\ session' \in [Requests -> [cart : Requests, customer : BOOLEAN]]
        /\ \A s \in Requests : session'[s].cart = session[s].cart
                               /\ (session'[s].customer => account')
    BY <1>m, <1>k, <1>s
  <2>4. OrdersAreSound'
    BY <1>m, OrdersStay
  <2>5. account' \in BOOLEAN
    BY <1>m, <1>s DEF AddUnpriced, RegisterReturn, LoginReturn, AddressReturn, OrderFailed, TimeOut, services
  <2> QED BY <1>s, <1>i, <1>u, <1>m, <2>1, <2>2, <2>3, <2>4, <2>5, RequestMoves
<1>5. CASE RegisterReturn(r)
  <2>u. req[r].stage = "registering" /\ UNCHANGED <<order, addresses>>
    BY <1>5 DEF RegisterReturn
  <2>1. CASE account' = TRUE /\ KnowCustomer(r) /\ Advance(r, "addressing")
    BY <1>m, <2>u, <2>1 DEF CheckingOut
  <2>2. CASE account /\ Advance(r, "logging_in") /\ UNCHANGED <<account, session>>
    BY <1>m, <2>u, <2>2 DEF CheckingOut
  <2>3. CASE Finish(r, "done") /\ UNCHANGED <<account, session>>
    BY <1>1, <1>s, <2>u, <2>3
  <2> QED BY <1>5, <2>1, <2>2, <2>3 DEF RegisterReturn
<1>6. CASE LoginReturn(r)
  <2>u. /\ req[r].stage = "logging_in" /\ UNCHANGED <<order, addresses, account>>
        /\ account
    BY <1>6, <1>h DEF LoginReturn, services, HoldsOK
  <2>1. CASE KnowCustomer(r) /\ Advance(r, "addressing")
    BY <1>m, <2>u, <2>1 DEF CheckingOut
  <2>2. CASE Finish(r, "done") /\ UNCHANGED session
    BY <1>1, <1>s, <2>u, <2>2
  <2> QED BY <1>6, <2>1, <2>2 DEF LoginReturn
<1>7. CASE AddressReturn(r)
  <2>1. /\ req[r].stage = "addressing" /\ account /\ addresses' \in Nat
        /\ UNCHANGED <<account, session>> /\ Advance(r, "ordering")
    BY <1>7, <1>h, <1>s DEF AddressReturn, HoldsOK, heap
  <2>2. PICK h \in Request : /\ req' = [req EXCEPT ![r] = h] /\ h.stage = "ordering"
                             /\ account' => HoldsOK(r, h)'
    BY <1>a, <2>1 DEF CheckingOut
  <2>3. HoldsOK(r, h)'
    BY <2>1, <2>2
  <2>4. PICK l \in Requests : l = req[r].list /\ lines[l] # {}
    BY <1>h, <2>1 DEF HoldsOK, CheckingOut
  <2>5. SendOrder(r, l)
    BY <1>7, <2>4 DEF AddressReturn
  <2>6. /\ OrdersAreSound' /\ order' \in [Requests -> Order] /\ order'[r].state = "sent"
        /\ \A q \in Requests : q # r => order'[q] = order[q]
    BY <2>1, <2>4, <2>5, SentOrder
  <2> QED BY <1>s, <1>i, <1>u, <2>1, <2>2, <2>3, <2>6, RequestMoves
<1> QED BY <1>2, <1>3, <1>4, <1>5, <1>6, <1>7

(* The lines that request r adds are its own; lists that others make stay empty.            *)
ListsGrow(r) ==
    \A l \in Requests : /\ req[l].stage # "done" /\ l # r => lines'[l] = {}
                        /\ lines[l] # {} => lines'[l] # {}
                        /\ \A i \in lines'[l] : i = r \/ req[i].stage = "done"

(* No session changes but that of r, which may get the list that r made.                   *)
CartsStay(r, s) ==
    \A q \in Requests : /\ session'[q].customer = session[q].customer
                        /\ session'[q].cart # session[q].cart => q = s /\ session'[q].cart = r

(* A request ends with what it did to the cart: whoever it was, its objects may be found *)
(* from now on.                                                                            *)
LEMMA RequestEnds ==
  ASSUME StoreInv, NEW r \in Requests, req[r].stage \notin {"done", "failed"},
         req' = [req EXCEPT ![r] = [NoRequest EXCEPT !.stage = "done"]],
         NEW token \in Requests, NEW s \in Requests, s = r \/ req[s].stage = "done",
         store' = [store EXCEPT ![token] = s], cookie' = token,
         session' \in [Requests -> [cart : Requests, customer : BOOLEAN]],
         CartsStay(r, s), lines' \in [Requests -> SUBSET Requests], ListsGrow(r),
         line' \in [Requests -> [sku : Skus \cup {None}, quantity : Int]],
         LinesSound', wanted' \in [Skus -> Nat],
         UNCHANGED <<account, addresses, order>>
  PROVE  StoreInv'
<1> USE DEF ListsGrow, CartsStay
<1>h. PICK h : h = [NoRequest EXCEPT !.stage = "done"]
  OBVIOUS
<1>e. h \in Request /\ h.stage = "done" /\ HoldsOK(r, h)'
  BY <1>h, EndedFacts
<1>1. /\ req \in [Requests -> Request] /\ req' \in [Requests -> Request] /\ req'[r] = h
      /\ \A q \in Requests : q # r => req'[q] = req[q]
      /\ \A q \in Requests : req[q].stage = "done" => req'[q].stage = "done"
      /\ \A q \in Requests : req'[q].stage # "done" => req[q].stage # "done" /\ q # r
  BY <1>h, <1>e DEF StoreInv, StoreTypes
<1>2. StoreTypes'
  <2>1. store' \in [Requests -> Reference] /\ cookie' \in Reference
    BY DEF StoreInv, StoreTypes, Reference
  <2> QED BY <1>1, <2>1 DEF StoreInv, StoreTypes
<1>3. ASSUME NEW q \in Requests PROVE HoldsOK(q, req[q])'
  <2>1. CASE q = r
    BY <1>1, <1>e, <2>1 DEF HoldsOK
  <2>2. CASE q # r
    <3>1. HoldsOK(q, req[q]) /\ req'[q] = req[q]
      BY <1>1, <2>2 DEF StoreInv
    <3>2. req[q].stage \in CheckingOut => lines'[req[q].list] # {}
      BY <3>1 DEF HoldsOK
    <3> QED BY ZenonT(60), <1>1, <3>1, <3>2 DEF HoldsOK
  <2> QED BY <2>1, <2>2
<1>4. Objects'
  <2>1. ASSUME NEW q \in Requests, req'[q].stage # "done"
        PROVE  lines'[q] = {} /\ session'[q].cart = q
    <3>1. req[q].stage # "done" /\ q # r
      BY <1>1, <2>1
    <3>2. lines'[q] = {} /\ q # s /\ session[q].cart = q
      BY <3>1 DEF StoreInv, Objects
    <3> QED BY <3>2
  <2>2. ASSUME NEW t \in Requests, store'[t] # None PROVE req'[store'[t]].stage = "done"
    <3>1. CASE t = token
      <4>1. store'[t] = s
        BY <3>1 DEF StoreInv, StoreTypes
      <4> QED BY <1>1, <1>e, <4>1
    <3>2. CASE t # token
      <4>1. store'[t] = store[t] /\ store[t] \in Requests /\ req[store[t]].stage = "done"
        BY <2>2, <3>2 DEF StoreInv, StoreTypes, Objects, Reference
      <4> QED BY <1>1, <4>1
    <3> QED BY <3>1, <3>2
  <2>3. ASSUME NEW q \in Requests, session'[q].cart # q
        PROVE  req'[session'[q].cart].stage = "done"
    <3>1. CASE session'[q].cart = session[q].cart
      <4>1. session[q].cart \in Requests /\ req[session[q].cart].stage = "done"
        BY <2>3, <3>1 DEF StoreInv, StoreTypes, Objects
      <4> QED BY <1>1, <3>1, <4>1
    <3>2. CASE session'[q].cart # session[q].cart
      BY <1>1, <1>e, <3>2
    <3> QED BY <3>1, <3>2
  <2>4. \A l \in Requests : \A i \in lines'[l] : req'[i].stage = "done"
    BY <1>1, <1>e
  <2> QED BY <2>1, <2>2, <2>3, <2>4 DEF Objects
<1>5. CustomersKnown' /\ OrdersAreSound'
  BY <1>1, <1>e DEF StoreInv, CustomersKnown, OrdersAreSound
<1> QED BY <1>2, <1>3, <1>4, <1>5 DEF StoreInv

LEMMA PersistFacts ==
  ASSUME StoreInv, NEW r \in Requests, NEW token \in Reference, NEW s, Persist(r, token, s)
  PROVE  \E used \in Requests : /\ used = (IF token # None THEN token ELSE r)
                                /\ store' = [store EXCEPT ![used] = s] /\ cookie' = used
BY StorefrontAssumption DEF Persist, Reference

LEMMA AddPricedStep ==
  ASSUME StoreInv, NEW r \in Requests, AddPriced(r)
  PROVE  StoreInv'
<1>1. PICK s \in Requests, token \in Reference, sku \in Skus, n \in Int :
          /\ s = req[r].session /\ token = req[r].token /\ sku = req[r].sku
          /\ n = Clamped(req[r].quantity) /\ n >= 1
          /\ (s = r \/ req[s].stage = "done")
  <2>1. req[r] \in Request /\ HoldsOK(r, req[r]) /\ req[r].stage = "pricing_add"
    BY DEF StoreInv, StoreTypes, AddPriced
  <2>2. req[r].quantity \in Int /\ req[r].token \in Reference
    BY <2>1 DEF Request
  <2>3. Clamped(req[r].quantity) \in Int /\ Clamped(req[r].quantity) >= 1
    BY <2>2 DEF Clamped
  <2> QED BY <2>1, <2>2, <2>3 DEF HoldsOK, Idle
<1>2. /\ PutInCart(r, s, sku, n) /\ Persist(r, token, s)
      /\ req[r].stage = "pricing_add" /\ Finish(r, "done")
      /\ wanted' = [wanted EXCEPT ![sku] = @ + n]
      /\ UNCHANGED <<session, account, addresses, order>>
  BY <1>1 DEF AddPriced, services
<1>3. PICK used \in Requests : store' = [store EXCEPT ![used] = s] /\ cookie' = used
  BY <1>2, PersistFacts
<1>t. /\ session \in [Requests -> [cart : Requests, customer : BOOLEAN]]
      /\ lines \in [Requests -> SUBSET Requests]
      /\ line \in [Requests -> [sku : Skus \cup {None}, quantity : Int]]
      /\ wanted \in [Skus -> Nat]
      /\ \A l \in Requests : \A i \in lines[l] : req[i].stage = "done"
      /\ \A q \in Requests : req[q].stage # "done" => lines[q] = {} /\ session[q].cart = q
  BY DEF StoreInv, StoreTypes, Objects
<1>c. PICK c \in Requests : c = session[s].cart /\ (c = r \/ req[c].stage = "done")
  <2>1. session[s].cart \in Requests
    BY <1>t
  <2>2. session[s].cart = s \/ req[session[s].cart].stage = "done"
    BY DEF StoreInv, Objects
  <2> QED BY <1>1, <2>1, <2>2
<1>w. wanted' \in [Skus -> Nat]
  <2>1. wanted[sku] + n \in Nat
    BY <1>1, <1>t
  <2> QED BY <1>2, <1>t, <2>1
<1>f. req' = [req EXCEPT ![r] = [NoRequest EXCEPT !.stage = "done"]]
  BY <1>2 DEF Finish
<1>4. CASE \E i \in Matching(s, sku) :
               line' = [line EXCEPT ![i].quantity = @ + n] /\ UNCHANGED lines
  <2>1. PICK i \in Matching(s, sku) :
            line' = [line EXCEPT ![i].quantity = @ + n] /\ UNCHANGED lines
    BY <1>4
  <2>2. i \in Requests /\ i \in lines[c] /\ line[i].quantity >= 1 /\ line[i].sku = sku
    BY <1>c, <1>t, <2>1 DEF Matching, Cart, StoreInv, LinesSound
  <2>3. PICK x : x = [line[i] EXCEPT !.quantity = line[i].quantity + n]
    OBVIOUS
  <2>4. /\ x \in [sku : Skus \cup {None}, quantity : Int]
        /\ x.sku = line[i].sku /\ x.quantity >= 1
    BY <1>1, <1>t, <2>2, <2>3
  <2>5. line' = [line EXCEPT ![i] = x]
    BY <2>1, <2>3
  <2>6. /\ line' \in [Requests -> [sku : Skus \cup {None}, quantity : Int]]
        /\ \A j \in Requests : line'[j].sku = line[j].sku
                               /\ (line[j].quantity >= 1 => line'[j].quantity >= 1)
    BY <1>t, <2>2, <2>4, <2>5
  <2>7. LinesSound'
    <3> SUFFICES ASSUME NEW l \in Requests
                 PROVE  /\ \A j \in lines'[l] : line'[j].sku \in Skus /\ line'[j].quantity >= 1
                        /\ \A j, k \in lines'[l] : line'[j].sku = line'[k].sku => j = k
      BY DEF LinesSound
    <3>1. lines'[l] = lines[l] /\ lines[l] \subseteq Requests
      BY <1>t, <2>1
    <3>2. /\ \A j \in lines[l] : line[j].sku \in Skus /\ line[j].quantity >= 1
          /\ \A j, k \in lines[l] : line[j].sku = line[k].sku => j = k
      BY DEF StoreInv, LinesSound
    <3> QED BY <2>6, <3>1, <3>2
  <2>8. lines' \in [Requests -> SUBSET Requests] /\ ListsGrow(r)
    BY <1>t, <2>1 DEF ListsGrow
  <2>9. CartsStay(r, s)
    BY <1>2 DEF CartsStay
  <2>a. session' \in [Requests -> [cart : Requests, customer : BOOLEAN]]
    BY <1>2, <1>t
  <2> QED BY <1>1, <1>2, <1>3, <1>t, <1>w, <1>f, <2>6, <2>7, <2>8, <2>9, <2>a, RequestEnds
<1>5. CASE /\ Matching(s, sku) = {}
           /\ line' = [line EXCEPT ![r] = [sku |-> sku, quantity |-> n]]
           /\ lines' = [lines EXCEPT ![session[s].cart] = @ \cup {r}]
  <2>1. /\ line' \in [Requests -> [sku : Skus \cup {None}, quantity : Int]]
        /\ line'[r].sku = sku /\ line'[r].quantity = n
        /\ \A j \in Requests : j # r => line'[j] = line[j]
    BY <1>1, <1>t, <1>5
  <2>2. /\ lines' \in [Requests -> SUBSET Requests]
        /\ \A l \in Requests : lines'[l] = IF l = c THEN lines[l] \cup {r} ELSE lines[l]
    BY <1>c, <1>t, <1>5
  <2>3. \A l \in Requests : r \notin lines[l]
    BY <1>2, <1>t
  <2>4. \A i \in lines[c] : line[i].sku # sku
    BY <1>c, <1>5 DEF Matching, Cart
  <2>5. LinesSound'
    <3> SUFFICES ASSUME NEW l \in Requests
                 PROVE  /\ \A i \in lines'[l] : line'[i].sku \in Skus /\ line'[i].quantity >= 1
                        /\ \A i, j \in lines'[l] : line'[i].sku = line'[j].sku => i = j
      BY DEF LinesSound
    <3>1. /\ \A i \in lines[l] : line[i].sku \in Skus /\ line[i].quantity >= 1
          /\ \A i, j \in lines[l] : line[i].sku = line[j].sku => i = j
      BY DEF StoreInv, LinesSound
    <3>2. \A i \in lines[l] : i \in Requests /\ i # r
      BY <1>t, <2>3
    <3>3. CASE l # c
      BY <2>1, <2>2, <3>1, <3>2, <3>3
    <3>4. CASE l = c
      BY <1>1, <2>1, <2>2, <2>4, <3>1, <3>2, <3>4
    <3> QED BY <3>3, <3>4
  <2>6. ListsGrow(r)
    <3> SUFFICES ASSUME NEW l \in Requests
                 PROVE  /\ req[l].stage # "done" /\ l # r => lines'[l] = {}
                        /\ lines[l] # {} => lines'[l] # {}
                        /\ \A i \in lines'[l] : i = r \/ req[i].stage = "done"
      BY DEF ListsGrow
    <3>1. CASE l = c
      BY <1>c, <1>t, <2>2, <3>1
    <3>2. CASE l # c
      BY <1>t, <2>2, <3>2
    <3> QED BY <3>1, <3>2
  <2>7. CartsStay(r, s)
    BY <1>2 DEF CartsStay
  <2>8. session' \in [Requests -> [cart : Requests, customer : BOOLEAN]]
    BY <1>2, <1>t
  <2> QED BY <1>1, <1>2, <1>3, <1>t, <1>w, <1>f, <2>1, <2>2, <2>5, <2>6, <2>7, <2>8, RequestEnds
<1> QED BY <1>2, <1>4, <1>5 DEF PutInCart

LEMMA UpdatePricedStep ==
  ASSUME StoreInv, NEW r \in Requests, UpdatePriced(r)
  PROVE  StoreInv'
<1>1. PICK s \in Requests, token \in Reference, sku \in Skus, i \in Requests, n \in Nat :
          /\ s = req[r].session /\ token = req[r].token /\ sku = req[r].sku
          /\ i = req[r].line /\ n = req[r].quantity /\ n >= 1
          /\ (s = r \/ req[s].stage = "done")
  <2>1. req[r] \in Request /\ HoldsOK(r, req[r]) /\ req[r].stage = "pricing_update"
    BY DEF StoreInv, StoreTypes, UpdatePriced
  <2>2. req[r].quantity \in Int /\ req[r].token \in Reference
    BY <2>1 DEF Request
  <2>3. req[r].quantity \in Nat /\ req[r].quantity >= 1
    BY <2>1, <2>2 DEF HoldsOK
  <2> QED BY <2>1, <2>2, <2>3 DEF HoldsOK, Idle
<1>2. /\ \/ line' = [line EXCEPT ![i].quantity = n] /\ wanted' = [wanted EXCEPT ![sku] = n]
         \/ UNCHANGED <<line, wanted>>
      /\ Persist(r, token, s) /\ req[r].stage = "pricing_update" /\ Finish(r, "done")
      /\ UNCHANGED <<session, lines, account, addresses, order>>
  BY <1>1 DEF UpdatePriced, services
<1>3. PICK used \in Requests : store' = [store EXCEPT ![used] = s] /\ cookie' = used
  BY <1>2, PersistFacts
<1>t. /\ session \in [Requests -> [cart : Requests, customer : BOOLEAN]]
      /\ lines \in [Requests -> SUBSET Requests]
      /\ line \in [Requests -> [sku : Skus \cup {None}, quantity : Int]]
      /\ wanted \in [Skus -> Nat]
      /\ \A l \in Requests : \A j \in lines[l] : req[j].stage = "done"
      /\ \A q \in Requests : req[q].stage # "done" => lines[q] = {}
  BY DEF StoreInv, StoreTypes, Objects
<1>f. req' = [req EXCEPT ![r] = [NoRequest EXCEPT !.stage = "done"]]
  BY <1>2 DEF Finish
<1>w. wanted' \in [Skus -> Nat]
  BY <1>2, <1>t
<1>4. /\ line' \in [Requests -> [sku : Skus \cup {None}, quantity : Int]]
      /\ \A j \in Requests : line'[j].sku = line[j].sku
                             /\ (line[j].quantity >= 1 => line'[j].quantity >= 1)
  <2>1. CASE line' = [line EXCEPT ![i].quantity = n]
    <3>1. PICK x : x = [line[i] EXCEPT !.quantity = n]
      OBVIOUS
    <3>2. /\ x \in [sku : Skus \cup {None}, quantity : Int] /\ x.sku = line[i].sku
          /\ x.quantity = n
      BY <1>t, <3>1
    <3>3. line' = [line EXCEPT ![i] = x]
      BY <2>1, <3>1
    <3> QED BY <1>1, <1>t, <3>2, <3>3
  <2>2. CASE UNCHANGED line
    BY <1>t, <2>2
  <2> QED BY <1>2, <2>1, <2>2
<1>5. LinesSound'
  BY <1>2, <1>4, <1>t DEF StoreInv, LinesSound
<1>6. lines' \in [Requests -> SUBSET Requests] /\ ListsGrow(r)
  BY <1>2, <1>t DEF ListsGrow
<1>7. CartsStay(r, s) /\ session' \in [Requests -> [cart : Requests, customer : BOOLEAN]]
  BY <1>2, <1>t DEF CartsStay
<1> QED BY <1>1, <1>2, <1>3, <1>t, <1>w, <1>f, <1>4, <1>5, <1>6, <1>7, RequestEnds

LEMMA CartStarts ==
  ASSUME StoreInv, NEW r \in Requests, NEW sku \in Skus, Remove(r, sku) \/ UpdateNothing(r, sku)
  PROVE  StoreInv'
<1>1. PICK s \in Requests : s = Loaded(r) /\ (s = r \/ req[s].stage = "done")
  BY LoadedFacts
<1>t. /\ session \in [Requests -> [cart : Requests, customer : BOOLEAN]]
      /\ lines \in [Requests -> SUBSET Requests] /\ cookie \in Reference
      /\ line \in [Requests -> [sku : Skus \cup {None}, quantity : Int]]
      /\ wanted \in [Skus -> Nat]
      /\ \A l \in Requests : \A j \in lines[l] : req[j].stage = "done"
      /\ \A q \in Requests : req[q].stage # "done" => lines[q] = {}
      /\ LinesSound
  BY DEF StoreInv, StoreTypes, Objects
<1>2. Begin(r, [NoRequest EXCEPT !.stage = "done"]) /\ Persist(r, cookie, s)
      /\ UNCHANGED <<account, addresses, order, line>>
  BY <1>1 DEF Remove, UpdateNothing, services, heap
<1>3. /\ req[r].stage = "new"
      /\ req' = [req EXCEPT ![r] = [NoRequest EXCEPT !.stage = "done"]]
  BY <1>2, BeginFacts
<1>4. PICK used \in Requests : store' = [store EXCEPT ![used] = s] /\ cookie' = used
  BY <1>2, <1>t, PersistFacts
<1>5. CASE UpdateNothing(r, sku)
  <2>1. UNCHANGED <<session, lines, wanted>>
    BY <1>5 DEF UpdateNothing, heap
  <2>2. LinesSound'
    BY <1>2, <1>t, <2>1 DEF LinesSound
  <2>3. lines' \in [Requests -> SUBSET Requests] /\ ListsGrow(r)
    BY <1>t, <2>1 DEF ListsGrow
  <2>4. CartsStay(r, s) /\ session' \in [Requests -> [cart : Requests, customer : BOOLEAN]]
    BY <1>t, <2>1 DEF CartsStay
  <2>5. line' \in [Requests -> [sku : Skus \cup {None}, quantity : Int]] /\ wanted' \in [Skus -> Nat]
    BY <1>2, <1>t, <2>1
  <2> QED BY <1>1, <1>2, <1>3, <1>4, <2>2, <2>3, <2>4, <2>5, RequestEnds
<1>6. CASE Remove(r, sku)
  <2>1. PICK rest \in SUBSET Requests : rest = Cart(s) \ Matching(s, sku)
    BY <1>t DEF Cart
  <2>2. PICK c \in Requests : c = session[s].cart
    BY <1>t
  <2>3. rest \subseteq lines[c]
    BY <2>1, <2>2 DEF Cart
  <2>4. /\ lines' = [lines EXCEPT ![r] = rest] /\ wanted' = [wanted EXCEPT ![sku] = 0]
        /\ session' = [session EXCEPT ![s].cart = r]
    BY <1>1, <1>6, <2>1 DEF Remove
  <2>5. /\ lines' \in [Requests -> SUBSET Requests] /\ wanted' \in [Skus -> Nat]
        /\ \A l \in Requests : lines'[l] = IF l = r THEN rest ELSE lines[l]
        /\ lines[r] = {}
    BY <1>3, <1>t, <2>4
  <2>6. /\ session' \in [Requests -> [cart : Requests, customer : BOOLEAN]]
        /\ CartsStay(r, s)
    <3>1. PICK x : x = [session[s] EXCEPT !.cart = r]
      OBVIOUS
    <3>2. /\ x \in [cart : Requests, customer : BOOLEAN] /\ x.cart = r
          /\ x.customer = session[s].customer
      BY <1>t, <3>1
    <3>3. session' = [session EXCEPT ![s] = x]
      BY <2>4, <3>1
    <3> QED BY <1>t, <3>2, <3>3 DEF CartsStay
  <2>7. LinesSound'
    <3> SUFFICES ASSUME NEW l \in Requests
                 PROVE  /\ \A i \in lines'[l] : line[i].sku \in Skus /\ line[i].quantity >= 1
                        /\ \A i, j \in lines'[l] : line[i].sku = line[j].sku => i = j
      BY <1>2 DEF LinesSound
    <3>1. CASE l = r
      BY <1>t, <2>3, <2>5, <3>1 DEF LinesSound
    <3>2. CASE l # r
      BY <1>t, <2>5, <3>2 DEF LinesSound
    <3> QED BY <3>1, <3>2
  <2>8. ListsGrow(r)
    <3> SUFFICES ASSUME NEW l \in Requests
                 PROVE  /\ req[l].stage # "done" /\ l # r => lines'[l] = {}
                        /\ lines[l] # {} => lines'[l] # {}
                        /\ \A i \in lines'[l] : i = r \/ req[i].stage = "done"
      BY DEF ListsGrow
    <3>1. CASE l = r
      BY <1>t, <2>3, <2>5, <3>1
    <3>2. CASE l # r
      BY <1>t, <2>5, <3>2
    <3> QED BY <3>1, <3>2
  <2>9. line' \in [Requests -> [sku : Skus \cup {None}, quantity : Int]]
    BY <1>2, <1>t
  <2> QED BY <1>1, <1>2, <1>3, <1>4, <2>5, <2>6, <2>7, <2>8, <2>9, RequestEnds
<1> QED BY <1>5, <1>6

LEMMA ConfirmedStep ==
  ASSUME StoreInv, NEW r \in Requests, OrderConfirmed(r)
  PROVE  StoreInv'
<1>1. PICK s \in Requests, token \in Reference :
          /\ s = req[r].session /\ token = req[r].token
          /\ (s = r \/ req[s].stage = "done")
  <2>1. req[r] \in Request /\ HoldsOK(r, req[r]) /\ req[r].stage = "ordering"
    BY DEF StoreInv, StoreTypes, OrderConfirmed
  <2> QED BY <2>1 DEF HoldsOK, Idle, Request
<1>2. /\ session' = [session EXCEPT ![s].cart = r] /\ Persist(r, token, s)
      /\ wanted' = [k \in Skus |-> 0] /\ req[r].stage = "ordering" /\ Finish(r, "done")
      /\ UNCHANGED <<lines, line, account, addresses, order>>
  BY <1>1 DEF OrderConfirmed, services
<1>3. PICK used \in Requests : store' = [store EXCEPT ![used] = s] /\ cookie' = used
  BY <1>2, PersistFacts
<1>t. /\ session \in [Requests -> [cart : Requests, customer : BOOLEAN]]
      /\ lines \in [Requests -> SUBSET Requests]
      /\ line \in [Requests -> [sku : Skus \cup {None}, quantity : Int]]
      /\ \A l \in Requests : \A j \in lines[l] : req[j].stage = "done"
      /\ \A q \in Requests : req[q].stage # "done" => lines[q] = {}
      /\ LinesSound
  BY DEF StoreInv, StoreTypes, Objects
<1>f. req' = [req EXCEPT ![r] = [NoRequest EXCEPT !.stage = "done"]]
  BY <1>2 DEF Finish
<1>w. wanted' \in [Skus -> Nat]
  BY <1>2
<1>4. /\ session' \in [Requests -> [cart : Requests, customer : BOOLEAN]]
      /\ CartsStay(r, s)
  <2>1. PICK x : x = [session[s] EXCEPT !.cart = r]
    OBVIOUS
  <2>2. /\ x \in [cart : Requests, customer : BOOLEAN] /\ x.cart = r
        /\ x.customer = session[s].customer
    BY <1>t, <2>1
  <2>3. session' = [session EXCEPT ![s] = x]
    BY <1>2, <2>1
  <2> QED BY <1>t, <2>2, <2>3 DEF CartsStay
<1>5. LinesSound'
  BY <1>2, <1>t DEF LinesSound
<1>6. lines' \in [Requests -> SUBSET Requests] /\ ListsGrow(r)
  BY <1>2, <1>t DEF ListsGrow
<1>7. line' \in [Requests -> [sku : Skus \cup {None}, quantity : Int]]
  BY <1>2, <1>t
<1> QED BY <1>1, <1>2, <1>3, <1>t, <1>w, <1>f, <1>4, <1>5, <1>6, <1>7, RequestEnds

(* The order service answers.                                                              *)
LEMMA HandledStep ==
  ASSUME StoreInv, NEW r \in Requests, OrderHandled(r)
  PROVE  StoreInv'
<1>1. PICK outcome \in {"placed", "refused"} : order' = [order EXCEPT ![r].state = outcome]
  BY DEF OrderHandled
<1>2. /\ order[r].state = "sent"
      /\ UNCHANGED <<cookie, store, session, lines, line, req, account, addresses, wanted>>
  BY DEF OrderHandled, heap, history
<1>3. PICK o : o = [order[r] EXCEPT !.state = outcome]
  OBVIOUS
<1>4. order \in [Requests -> Order]
  BY DEF StoreInv, StoreTypes
<1>5. o \in Order /\ o.state = outcome /\ o.list = order[r].list /\ o.lines = order[r].lines
  BY <1>3, <1>4 DEF Order
<1>6. /\ order' \in [Requests -> Order]
      /\ \A q \in Requests : /\ order'[q].lines = order[q].lines
                             /\ order'[q].state # "none" <=> order[q].state # "none"
  <2>1. order' = [order EXCEPT ![r] = o]
    BY <1>1, <1>3
  <2> QED BY <1>2, <1>4, <1>5, <2>1
<1>7. StoreTypes' /\ Objects' /\ LinesSound' /\ \A q \in Requests : HoldsOK(q, req[q])'
  BY <1>2, <1>6 DEF StoreInv, StoreTypes, Objects, LinesSound, HoldsOK
<1>8. CustomersKnown' /\ OrdersAreSound'
  BY <1>2, <1>6 DEF StoreInv, CustomersKnown, OrdersAreSound
<1> QED BY <1>7, <1>8 DEF StoreInv

LEMMA RestartStep ==
  ASSUME StoreInv, Restart
  PROVE  StoreInv'
<1>1. PICK h : h = [NoRequest EXCEPT !.stage = "failed"]
  OBVIOUS
<1>2. h \in Request /\ h.stage = "failed"
  BY <1>1, FreshRequest DEF Stage, Idle
<1>3. /\ req' = [r \in Requests |-> IF InFlight(r) THEN h ELSE req[r]]
      /\ store' = [t \in Requests |-> None]
      /\ UNCHANGED <<cookie, session, lines, line, account, addresses, order, wanted>>
  BY <1>1 DEF Restart, heap, services
<1>4. /\ req' \in [Requests -> Request]
      /\ \A q \in Requests : /\ req'[q].stage \in Idle
                             /\ req[q].stage = "done" <=> req'[q].stage = "done"
  <2>1. req \in [Requests -> Request]
    BY DEF StoreInv, StoreTypes
  <2> QED BY <1>2, <1>3, <2>1 DEF InFlight, Idle
<1>5. StoreTypes'
  BY <1>3, <1>4 DEF StoreInv, StoreTypes, Reference
<1>6. \A q \in Requests : HoldsOK(q, req[q])'
  BY <1>4 DEF HoldsOK, Idle, CheckingOut
<1>7. Objects'
  <2>1. \A s \in Requests : session[s].cart \in Requests /\ lines[s] \subseteq Requests
    BY DEF StoreInv, StoreTypes
  <2>2. \A q \in Requests : req'[q].stage # "done" => lines'[q] = {} /\ session'[q].cart = q
    BY <1>3, <1>4 DEF StoreInv, Objects
  <2>3. \A s \in Requests : session'[s].cart # s => req'[session'[s].cart].stage = "done"
    <3> TAKE s \in Requests
    <3>1. session[s].cart # s => req[session[s].cart].stage = "done"
      BY DEF StoreInv, Objects
    <3> QED BY <1>3, <1>4, <2>1, <3>1
  <2>4. \A l \in Requests : \A i \in lines'[l] : req'[i].stage = "done"
    BY <1>3, <1>4, <2>1 DEF StoreInv, Objects
  <2>5. \A t \in Requests : store'[t] = None
    BY <1>3
  <2> QED BY <2>2, <2>3, <2>4, <2>5 DEF Objects
<1>8. LinesSound' /\ CustomersKnown' /\ OrdersAreSound'
  BY <1>3, <1>4 DEF StoreInv, LinesSound, CustomersKnown, OrdersAreSound, Idle
<1> QED BY <1>5, <1>6, <1>7, <1>8 DEF StoreInv

(* The browser forgets its token; no object changes.                                        *)
LEMMA CookieStep ==
  ASSUME StoreInv, CookieExpires
  PROVE  StoreInv'
<1>1. /\ cookie' = None /\ wanted' = [k \in Skus |-> 0]
      /\ UNCHANGED <<store, session, lines, line, req, account, addresses, order>>
  BY DEF CookieExpires, heap, services
<1>2. StoreTypes'
  <2>1. cookie' \in Reference /\ wanted' \in [Skus -> Nat]
    BY <1>1 DEF Reference
  <2> QED BY <1>1, <2>1 DEF StoreInv, StoreTypes
<1>3. Objects' /\ LinesSound' /\ \A q \in Requests : HoldsOK(q, req[q])'
  BY <1>1 DEF StoreInv, Objects, LinesSound, HoldsOK
<1>4. CustomersKnown' /\ OrdersAreSound'
  BY <1>1 DEF StoreInv, CustomersKnown, OrdersAreSound
<1> QED BY <1>2, <1>3, <1>4 DEF StoreInv

LEMMA StoreStep == StoreInv /\ [Next]_vars => StoreInv'
<1> SUFFICES ASSUME StoreInv, [Next]_vars PROVE StoreInv'
  OBVIOUS
<1>1. CASE UNCHANGED vars
  <2>1. UNCHANGED <<cookie, store, session, lines, line, req, account, addresses, order, wanted>>
    BY <1>1 DEF vars, heap, services, history
  <2>2. StoreTypes' /\ Objects' /\ LinesSound' /\ \A q \in Requests : HoldsOK(q, req[q])'
    BY <2>1 DEF StoreInv, StoreTypes, Objects, LinesSound, HoldsOK
  <2>3. CustomersKnown' /\ OrdersAreSound'
    BY <2>1 DEF StoreInv, CustomersKnown, OrdersAreSound
  <2> QED BY <2>2, <2>3 DEF StoreInv
<1>2. ASSUME NEW r \in Requests, Start(r) PROVE StoreInv'
  BY <1>2, StartSteps, CartStarts DEF Start
<1>3. ASSUME NEW r \in Requests, Continue(r) PROVE StoreInv'
  BY <1>3, AddPricedStep, UpdatePricedStep, ConfirmedStep, QuietReturns DEF Continue
<1>4. ASSUME NEW r \in Requests, OrderHandled(r) PROVE StoreInv'
  BY <1>4, HandledStep
<1>5. CASE Restart \/ CookieExpires
  BY <1>5, RestartStep, CookieStep
<1> QED BY <1>1, <1>2, <1>3, <1>4, <1>5 DEF Next

LEMMA StorefrontAlone == [FrontOfficeNext]_frontOfficeVars => [Next]_vars
BY DEF FrontOfficeNext, frontOfficeVars

(* The history variables that mark trouble. *)
Flags == overlapped \in BOOLEAN /\ disturbed \in BOOLEAN

LEMMA BeginFlags ==
  ASSUME Flags, NEW r, NEW h, Begin(r, h), UNCHANGED disturbed
  PROVE  Flags'
<1>1. overlapped' = (overlapped \/ \E q \in Requests : InFlight(q))
  BY DEF Begin
<1> QED BY <1>1, Zenon DEF Flags

LEMMA FlagsStep == Flags /\ [Next]_vars => Flags'
<1> SUFFICES ASSUME Flags, [Next]_vars PROVE Flags'
  OBVIOUS
<1>1. CASE UNCHANGED vars
  BY <1>1, Zenon DEF vars, history, Flags
<1>2. ASSUME NEW r \in Requests, Start(r) PROVE Flags'
  BY <1>2, BeginFlags, Zenon DEF Start, AddLoad, UpdateLoad, Remove, UpdateNothing, CheckoutLoad
<1>3. ASSUME NEW r \in Requests, Continue(r) \/ OrderHandled(r) PROVE Flags'
  <2>1. \/ UNCHANGED <<overlapped, disturbed>>
        \/ UNCHANGED overlapped /\ disturbed' = TRUE
    BY <1>3, Zenon DEF Continue, AddPriced, AddUnpriced, UpdatePriced, RegisterReturn, LoginReturn,
       AddressReturn, OrderConfirmed, OrderFailed, TimeOut, OrderHandled, history
  <2> QED BY <2>1, Zenon DEF Flags
<1>4. CASE Restart
  BY <1>4, Zenon DEF Restart, Flags
<1>5. CASE CookieExpires
  <2>1. UNCHANGED overlapped /\ disturbed' = (disturbed \/ \E q \in Requests : InFlight(q))
    BY <1>5 DEF CookieExpires
  <2> QED BY <2>1, Zenon DEF Flags
<1> QED BY <1>1, <1>2, <1>3, <1>4, <1>5 DEF Next

(* However requests of the browser overlap, time out or die with the process, no list       *)
(* holds two lines of one SKU (cart_add) and an order that is sent has lines of at least      *)
(* one unit each and a registered customer (checkout_submit).                                   *)
THEOREM CartsStaySound == FrontOfficeSpec => []CartsAreSound
<1>1. FrontOfficeInit => StoreInv /\ Flags
  BY StoreInit DEF FrontOfficeInit, Init, Flags
<1>2. StoreInv /\ Flags /\ [FrontOfficeNext]_frontOfficeVars => StoreInv' /\ Flags'
  BY StorefrontAlone, StoreStep, FlagsStep
<1>3. StoreInv /\ Flags => CartsAreSound
  <2> SUFFICES ASSUME StoreInv, Flags PROVE CartsAreSound
    OBVIOUS
  <2>1. OneLinePerSku /\ OrdersAreSound
    BY DEF StoreInv, LinesSound, OneLinePerSku
  <2>2. \A i \in UNION {lines[l] : l \in Requests} : line[i] \in Line
    BY DEF StoreInv, StoreTypes, LinesSound, Line
  <2>3. TypeOK
    BY <2>2 DEF StoreInv, StoreTypes, Flags, TypeOK
  <2> QED BY <2>1, <2>3 DEF CartsAreSound
<1> QED BY <1>1, <1>2, <1>3, PTL DEF FrontOfficeSpec

-----------------------------------------------------------------------------
(* Fulfillment and shipping. *)

JobStates == Dispatch!JobStatus \cup {"absent"}

Work == [stage : Dispatch!Idle \cup {"creating", "committed", "pushed", "read", "updated"},
         job : Requests \cup {None}, seen : JobStates, target : JobStates]

Levels == {"ground", "express", "overnight"}

Parcel == [level : Levels \cup {"other", "none"}, weight : Nat, cost : Int, stated : BOOLEAN,
           events : {{}, {Dispatch!LabelCreated}}]

DispatchTypes ==
    /\ jobs \in [Requests -> JobStates] /\ told \in [Requests -> JobStates]
    /\ queue \in Seq(Requests)
    /\ shipments \in [Requests -> Parcel]
    /\ answers \in [Requests -> {"none", "tracked", "error"}]
    /\ working \in [Requests -> Work]

(* A job is committed, then on the list, and is never taken back.                          *)
JobsQueued ==
    /\ \A i \in DOMAIN queue : jobs[queue[i]] # "absent"
    /\ \A i, j \in DOMAIN queue : queue[i] = queue[j] => i = j
    /\ \A r \in Requests : jobs[r] # "absent" =>
           (\E i \in DOMAIN queue : queue[i] = r) \/ working[r].stage \in {"committed", "failed"}

WorkHolds(r, h) ==
    /\ h.stage \in {"new", "creating"} => jobs[r] = "absent"
    /\ h.stage \in {"committed", "pushed"} => jobs[r] # "absent"
    /\ h.stage = "committed" => \A i \in DOMAIN queue : queue[i] # r
    /\ h.stage \in {"read", "updated"} =>
           h.job \in Requests /\ jobs[h.job] # "absent" /\ h.target \in Dispatch!JobStatus

(* Until handlers overlap or die, the one that is under way knows the jobs that nobody     *)
(* has been told about.                                                                      *)
NewsPending ==
    /\ \A q, r \in Requests : Dispatch!Busy(q) /\ Dispatch!Busy(r) => q = r
    /\ \A r \in Requests :
           /\ working[r].stage \in {"committed", "pushed"} => jobs[r] = "queued"
           /\ working[r].stage = "read" =>
                  <<jobs[working[r].job], working[r].target>> \in Dispatch!VALID_TRANSITIONS
           /\ working[r].stage = "updated" => jobs[working[r].job] = working[r].target
    /\ \A j \in Requests : told[j] # jobs[j] =>
           \E r \in Requests : \/ working[r].stage \in {"committed", "pushed"} /\ r = j
                               \/ working[r].stage = "updated" /\ working[r].job = j

ParcelsPriced ==
    \A r \in Requests :
        (shipments[r].level # "none" /\ ~shipments[r].stated) =>
            /\ shipments[r].level \in Levels /\ shipments[r].weight >= 1
            /\ shipments[r].cost = Dispatch!Rate(shipments[r].level, shipments[r].weight)

DispatchInv ==
    /\ DispatchTypes /\ JobsQueued /\ \A r \in Requests : WorkHolds(r, working[r])
    /\ ~stirred => NewsPending
    /\ ParcelsPriced

(* Fulfillment and shipping before their first request.                                     *)
DispatchIdle ==
    /\ jobs = [r \in Requests |-> "absent"] /\ told = jobs /\ queue = << >>
    /\ shipments = [r \in Requests |-> Dispatch!NoShipment]
    /\ answers = [r \in Requests |-> "none"]
    /\ working = [r \in Requests |-> Dispatch!NoWork]

LEMMA DispatchStart == DispatchIdle => DispatchInv
<1> SUFFICES ASSUME DispatchIdle PROVE DispatchInv
  OBVIOUS
<1>1. Dispatch!NoShipment \in Parcel /\ Dispatch!NoShipment.level = "none"
  BY DEF Dispatch!NoShipment, Parcel
<1>2. Dispatch!NoWork \in Work /\ Dispatch!NoWork.stage = "new"
  BY DEF Dispatch!NoWork, Work, Dispatch!Idle, JobStates
<1>3. queue \in Seq(Requests) /\ DOMAIN queue = {}
  BY DEF DispatchIdle
<1>4. DispatchTypes
  BY <1>1, <1>2, <1>3 DEF DispatchIdle, DispatchTypes, JobStates
<1>5. JobsQueued /\ \A r \in Requests : WorkHolds(r, working[r])
  BY <1>2, <1>3 DEF DispatchIdle, JobsQueued, WorkHolds
<1>6. NewsPending
  BY <1>2 DEF DispatchIdle, NewsPending, Dispatch!Busy, Dispatch!Idle
<1>7. ParcelsPriced
  BY <1>1 DEF DispatchIdle, ParcelsPriced
<1> QED BY <1>4, <1>5, <1>6, <1>7 DEF DispatchInv

LEMMA WorkFacts ==
  /\ Dispatch!NoWork \in Work
  /\ \A stage \in {"creating", "done", "failed"} :
         /\ [Dispatch!NoWork EXCEPT !.stage = stage] \in Work
         /\ [Dispatch!NoWork EXCEPT !.stage = stage].stage = stage
BY DEF Dispatch!NoWork, Work, Dispatch!Idle, JobStates

LEMMA DispatchBegins ==
  ASSUME DispatchInv, stirred \in BOOLEAN, NEW r \in Requests, NEW h \in Work, Dispatch!Begin(r, h)
  PROVE  /\ working[r].stage = "new" /\ jobs[r] = "absent" /\ stirred' \in BOOLEAN
         /\ working' = [working EXCEPT ![r] = h]
         /\ ~stirred' => ~stirred /\ \A q \in Requests : ~Dispatch!Busy(q)
<1>1. working[r].stage = "new" /\ working' = [working EXCEPT ![r] = h]
      /\ stirred' = (stirred \/ \E q \in Requests : Dispatch!Busy(q))
  BY DEF Dispatch!Begin
<1>2. WorkHolds(r, working[r])
  BY DEF DispatchInv
<1>3. stirred' \in BOOLEAN /\ (~stirred' => ~stirred /\ \A q \in Requests : ~Dispatch!Busy(q))
  BY <1>1, Zenon
<1> QED BY <1>1, <1>2, <1>3 DEF WorkHolds

(* What a handler holds survives every step of the others: a job stays, and only its own    *)
(* request puts it on the list.                                                               *)
LEMMA WorkStays ==
  ASSUME DispatchInv, NEW r \in Requests, NEW h \in Work, working' = [working EXCEPT ![r] = h],
         \A j \in Requests : jobs[j] # "absent" => jobs'[j] # "absent",
         \A j \in Requests : j # r /\ jobs[j] = "absent" => jobs'[j] = "absent",
         \A j \in Requests : j # r /\ (\A i \in DOMAIN queue : queue[i] # j)
             => \A i \in DOMAIN queue' : queue'[i] # j,
         WorkHolds(r, h)'
  PROVE  /\ \A q \in Requests : WorkHolds(q, working[q])'
         /\ working' \in [Requests -> Work] /\ working'[r] = h
         /\ \A q \in Requests : q # r => working'[q] = working[q]
<1>1. /\ working' \in [Requests -> Work] /\ working'[r] = h
      /\ \A q \in Requests : q # r => working'[q] = working[q]
  BY DEF DispatchInv, DispatchTypes
<1>2. ASSUME NEW q \in Requests PROVE WorkHolds(q, working[q])'
  <2>1. CASE q = r
    BY <1>1, <2>1 DEF WorkHolds
  <2>2. CASE q # r
    <3>1. WorkHolds(q, working[q])
      BY DEF DispatchInv
    <3> QED BY <1>1, <2>2, <3>1 DEF WorkHolds
  <2> QED BY <2>1, <2>2
<1> QED BY <1>1, <1>2

(* Steps that leave the jobs alone: a request comes and goes, or gives a label or a         *)
(* tracking.                                                                                   *)
LEMMA QuietDispatch ==
  ASSUME DispatchInv, stirred \in BOOLEAN, NEW r \in Requests,
         NEW h \in Work, h.stage \in {"creating", "done"}, Dispatch!Begin(r, h),
         UNCHANGED <<jobs, queue, told>>, shipments' \in [Requests -> Parcel], ParcelsPriced',
         answers' \in [Requests -> {"none", "tracked", "error"}]
  PROVE  DispatchInv' /\ stirred' \in BOOLEAN
<1>1. /\ working[r].stage = "new" /\ jobs[r] = "absent" /\ stirred' \in BOOLEAN
      /\ working' = [working EXCEPT ![r] = h]
      /\ ~stirred' => ~stirred /\ \A q \in Requests : ~Dispatch!Busy(q)
  BY DispatchBegins
<1>2. WorkHolds(r, h)'
  BY <1>1 DEF WorkHolds
<1>3. /\ \A q \in Requests : WorkHolds(q, working[q])'
      /\ working' \in [Requests -> Work] /\ working'[r] = h
      /\ \A q \in Requests : q # r => working'[q] = working[q]
  BY <1>1, <1>2, WorkStays
<1>4. DispatchTypes' /\ JobsQueued'
  BY <1>1, <1>3 DEF DispatchInv, DispatchTypes, JobsQueued
<1>5. ~stirred' => NewsPending'
  <2> SUFFICES ASSUME ~stirred' PROVE NewsPending'
    OBVIOUS
  <2>1. NewsPending /\ \A q \in Requests : working[q].stage \in Dispatch!Idle
    BY <1>1 DEF DispatchInv, Dispatch!Busy
  <2>2. \A q \in Requests : q # r => working'[q].stage \in Dispatch!Idle
    BY <1>3, <2>1
  <2>3. \A j \in Requests : told'[j] = jobs'[j]
    BY <2>1 DEF NewsPending, Dispatch!Idle
  <2> QED BY <1>3, <2>2, <2>3 DEF NewsPending, Dispatch!Busy, Dispatch!Idle
<1> QED BY <1>1, <1>3, <1>4, <1>5 DEF DispatchInv

(* A step of a handler under way that does not touch the stage another one is in.           *)
LEMMA WorkMoves ==
  ASSUME DispatchInv, NEW r \in Requests, NEW stage, Dispatch!Advance(r, stage),
         stage \in {"committed", "pushed", "updated"}
  PROVE  \E h \in Work : /\ working' = [working EXCEPT ![r] = h] /\ h.stage = stage
                         /\ h.job = working[r].job /\ h.target = working[r].target
                         /\ UNCHANGED stirred
<1>1. working[r] \in Work
  BY DEF DispatchInv, DispatchTypes
<1>2. PICK h : h = [working[r] EXCEPT !.stage = stage]
  OBVIOUS
<1>3. h \in Work /\ h.stage = stage /\ h.job = working[r].job /\ h.target = working[r].target
  BY <1>1, <1>2 DEF Work
<1> QED BY <1>2, <1>3 DEF Dispatch!Advance

LEMMA WorkEnds ==
  ASSUME NEW r \in Requests, Dispatch!Finish(r, "done")
  PROVE  \E h \in Work : /\ working' = [working EXCEPT ![r] = h] /\ h.stage = "done"
                         /\ UNCHANGED stirred
BY WorkFacts DEF Dispatch!Finish

LEMMA CreateCommitStep ==
  ASSUME DispatchInv, NEW r \in Requests, Dispatch!CreateCommit(r)
  PROVE  DispatchInv'
<1>1. /\ working[r].stage = "creating" /\ jobs' = [jobs EXCEPT ![r] = "queued"]
      /\ UNCHANGED <<queue, told, shipments, answers>>
  BY DEF Dispatch!CreateCommit
<1>2. PICK h \in Work : /\ working' = [working EXCEPT ![r] = h] /\ h.stage = "committed"
                        /\ UNCHANGED stirred
  BY WorkMoves DEF Dispatch!CreateCommit
<1>3. /\ jobs \in [Requests -> JobStates] /\ jobs[r] = "absent"
      /\ queue \in Seq(Requests)
  BY <1>1 DEF DispatchInv, DispatchTypes, WorkHolds
<1>4. /\ jobs' \in [Requests -> JobStates] /\ jobs'[r] = "queued"
      /\ \A j \in Requests : j # r => jobs'[j] = jobs[j]
  BY <1>1, <1>3 DEF JobStates, Dispatch!JobStatus
<1>5. \A i \in DOMAIN queue : queue[i] # r
  BY <1>3 DEF DispatchInv, JobsQueued
<1>6. WorkHolds(r, h)'
  BY <1>1, <1>2, <1>4, <1>5 DEF WorkHolds
<1>7. /\ \A q \in Requests : WorkHolds(q, working[q])'
      /\ working' \in [Requests -> Work] /\ working'[r] = h
      /\ \A q \in Requests : q # r => working'[q] = working[q]
  BY <1>1, <1>2, <1>3, <1>4, <1>6, WorkStays
<1>8. DispatchTypes'
  BY <1>1, <1>4, <1>7 DEF DispatchInv, DispatchTypes
<1>9. JobsQueued'
  <2>1. \A i \in DOMAIN queue : queue[i] \in Requests
    BY <1>3
  <2>2. \A i \in DOMAIN queue : jobs'[queue[i]] # "absent"
    BY <1>4, <2>1 DEF DispatchInv, JobsQueued
  <2>3. ASSUME NEW q \in Requests, jobs'[q] # "absent"
        PROVE  (\E i \in DOMAIN queue : queue[i] = q) \/ working'[q].stage \in {"committed", "failed"}
    <3>1. CASE q = r
      BY <1>2, <1>7, <3>1
    <3>2. CASE q # r
      BY <1>4, <1>7, <2>3, <3>2 DEF DispatchInv, JobsQueued
    <3> QED BY <3>1, <3>2
  <2> QED BY <1>1, <2>2, <2>3 DEF DispatchInv, JobsQueued
<1>a. ASSUME ~stirred PROVE NewsPending'
  <2>1. NewsPending
    BY <1>a DEF DispatchInv
  <2>2. \A q \in Requests : q # r => working[q].stage \in Dispatch!Idle
    BY <1>1, <2>1 DEF NewsPending, Dispatch!Busy, Dispatch!Idle
  <2>3. \A j \in Requests : j # r => told'[j] = jobs'[j]
    BY <1>1, <1>4, <2>1, <2>2 DEF NewsPending, Dispatch!Idle
  <2> QED BY <1>2, <1>4, <1>7, <2>2, <2>3 DEF NewsPending, Dispatch!Busy, Dispatch!Idle
<1>b. ParcelsPriced'
  BY <1>1 DEF DispatchInv, ParcelsPriced
<1> QED BY <1>2, <1>7, <1>8, <1>9, <1>a, <1>b DEF DispatchInv

LEMMA EnqueueStep ==
  ASSUME DispatchInv, NEW r \in Requests, Dispatch!Enqueue(r)
  PROVE  DispatchInv'
<1>1. /\ working[r].stage = "committed" /\ queue' = <<r>> \o queue
      /\ UNCHANGED <<jobs, told, shipments, answers>>
  BY DEF Dispatch!Enqueue
<1>2. PICK h \in Work : /\ working' = [working EXCEPT ![r] = h] /\ h.stage = "pushed"
                        /\ UNCHANGED stirred
  BY WorkMoves DEF Dispatch!Enqueue
<1>3. /\ queue \in Seq(Requests) /\ jobs[r] # "absent" /\ \A i \in DOMAIN queue : queue[i] # r
  BY <1>1 DEF DispatchInv, DispatchTypes, WorkHolds
<1>4. /\ queue' \in Seq(Requests) /\ Len(queue') = Len(queue) + 1
      /\ \A i \in 1..Len(queue') : queue'[i] = IF i = 1 THEN r ELSE queue[i - 1]
  BY <1>1, <1>3
<1>5. /\ DOMAIN queue = 1..Len(queue) /\ DOMAIN queue' = 1..Len(queue') /\ Len(queue) \in Nat
  BY <1>3, <1>4
<1>6. queue'[1] = r /\ \A i \in DOMAIN queue : i + 1 \in DOMAIN queue' /\ queue'[i + 1] = queue[i]
  BY <1>4, <1>5
<1>7. \A i \in DOMAIN queue' : i # 1 => i - 1 \in DOMAIN queue /\ queue'[i] = queue[i - 1]
  BY <1>4, <1>5
<1>8. \A j \in Requests : j # r /\ (\A i \in DOMAIN queue : queue[i] # j)
          => \A i \in DOMAIN queue' : queue'[i] # j
  BY <1>6, <1>7
<1>9. WorkHolds(r, h)'
  BY <1>1, <1>2, <1>3 DEF WorkHolds
<1>a. /\ \A q \in Requests : WorkHolds(q, working[q])'
      /\ working' \in [Requests -> Work] /\ working'[r] = h
      /\ \A q \in Requests : q # r => working'[q] = working[q]
  BY <1>1, <1>2, <1>8, <1>9, WorkStays
<1>b. JobsQueued'
  <2>1. \A i \in DOMAIN queue' : jobs[queue'[i]] # "absent"
    BY <1>3, <1>6, <1>7 DEF DispatchInv, JobsQueued
  <2>2. ASSUME NEW i \in DOMAIN queue', NEW j \in DOMAIN queue', queue'[i] = queue'[j]
        PROVE  i = j
    <3>1. CASE i = 1 \/ j = 1
      BY <1>3, <1>6, <1>7, <2>2, <3>1
    <3>2. CASE i # 1 /\ j # 1
      <4>1. i - 1 = j - 1
        BY <1>7, <2>2, <3>2 DEF DispatchInv, JobsQueued
      <4> QED BY <1>5, <4>1
    <3> QED BY <3>1, <3>2
  <2>3. ASSUME NEW q \in Requests, jobs[q] # "absent"
        PROVE  (\E i \in DOMAIN queue' : queue'[i] = q) \/ working'[q].stage \in {"committed", "failed"}
    <3>1. 1 \in DOMAIN queue'
      BY <1>4, <1>5
    <3>2. CASE q = r
      BY <1>6, <3>1, <3>2
    <3>3. CASE q # r
      BY <1>6, <1>a, <2>3, <3>3 DEF DispatchInv, JobsQueued
    <3> QED BY <3>2, <3>3
  <2> QED BY <1>1, <2>1, <2>2, <2>3 DEF JobsQueued
<1>c. DispatchTypes'
  BY <1>1, <1>4, <1>a DEF DispatchInv, DispatchTypes
<1>d. ASSUME ~stirred PROVE NewsPending'
  <2>1. NewsPending
    BY <1>d DEF DispatchInv
  <2>2. \A q \in Requests : q # r => working[q].stage \in Dispatch!Idle
    BY <1>1, <2>1 DEF NewsPending, Dispatch!Busy, Dispatch!Idle
  <2>3. \A j \in Requests : j # r => told'[j] = jobs'[j]
    BY <1>1, <2>1, <2>2 DEF NewsPending, Dispatch!Idle
  <2>4. jobs'[r] = "queued"
    BY <1>1, <2>1 DEF NewsPending
  <2> QED BY <1>2, <1>a, <2>2, <2>3, <2>4 DEF NewsPending, Dispatch!Busy, Dispatch!Idle
<1>e. ParcelsPriced'
  BY <1>1 DEF DispatchInv, ParcelsPriced
<1> QED BY <1>2, <1>a, <1>b, <1>c, <1>d, <1>e DEF DispatchInv

LEMMA AnnounceJobStep ==
  ASSUME DispatchInv, NEW r \in Requests, Dispatch!AnnounceJob(r)
  PROVE  DispatchInv'
<1>1. /\ working[r].stage = "pushed" /\ told' = [told EXCEPT ![r] = "queued"]
      /\ UNCHANGED <<jobs, queue, shipments, answers>>
  BY DEF Dispatch!AnnounceJob
<1>2. PICK h \in Work : /\ working' = [working EXCEPT ![r] = h] /\ h.stage = "done"
                        /\ UNCHANGED stirred
  BY WorkEnds DEF Dispatch!AnnounceJob
<1>3. WorkHolds(r, h)'
  BY <1>2 DEF WorkHolds
<1>4. /\ \A q \in Requests : WorkHolds(q, working[q])'
      /\ working' \in [Requests -> Work] /\ working'[r] = h
      /\ \A q \in Requests : q # r => working'[q] = working[q]
  BY <1>1, <1>2, <1>3, WorkStays
<1>5. /\ told' \in [Requests -> JobStates] /\ told'[r] = "queued"
      /\ \A j \in Requests : j # r => told'[j] = told[j]
  BY <1>1 DEF DispatchInv, DispatchTypes, JobStates, Dispatch!JobStatus
<1>6. DispatchTypes' /\ JobsQueued'
  BY <1>1, <1>4, <1>5 DEF DispatchInv, DispatchTypes, JobsQueued
<1>7. ASSUME ~stirred PROVE NewsPending'
  <2>1. NewsPending
    BY <1>7 DEF DispatchInv
  <2>2. \A q \in Requests : q # r => working[q].stage \in Dispatch!Idle
    BY <1>1, <2>1 DEF NewsPending, Dispatch!Busy, Dispatch!Idle
  <2>3. \A j \in Requests : told'[j] = jobs'[j]
    BY <1>1, <1>5, <2>1, <2>2 DEF NewsPending, Dispatch!Idle
  <2> QED BY <1>2, <1>4, <2>2, <2>3 DEF NewsPending, Dispatch!Busy, Dispatch!Idle
<1>8. ParcelsPriced'
  BY <1>1 DEF DispatchInv, ParcelsPriced
<1> QED BY <1>2, <1>4, <1>6, <1>7, <1>8 DEF DispatchInv

LEMMA UpdateReadStep ==
  ASSUME DispatchInv, stirred \in BOOLEAN, NEW r \in Requests, NEW j \in Requests,
         NEW target \in Dispatch!JobStatus, Dispatch!UpdateRead(r, j, target)
  PROVE  DispatchInv' /\ stirred' \in BOOLEAN
<1>1. jobs[j] # "absent" /\ UNCHANGED <<jobs, queue, told, shipments, answers>>
  BY DEF Dispatch!UpdateRead
<1>t. ParcelsPriced' /\ shipments' \in [Requests -> Parcel]
      /\ answers' \in [Requests -> {"none", "tracked", "error"}] /\ jobs[j] \in JobStates
  BY <1>1 DEF DispatchInv, DispatchTypes, ParcelsPriced
<1>2. CASE ~Dispatch!Allowed(jobs[j], target)
  BY <1>1, <1>t, <1>2, WorkFacts, QuietDispatch DEF Dispatch!UpdateRead
<1>3. CASE Dispatch!Allowed(jobs[j], target)
  <2>1. PICK h : h = [stage |-> "read", job |-> j, seen |-> jobs[j], target |-> target]
    OBVIOUS
  <2>2. /\ h \in Work /\ h.stage = "read" /\ h.job = j /\ h.target = target
        /\ Dispatch!Begin(r, h)
    BY <1>3, <1>t, <2>1 DEF Work, JobStates, Dispatch!UpdateRead
  <2>3. /\ working[r].stage = "new" /\ jobs[r] = "absent" /\ stirred' \in BOOLEAN
        /\ working' = [working EXCEPT ![r] = h]
        /\ ~stirred' => ~stirred /\ \A q \in Requests : ~Dispatch!Busy(q)
    BY <2>2, DispatchBegins
  <2>4. WorkHolds(r, h)'
    BY <1>1, <2>2 DEF WorkHolds
  <2>5. /\ \A q \in Requests : WorkHolds(q, working[q])'
        /\ working' \in [Requests -> Work] /\ working'[r] = h
        /\ \A q \in Requests : q # r => working'[q] = working[q]
    BY <1>1, <2>2, <2>3, <2>4, WorkStays
  <2>6. DispatchTypes' /\ JobsQueued'
    BY <1>1, <2>3, <2>5 DEF DispatchInv, DispatchTypes, JobsQueued
  <2>7. ASSUME ~stirred' PROVE NewsPending'
    <3>1. NewsPending /\ \A q \in Requests : working[q].stage \in Dispatch!Idle
      BY <2>3, <2>7 DEF DispatchInv, Dispatch!Busy
    <3>2. \A k \in Requests : told'[k] = jobs'[k]
      BY <1>1, <3>1 DEF NewsPending, Dispatch!Idle
    <3>3. <<jobs'[j], target>> \in Dispatch!VALID_TRANSITIONS
      BY <1>1, <1>3 DEF Dispatch!Allowed
    <3>4. \A q \in Requests : q # r => working'[q].stage \in Dispatch!Idle
      BY <2>5, <3>1
    <3> QED BY <2>2, <2>5, <3>2, <3>3, <3>4 DEF NewsPending, Dispatch!Busy, Dispatch!Idle
  <2> QED BY <1>t, <2>3, <2>5, <2>6, <2>7 DEF DispatchInv
<1> QED BY <1>2, <1>3

LEMMA UpdateCommitStep ==
  ASSUME DispatchInv, NEW r \in Requests, Dispatch!UpdateCommit(r)
  PROVE  DispatchInv'
<1>1. /\ working[r].stage = "read"
      /\ jobs' = [jobs EXCEPT ![working[r].job] = working[r].target]
      /\ UNCHANGED <<queue, told, shipments, answers>>
  BY DEF Dispatch!UpdateCommit
<1>2. PICK h \in Work : /\ working' = [working EXCEPT ![r] = h] /\ h.stage = "updated"
                        /\ h.job = working[r].job /\ h.target = working[r].target
                        /\ UNCHANGED stirred
  BY WorkMoves DEF Dispatch!UpdateCommit
<1>3. PICK j \in Requests, target \in Dispatch!JobStatus :
          j = working[r].job /\ target = working[r].target /\ jobs[j] # "absent"
  BY <1>1 DEF DispatchInv, WorkHolds
<1>4. /\ jobs' \in [Requests -> JobStates] /\ jobs'[j] = target /\ target # "absent"
      /\ \A k \in Requests : k # j => jobs'[k] = jobs[k]
  BY <1>1, <1>3 DEF DispatchInv, DispatchTypes, JobStates, Dispatch!JobStatus
<1>5. WorkHolds(r, h)'
  BY <1>2, <1>3, <1>4 DEF WorkHolds
<1>6. /\ \A k \in Requests : jobs[k] # "absent" <=> jobs'[k] # "absent"
  BY <1>3, <1>4
<1>7. /\ \A q \in Requests : WorkHolds(q, working[q])'
      /\ working' \in [Requests -> Work] /\ working'[r] = h
      /\ \A q \in Requests : q # r => working'[q] = working[q]
  BY <1>1, <1>2, <1>5, <1>6, WorkStays
<1>8. DispatchTypes'
  BY <1>1, <1>4, <1>7 DEF DispatchInv, DispatchTypes
<1>9. JobsQueued'
  <2>1. \A i \in DOMAIN queue : queue[i] \in Requests
    BY DEF DispatchInv, DispatchTypes
  <2>2. \A q \in Requests : working[q].stage \in {"committed", "failed"} =>
            working'[q].stage \in {"committed", "failed"}
    BY <1>1, <1>7
  <2> QED BY <1>1, <1>6, <2>1, <2>2 DEF DispatchInv, JobsQueued
<1>a. ASSUME ~stirred PROVE NewsPending'
  <2>1. NewsPending
    BY <1>a DEF DispatchInv
  <2>2. \A q \in Requests : q # r => working[q].stage \in Dispatch!Idle
    BY <1>1, <2>1 DEF NewsPending, Dispatch!Busy, Dispatch!Idle
  <2>3. \A k \in Requests : k # j => told'[k] = jobs'[k]
    BY <1>1, <1>4, <2>1, <2>2 DEF NewsPending, Dispatch!Idle
  <2> QED BY <1>2, <1>3, <1>4, <1>7, <2>2, <2>3 DEF NewsPending, Dispatch!Busy, Dispatch!Idle
<1>b. ParcelsPriced'
  BY <1>1 DEF DispatchInv, ParcelsPriced
<1> QED BY <1>2, <1>7, <1>8, <1>9, <1>a, <1>b DEF DispatchInv

LEMMA AnnounceStatusStep ==
  ASSUME DispatchInv, NEW r \in Requests, Dispatch!AnnounceStatus(r)
  PROVE  DispatchInv'
<1>1. /\ working[r].stage = "updated"
      /\ told' = [told EXCEPT ![working[r].job] = working[r].target]
      /\ UNCHANGED <<jobs, queue, shipments, answers>>
  BY DEF Dispatch!AnnounceStatus
<1>2. PICK h \in Work : /\ working' = [working EXCEPT ![r] = h] /\ h.stage = "done"
                        /\ UNCHANGED stirred
  BY WorkEnds DEF Dispatch!AnnounceStatus
<1>3. PICK j \in Requests, target \in Dispatch!JobStatus :
          j = working[r].job /\ target = working[r].target
  BY <1>1 DEF DispatchInv, WorkHolds
<1>4. WorkHolds(r, h)'
  BY <1>2 DEF WorkHolds
<1>5. /\ \A q \in Requests : WorkHolds(q, working[q])'
      /\ working' \in [Requests -> Work] /\ working'[r] = h
      /\ \A q \in Requests : q # r => working'[q] = working[q]
  BY <1>1, <1>2, <1>4, WorkStays
<1>6. /\ told' \in [Requests -> JobStates] /\ told'[j] = target
      /\ \A k \in Requests : k # j => told'[k] = told[k]
  BY <1>1, <1>3 DEF DispatchInv, DispatchTypes, JobStates
<1>7. DispatchTypes' /\ JobsQueued'
  BY <1>1, <1>5, <1>6 DEF DispatchInv, DispatchTypes, JobsQueued
<1>8. ASSUME ~stirred PROVE NewsPending'
  <2>1. NewsPending
    BY <1>8 DEF DispatchInv
  <2>2. \A q \in Requests : q # r => working[q].stage \in Dispatch!Idle
    BY <1>1, <2>1 DEF NewsPending, Dispatch!Busy, Dispatch!Idle
  <2>3. jobs[j] = target
    BY <1>1, <1>3, <2>1 DEF NewsPending
  <2>4. \A k \in Requests : told'[k] = jobs'[k]
    BY <1>1, <1>3, <1>6, <2>1, <2>2, <2>3 DEF NewsPending, Dispatch!Idle
  <2> QED BY <1>2, <1>5, <2>2, <2>4 DEF NewsPending, Dispatch!Busy, Dispatch!Idle
<1>9. ParcelsPriced'
  BY <1>1 DEF DispatchInv, ParcelsPriced
<1> QED BY <1>2, <1>5, <1>7, <1>8, <1>9 DEF DispatchInv

(* What calculate_rates computes: the base for a pound, above that its share, rounded half  *)
(* to even to a cent.                                                                         *)
Odd(n) == n % 2 = 1

Rests == {n \in Nat : n < 16000}

NearestCent(share, rate, floor, rest) ==
    /\ share = 16000 * floor + rest
    /\ rest > 8000 => rate = floor + 1
    /\ rest < 8000 => rate = floor
    /\ rest = 8000 => rate = IF Odd(floor) THEN floor + 1 ELSE floor

HalfEven(share, rate) == \E floor \in Int, rest \in Rests : NearestCent(share, rate, floor, rest)

Rounded(base, weight, rate) ==
    /\ weight <= 16000 => rate = base
    /\ weight > 16000 => HalfEven(base * weight, rate)

Cents(share) ==
    LET floor == share \div 16000
        rest == share % 16000 IN
    IF rest > 8000 \/ (rest = 8000 /\ floor % 2 = 1) THEN floor + 1 ELSE floor

(* What RatesFollowWeight says of a cost, and of two parcels of one level.                    *)
Nearly(cost, share) == 16000 * cost - share <= 8000 /\ share - 16000 * cost <= 8000

FitsWeight(base, weight, cost) ==
    /\ cost >= base
    /\ weight >= 16000 => Nearly(cost, base * weight)

FitParcels(x, y) ==
    /\ x.cost >= Dispatch!Base[x.level]
    /\ Dispatch!NearShare(x)
    /\ x.weight <= y.weight => x.cost <= y.cost

LEMMA Division ==
  ASSUME NEW n \in Nat
  PROVE  /\ n \div 16000 \in Int /\ n % 16000 \in Rests
         /\ n = 16000 * (n \div 16000) + (n % 16000)
BY DEF Rests

LEMMA CentsAreHalfEven ==
  ASSUME NEW share \in Nat
  PROVE  Cents(share) \in Int /\ HalfEven(share, Cents(share))
<1>1. PICK floor, rest : floor = share \div 16000 /\ rest = share % 16000
  OBVIOUS
<1>2. floor \in Int /\ rest \in Nat /\ rest < 16000 /\ share = 16000 * floor + rest
  BY <1>1, Division DEF Rests
<1>3. PICK cents : cents = Cents(share)
  OBVIOUS
<1>4. cents = IF rest > 8000 \/ (rest = 8000 /\ Odd(floor)) THEN floor + 1 ELSE floor
  BY <1>1, <1>3 DEF Cents, Odd
<1>5. /\ rest > 8000 => cents = floor + 1
      /\ rest < 8000 => cents = floor
      /\ rest = 8000 => cents = IF Odd(floor) THEN floor + 1 ELSE floor
      /\ cents \in Int
  BY <1>2, <1>4
<1>6. NearestCent(share, cents, floor, rest) /\ rest \in Rests
  BY <1>2, <1>5 DEF NearestCent, Rests
<1> QED BY <1>2, <1>3, <1>5, <1>6 DEF HalfEven

LEMMA RateFacts ==
  ASSUME NEW level \in Levels, NEW weight \in Nat
  PROVE  \E base \in {899, 1499, 2499}, rate \in Int :
            /\ base = Dispatch!Base[level] /\ rate = Dispatch!Rate(level, weight)
            /\ Rounded(base, weight, rate)
<1>1. PICK base \in {899, 1499, 2499} : base = Dispatch!Base[level]
  BY DEF Dispatch!Base, Levels
<1>2. PICK share \in Nat : share = base * weight
  OBVIOUS
<1>3. Dispatch!Rate(level, weight) =
          IF weight <= 16000 THEN Dispatch!Base[level] ELSE Cents(Dispatch!Base[level] * weight)
  BY DEF Dispatch!Rate, Cents
<1>4. PICK rate : rate = Dispatch!Rate(level, weight)
  OBVIOUS
<1>5. rate = IF weight <= 16000 THEN base ELSE Cents(share)
  BY <1>1, <1>2, <1>3, <1>4
<1>6. Cents(share) \in Int /\ HalfEven(share, Cents(share))
  BY CentsAreHalfEven
<1>7. rate \in Int /\ (weight <= 16000 => rate = base) /\ (weight > 16000 => HalfEven(share, rate))
  BY <1>5, <1>6
<1>8. Rounded(base, weight, rate)
  BY <1>2, <1>7 DEF Rounded
<1> QED BY <1>1, <1>4, <1>7, <1>8

LEMMA RoundedShare ==
  ASSUME NEW base \in {899, 1499, 2499}, NEW weight \in Nat, NEW rate \in Int,
         Rounded(base, weight, rate)
  PROVE  rate \in Nat /\ rate >= base /\ FitsWeight(base, weight, rate)
<1>1. CASE weight <= 16000
  <2>1. rate = base
    BY <1>1 DEF Rounded
  <2>2. weight >= 16000 => weight = 16000
    BY <1>1
  <2>3. weight >= 16000 => 16000 * rate - base * weight = 0
    BY <2>1, <2>2
  <2>4. weight >= 16000 => Nearly(rate, base * weight)
    BY <2>3 DEF Nearly
  <2>5. rate >= base /\ rate \in Nat
    BY <2>1
  <2> QED BY <2>4, <2>5 DEF FitsWeight
<1>2. CASE weight > 16000
  <2>2. PICK e \in Int : e = base * weight /\ e >= 16000 * base
    BY <1>2
  <2>h. HalfEven(e, rate)
    BY <1>2, <2>2 DEF Rounded
  <2>p. PICK floor \in Int, rest \in Rests : NearestCent(e, rate, floor, rest)
    BY <2>h DEF HalfEven
  <2>1. /\ rest \in Nat /\ rest < 16000 /\ e = 16000 * floor + rest
        /\ rest > 8000 => rate = floor + 1
        /\ rest < 8000 => rate = floor
        /\ rest = 8000 => rate = floor \/ rate = floor + 1
    BY <2>p DEF NearestCent, Rests
  <2>3. floor >= base
    BY <2>1, <2>2
  <2>4. rate = floor \/ rate = floor + 1
    BY <2>1
  <2>5. e = 16000 * floor + rest
    BY <2>1, <2>2
  <2>a. (rest > 8000 => rate = floor + 1) /\ (rest < 8000 => rate = floor)
    BY <2>1
  <2>6. \/ rate = floor /\ rest <= 8000
        \/ rate = floor + 1 /\ rest >= 8000
    <3>1. rest \in Int /\ (rest > 8000 \/ rest < 8000 \/ rest = 8000)
      BY <2>1
    <3> QED BY <2>4, <2>a, <3>1
  <2>7. Nearly(rate, e)
    <3>1. PICK off : off = 16000 * rate - e
      OBVIOUS
    <3>2. (off = 0 - rest /\ rest <= 8000) \/ (off = 16000 - rest /\ rest >= 8000)
      BY <2>1, <2>6, <3>1
    <3>3. off \in Int /\ -8000 <= off /\ off <= 8000
      BY <2>1, <3>2
    <3>4. e - 16000 * rate <= 8000
      BY <3>1, <3>3
    <3> QED BY <3>1, <3>3, <3>4 DEF Nearly
  <2>8. Nearly(rate, base * weight)
    BY <2>2, <2>7
  <2>9. rate >= base /\ rate \in Nat
    BY <2>3, <2>4
  <2> QED BY <2>8, <2>9 DEF FitsWeight
<1> QED BY <1>1, <1>2

LEMMA RoundedGrows ==
  ASSUME NEW base \in {899, 1499, 2499}, NEW light \in Nat, NEW heavy \in Nat, light <= heavy,
         NEW a \in Int, NEW b \in Int, Rounded(base, light, a), Rounded(base, heavy, b)
  PROVE  a <= b
<1>1. CASE light <= 16000
  <2>1. a = base
    BY <1>1 DEF Rounded
  <2>2. b >= base
    BY RoundedShare
  <2> QED BY <2>1, <2>2
<1>2. CASE light > 16000
  <2>2. heavy > 16000
    BY <1>2
  <2>4. PICK d \in Int, e \in Int : d = base * light /\ e = base * heavy /\ d <= e
    OBVIOUS
  <2>h. HalfEven(d, a) /\ HalfEven(e, b)
    BY <1>2, <2>2, <2>4 DEF Rounded
  <2>p. PICK f \in Int, p \in Rests : NearestCent(d, a, f, p)
    BY <2>h DEF HalfEven
  <2>q. PICK g \in Int, q \in Rests : NearestCent(e, b, g, q)
    BY <2>h DEF HalfEven
  <2>1. /\ p \in Nat /\ p < 16000 /\ d = 16000 * f + p
        /\ p > 8000 => a = f + 1
        /\ p < 8000 => a = f
        /\ p = 8000 => a = IF Odd(f) THEN f + 1 ELSE f
    BY <2>p DEF NearestCent, Rests
  <2>3. /\ q \in Nat /\ q < 16000 /\ e = 16000 * g + q
        /\ q > 8000 => b = g + 1
        /\ q < 8000 => b = g
        /\ q = 8000 => b = IF Odd(g) THEN g + 1 ELSE g
    BY <2>q DEF NearestCent, Rests
  <2>5. f < g \/ (f = g /\ p <= q)
    BY <2>1, <2>3, <2>4
  <2>6. a \in {f, f + 1} /\ b \in {g, g + 1}
    BY <2>1, <2>3
  <2>7. CASE f < g
    BY <2>6, <2>7
  <2>8. CASE f = g /\ p <= q
    BY <2>1, <2>3, <2>8
  <2> QED BY <2>5, <2>7, <2>8
<1> QED BY <1>1, <1>2

LEMMA CreateLabelStep ==
  ASSUME DispatchInv, stirred \in BOOLEAN, NEW r \in Requests,
         NEW level \in DOMAIN Dispatch!Base \cup {"other"}, NEW weight \in Weights,
         Dispatch!CreateLabel(r, level, weight), FrontOfficeAssumption
  PROVE  DispatchInv' /\ stirred' \in BOOLEAN
<1>1. Weights \subseteq Nat \ {0} /\ Stated \subseteq Int /\ DOMAIN Dispatch!Base = Levels
  BY DEF FrontOfficeAssumption, Dispatch!DispatchAssumption, Dispatch!Base, Levels
<1>2. /\ Dispatch!Begin(r, [Dispatch!NoWork EXCEPT !.stage = "done"])
      /\ UNCHANGED <<jobs, queue, told, answers>>
  BY DEF Dispatch!CreateLabel
<1>3. \E x \in Parcel : /\ shipments' = [shipments EXCEPT ![r] = x]
                        /\ ~x.stated => /\ x.level \in Levels /\ x.weight >= 1
                                        /\ x.cost = Dispatch!Rate(x.level, x.weight)
  <2>1. CASE level \in DOMAIN Dispatch!Base
             /\ shipments' = [shipments EXCEPT ![r] =
                    Dispatch!Label(level, weight, Dispatch!Rate(level, weight), FALSE)]
    <3>1. level \in Levels /\ weight \in Nat /\ weight >= 1
      BY <1>1, <2>1
    <3>2. PICK cost \in Int : cost = Dispatch!Rate(level, weight)
      BY <3>1, RateFacts
    <3>3. PICK x : x = Dispatch!Label(level, weight, cost, FALSE)
      OBVIOUS
    <3>4. x \in Parcel /\ x.level = level /\ x.weight = weight /\ x.cost = cost
      BY <3>1, <3>3 DEF Dispatch!Label, Parcel
    <3> QED BY <2>1, <3>1, <3>2, <3>3, <3>4
  <2>2. CASE \E cost \in Stated :
                 shipments' = [shipments EXCEPT ![r] = Dispatch!Label(level, weight, cost, TRUE)]
    <3>1. PICK cost \in Int :
              shipments' = [shipments EXCEPT ![r] = Dispatch!Label(level, weight, cost, TRUE)]
      BY <1>1, <2>2
    <3>2. level \in Levels \cup {"other"} /\ weight \in Nat
      BY <1>1
    <3>3. PICK x : x = Dispatch!Label(level, weight, cost, TRUE)
      OBVIOUS
    <3>4. x \in Parcel /\ x.stated
      BY <3>2, <3>3 DEF Dispatch!Label, Parcel
    <3> QED BY <3>1, <3>3, <3>4
  <2> QED BY <2>1, <2>2 DEF Dispatch!CreateLabel
<1>4. shipments' \in [Requests -> Parcel] /\ ParcelsPriced'
  BY <1>3 DEF DispatchInv, DispatchTypes, ParcelsPriced
<1>5. answers' \in [Requests -> {"none", "tracked", "error"}]
  BY <1>2 DEF DispatchInv, DispatchTypes
<1> QED BY <1>2, <1>4, <1>5, WorkFacts, QuietDispatch

LEMMA TrackStep ==
  ASSUME DispatchInv, stirred \in BOOLEAN, NEW r \in Requests, NEW s \in Requests, Dispatch!Track(r, s)
  PROVE  DispatchInv' /\ stirred' \in BOOLEAN
<1>1. /\ Dispatch!Begin(r, [Dispatch!NoWork EXCEPT !.stage = "done"])
      /\ UNCHANGED <<jobs, queue, told, shipments>>
  BY DEF Dispatch!Track
<1>2. PICK answer \in {"tracked", "error"} : answers' = [answers EXCEPT ![s] = answer]
  BY DEF Dispatch!Track
<1>3. answers' \in [Requests -> {"none", "tracked", "error"}]
  BY <1>2 DEF DispatchInv, DispatchTypes
<1>4. shipments' \in [Requests -> Parcel] /\ ParcelsPriced'
  BY <1>1 DEF DispatchInv, DispatchTypes, ParcelsPriced
<1> QED BY <1>1, <1>3, <1>4, WorkFacts, QuietDispatch

LEMMA DispatchFailStep ==
  ASSUME DispatchInv, NEW r \in Requests, Dispatch!Fail(r)
  PROVE  DispatchInv' /\ stirred' \in BOOLEAN
<1>1. /\ stirred' = TRUE /\ UNCHANGED <<jobs, queue, told, shipments, answers>>
  BY DEF Dispatch!Fail
<1>2. PICK h \in Work : working' = [working EXCEPT ![r] = h] /\ h.stage = "failed"
  BY WorkFacts DEF Dispatch!Fail
<1>3. WorkHolds(r, h)'
  BY <1>2 DEF WorkHolds
<1>4. /\ \A q \in Requests : WorkHolds(q, working[q])'
      /\ working' \in [Requests -> Work] /\ working'[r] = h
      /\ \A q \in Requests : q # r => working'[q] = working[q]
  BY <1>1, <1>2, <1>3, WorkStays
<1>5. DispatchTypes' /\ JobsQueued' /\ ParcelsPriced'
  BY <1>1, <1>2, <1>4 DEF DispatchInv, DispatchTypes, JobsQueued, ParcelsPriced
<1> QED BY <1>1, <1>4, <1>5 DEF DispatchInv

LEMMA DispatchStep ==
  ASSUME DispatchInv, stirred \in BOOLEAN, Dispatch!Next, FrontOfficeAssumption
  PROVE  DispatchInv' /\ stirred' \in BOOLEAN
<1>1. PICK r \in Requests :
        \/ Dispatch!CreateJob(r) \/ Dispatch!CreateCommit(r) \/ Dispatch!Enqueue(r)
        \/ Dispatch!AnnounceJob(r)
        \/ \E j \in Requests, target \in Dispatch!JobStatus : Dispatch!UpdateRead(r, j, target)
        \/ Dispatch!UpdateCommit(r) \/ Dispatch!AnnounceStatus(r)
        \/ \E level \in DOMAIN Dispatch!Base \cup {"other"}, weight \in Weights :
               Dispatch!CreateLabel(r, level, weight)
        \/ \E s \in Requests : Dispatch!Track(r, s)
        \/ Dispatch!Fail(r)
  BY DEF Dispatch!Next
<1>2. CASE Dispatch!CreateJob(r)
  <2>1. /\ Dispatch!Begin(r, [Dispatch!NoWork EXCEPT !.stage = "creating"])
        /\ UNCHANGED <<jobs, queue, told, shipments, answers>>
    BY <1>2 DEF Dispatch!CreateJob
  <2>2. /\ shipments' \in [Requests -> Parcel] /\ ParcelsPriced'
        /\ answers' \in [Requests -> {"none", "tracked", "error"}]
    BY <2>1 DEF DispatchInv, DispatchTypes, ParcelsPriced
  <2> QED BY <2>1, <2>2, WorkFacts, QuietDispatch
<1>3. CASE Dispatch!CreateCommit(r)
  BY <1>3, CreateCommitStep DEF Dispatch!CreateCommit, Dispatch!Advance
<1>4. CASE Dispatch!Enqueue(r)
  BY <1>4, EnqueueStep DEF Dispatch!Enqueue, Dispatch!Advance
<1>5. CASE Dispatch!AnnounceJob(r)
  BY <1>5, AnnounceJobStep DEF Dispatch!AnnounceJob, Dispatch!Finish
<1>6. CASE Dispatch!UpdateCommit(r)
  BY <1>6, UpdateCommitStep DEF Dispatch!UpdateCommit, Dispatch!Advance
<1>7. CASE Dispatch!AnnounceStatus(r)
  BY <1>7, AnnounceStatusStep DEF Dispatch!AnnounceStatus, Dispatch!Finish
<1> QED BY <1>1, <1>2, <1>3, <1>4, <1>5, <1>6, <1>7, UpdateReadStep, CreateLabelStep, TrackStep,
           DispatchFailStep

(* A status is decided from a row that nobody changes before it is written.                  *)
LEMMA JobsMove ==
  ASSUME DispatchInv, Dispatch!Next, ~stirred, NEW j \in Requests, jobs'[j] # jobs[j]
  PROVE  \/ jobs[j] = "absent" /\ jobs'[j] = "queued"
         \/ <<jobs[j], jobs'[j]>> \in Dispatch!VALID_TRANSITIONS
<1>1. PICK r \in Requests : Dispatch!CreateCommit(r) \/ Dispatch!UpdateCommit(r)
  BY DEF Dispatch!Next, Dispatch!CreateJob, Dispatch!Enqueue, Dispatch!AnnounceJob,
         Dispatch!UpdateRead, Dispatch!AnnounceStatus, Dispatch!CreateLabel, Dispatch!Track, Dispatch!Fail
<1>2. jobs \in [Requests -> JobStates] /\ WorkHolds(r, working[r])
  BY DEF DispatchInv, DispatchTypes
<1>3. CASE Dispatch!CreateCommit(r)
  BY <1>2, <1>3 DEF WorkHolds, Dispatch!CreateCommit
<1>4. CASE Dispatch!UpdateCommit(r)
  <2>1. working[r].stage = "read" /\ working[r].job \in Requests
        /\ <<jobs[working[r].job], working[r].target>> \in Dispatch!VALID_TRANSITIONS
    BY <1>2, <1>4 DEF DispatchInv, NewsPending, WorkHolds, Dispatch!UpdateCommit
  <2>2. jobs' = [jobs EXCEPT ![working[r].job] = working[r].target]
    BY <1>4 DEF Dispatch!UpdateCommit
  <2>3. j = working[r].job /\ jobs'[j] = working[r].target
    BY <1>2, <2>1, <2>2
  <2> QED BY <2>1, <2>3
<1> QED BY <1>1, <1>3, <1>4

LEMMA DispatchSound == DispatchInv /\ stirred \in BOOLEAN => DispatchIsSound
<1> SUFFICES ASSUME DispatchInv, stirred \in BOOLEAN PROVE DispatchIsSound
  OBVIOUS
<1>1. Dispatch!TypeOK
  BY DEF DispatchInv, DispatchTypes, Dispatch!TypeOK, Parcel, Work, JobStates
<1>2. Dispatch!QueueHoldsJobs
  BY DEF DispatchInv, JobsQueued, Dispatch!QueueHoldsJobs
<1>3. Dispatch!NewsFollowJobs
  <2> SUFFICES ASSUME ~stirred, \A r \in Requests : ~Dispatch!Busy(r) PROVE told = jobs
    BY DEF Dispatch!NewsFollowJobs
  <2>1. \A r \in Requests : working[r].stage \in Dispatch!Idle
    BY DEF Dispatch!Busy
  <2>2. \A j \in Requests : told[j] = jobs[j]
    BY <2>1 DEF DispatchInv, NewsPending, Dispatch!Idle
  <2> QED BY <2>2 DEF DispatchInv, DispatchTypes
<1>4. Dispatch!RatesFollowWeight
  <2>1. ASSUME NEW x \in Parcel, NEW y \in Parcel,
               x.level # "none", ~x.stated, y.level = x.level, ~y.stated,
               x.level \in Levels, x.cost = Dispatch!Rate(x.level, x.weight),
               y.cost = Dispatch!Rate(y.level, y.weight)
        PROVE  FitParcels(x, y)
    <3>1. PICK level \in Levels, light \in Nat, heavy \in Nat :
              level = x.level /\ light = x.weight /\ heavy = y.weight
      BY <2>1 DEF Parcel
    <3>2. PICK base \in {899, 1499, 2499}, a \in Int :
              base = Dispatch!Base[level] /\ a = Dispatch!Rate(level, light) /\ Rounded(base, light, a)
      BY RateFacts
    <3>3. PICK b \in Int : b = Dispatch!Rate(level, heavy) /\ Rounded(base, heavy, b)
      BY <3>2, RateFacts
    <3>4. a >= base /\ (light >= 16000 => Nearly(a, base * light))
      BY <3>2, RoundedShare DEF FitsWeight
    <3>5. light <= heavy => a <= b
      BY <3>2, <3>3, RoundedGrows
    <3>6. x.cost = a /\ y.cost = b /\ Dispatch!Base[x.level] = base
      BY <2>1, <3>1, <3>2, <3>3
    <3>7. Dispatch!NearShare(x)
      BY <3>1, <3>4, <3>6 DEF Dispatch!NearShare, Nearly
    <3>8. x.cost >= Dispatch!Base[x.level]
      BY <3>4, <3>6
    <3>9. x.weight <= y.weight => x.cost <= y.cost
      BY <3>1, <3>5, <3>6
    <3> QED BY <3>7, <3>8, <3>9 DEF FitParcels
  <2>2. shipments \in [Requests -> Parcel] /\ ParcelsPriced
    BY DEF DispatchInv, DispatchTypes
  <2>3. ASSUME NEW r \in Requests, NEW s \in Requests,
               shipments[r].level # "none", ~shipments[r].stated,
               shipments[s].level = shipments[r].level, ~shipments[s].stated
        PROVE  FitParcels(shipments[r], shipments[s])
    <3>1. PICK x \in Parcel, y \in Parcel : x = shipments[r] /\ y = shipments[s]
      BY <2>2
    <3>2. /\ x.level \in Levels /\ x.cost = Dispatch!Rate(x.level, x.weight)
          /\ y.cost = Dispatch!Rate(y.level, y.weight)
      BY <2>2, <2>3, <3>1 DEF ParcelsPriced
    <3>3. FitParcels(x, y)
      BY <2>1, <2>3, <3>1, <3>2
    <3> QED BY <3>1, <3>3
  <2>4. \A r, s \in Requests :
            (shipments[r].level # "none" /\ ~shipments[r].stated
                /\ shipments[s].level = shipments[r].level /\ ~shipments[s].stated)
            => FitParcels(shipments[r], shipments[s])
    BY <2>3
  <2> QED BY <2>4, Zenon DEF Dispatch!RatesFollowWeight, FitParcels
<1> QED BY <1>1, <1>2, <1>3, <1>4 DEF DispatchIsSound

-----------------------------------------------------------------------------
(* The product service. *)

Document == [slug : Slugs \cup {None}, active : BOOLEAN, version : Requests \cup {None}]

Details == [doc : Document, skus : SUBSET Skus, prices : SUBSET (Skus \X Catalog!Price)]

Entries == [product : Requests, doc : Document, skus : SUBSET Skus]

TaskStage == Catalog!Idle \cup
    {"creating", "created", "updating", "get_document", "get_variants", "get_pricing", "get_fill",
     "search", "search_variants", "pricing", "repricing", "tiering", "promoting", "issuing",
     "quoting_tier", "quoting_coupon", "sweeping", "scanning"}

CatalogTask ==
    [stage : TaskStage, target : Requests \cup Codes \cup {None}, sku : Skus \cup Codes \cup {None},
     skus : SUBSET Skus, doc : Document, price : Catalog!Price, tier : Catalog!Tier,
     promotion : Catalog!Promotion, columns : SUBSET STRING, shown : SUBSET (Details \cup Entries \cup {None}),
     todo : SUBSET (Requests \cup {None} \cup (Requests \X Document)), unit : Nat, units : Nat]

RowTypes ==
    /\ products \in [Requests -> Document]
    /\ variants \in [Skus -> Requests \cup {None}]
    /\ pricing \in [Skus -> Catalog!Price] /\ tiers \in [Skus -> SUBSET Catalog!Tier]
    /\ promotions \in [Requests -> Catalog!Promotion]
    /\ coupons \in [Codes -> Requests \cup {None}]

CacheTypes ==
    /\ details \in [Requests -> SUBSET Details]
    /\ \A p \in Requests : details[p] # {} => \E d \in Details : details[p] = {d}
    /\ found \subseteq Entries \cup {None}

(* What the handler h of request r works on.                                               *)
TaskHolds(r, h) ==
    /\ h.stage \in {"new", "creating"} => ~Catalog!Exists(r)
    /\ h.stage = "created" => Catalog!Exists(r)
    /\ h.stage \in {"creating", "created"} => h.skus # {} /\ h.doc.slug \in Slugs
    /\ h.stage = "updating" =>
           h.target \in Requests /\ Catalog!Exists(h.target) /\ h.doc.slug \in Slugs
    /\ h.stage \in {"get_document", "get_variants", "get_pricing", "get_fill", "promoting", "issuing"}
           => h.target \in Requests
    /\ h.stage = "get_fill" => \E d \in Details : h.shown = {d}
    /\ h.stage = "search_variants" =>
           h.shown \subseteq Entries \cup {None} /\ h.todo \subseteq Requests \X Document
    /\ h.stage \in {"pricing", "repricing", "tiering", "quoting_tier", "quoting_coupon"}
           => h.sku \in Skus
    /\ h.stage \in {"quoting_tier", "quoting_coupon"} => h.target \in Codes \cup {None}
    /\ h.stage = "issuing" => h.sku \in Codes
    /\ h.stage = "scanning" => h.todo \subseteq Requests \cup {None}

SlugsUnique ==
    \A p, q \in Requests :
        products[p].slug = products[q].slug => p = q \/ products[p].slug = None

QuotesSound ==
    \A q \in quotes : /\ q.total \in Nat /\ q.subtotal \in Nat
                      /\ q.total \in 0..q.subtotal
                      /\ q.kind = "none" => q.total = q.subtotal
                      /\ q.kind = "fixed" => q.discount + q.total = q.subtotal

DetailOf(p) ==
    {Catalog!Detail(products[p], Catalog!VariantsOf(p), Catalog!PricesOf(Catalog!VariantsOf(p)))}

Results(documents) == {None} \cup {Catalog!Entry(x[1], x[2]) : x \in documents}

Fresh ==
    /\ \A p \in Requests : details[p] # {} => details[p] = DetailOf(p)
    /\ found # {} => found = Results(Catalog!Listed)

Writing == {"created", "sweeping", "scanning"}

(* What the only handler under way has read is still so.                                    *)
TaskFresh(h) ==
    /\ h.stage \notin Writing => Fresh
    /\ h.stage = "scanning" => Catalog!Keys \subseteq h.todo
    /\ h.stage \in {"get_variants", "get_pricing"} => h.doc = products[h.target]
    /\ h.stage = "get_pricing" => h.skus = Catalog!VariantsOf(h.target)
    /\ h.stage = "get_fill" => h.shown = DetailOf(h.target)
    /\ h.stage = "search_variants" =>
           /\ h.todo \subseteq Catalog!Listed
           /\ h.shown = Results(Catalog!Listed \ h.todo)

(* Until handlers overlap or die, one handler is under way, and while it writes nothing     *)
(* stale outlives its sweep.                                                                  *)
CacheKnown ==
    /\ \A q, r \in Requests : Catalog!Busy(q) /\ Catalog!Busy(r) => q = r
    /\ \A r \in Requests : Catalog!Busy(r) => TaskFresh(asking[r])
    /\ (\A r \in Requests : ~Catalog!Busy(r)) => Fresh

CatalogInv ==
    /\ RowTypes /\ CacheTypes /\ asking \in [Requests -> CatalogTask] /\ day \in 1..LastDay
    /\ \A r \in Requests : TaskHolds(r, asking[r])
    /\ SlugsUnique /\ Catalog!VariantsHaveProducts /\ QuotesSound
    /\ ~stirred => CacheKnown

CatalogIdle ==
    /\ Catalog!Empty \/ \E r \in Requests : Catalog!Stocked(r)
    /\ tiers = [k \in Skus |-> {}]
    /\ details = [p \in Requests |-> {}] /\ found = {}
    /\ day = 1 /\ quotes = {}

LEMMA TaskFacts ==
  ASSUME FrontOfficeAssumption
  PROVE  /\ Catalog!NoTask \in CatalogTask /\ Catalog!NoTask.stage = "new"
         /\ Catalog!NoProduct \in Document /\ Catalog!NoProduct.slug = None
         /\ Catalog!NoPrice \in Catalog!Price /\ Catalog!NoPromotion \in Catalog!Promotion
         /\ \A stage \in TaskStage : /\ Catalog!Task(stage) \in CatalogTask
                                     /\ Catalog!Task(stage).stage = stage
         /\ None \notin Requests /\ None \notin Skus /\ None \notin Slugs
<1>1. Catalog!NoProduct \in Document /\ Catalog!NoProduct.slug = None
  BY DEF Document, Catalog!NoProduct
<1>2. Catalog!NoPrice \in Catalog!Price
  BY DEF Catalog!Price, Catalog!NoPrice
<1>3. Catalog!NoPromotion \in Catalog!Promotion
  BY DEF Catalog!Promotion, Catalog!NoPromotion
<1>4. [min |-> 0, percent |-> 0] \in Catalog!Tier
  BY DEF Catalog!Tier
<1>5. Catalog!NoTask \in CatalogTask /\ Catalog!NoTask.stage = "new"
  BY <1>1, <1>2, <1>3, <1>4 DEF Catalog!NoTask, CatalogTask, TaskStage, Catalog!Idle
<1>6. ASSUME NEW stage \in TaskStage
      PROVE  Catalog!Task(stage) \in CatalogTask /\ Catalog!Task(stage).stage = stage
  BY <1>5 DEF Catalog!Task, CatalogTask
<1>7. None \notin Requests /\ None \notin Skus /\ None \notin Slugs
  BY DEF FrontOfficeAssumption, Catalog!CatalogAssumption
<1> QED BY <1>1, <1>2, <1>3, <1>5, <1>6, <1>7

LEMMA CatalogStart ==
  ASSUME CatalogIdle, FrontOfficeAssumption
  PROVE  CatalogInv
<1>a. /\ Prices \subseteq Catalog!Price /\ Promotions \subseteq Catalog!Promotion
      /\ LastDay \in Nat \ {0}
  BY DEF FrontOfficeAssumption, Catalog!CatalogAssumption
<1>1. CacheTypes /\ QuotesSound /\ day \in 1..LastDay /\ tiers \in [Skus -> SUBSET Catalog!Tier]
  BY <1>a DEF CatalogIdle, CacheTypes, QuotesSound
<1>2. CASE Catalog!Empty
  <2>1. /\ products = [p \in Requests |-> Catalog!NoProduct] /\ variants = [k \in Skus |-> None]
        /\ pricing = [k \in Skus |-> Catalog!NoPrice]
        /\ promotions = [p \in Requests |-> Catalog!NoPromotion]
        /\ coupons = [c \in Codes |-> None] /\ asking = [r \in Requests |-> Catalog!NoTask]
    BY <1>2 DEF Catalog!Empty
  <2>2. RowTypes /\ asking \in [Requests -> CatalogTask]
    BY <1>1, <2>1, TaskFacts DEF RowTypes
  <2>3. \A r \in Requests : ~Catalog!Exists(r) /\ asking[r].stage = "new"
    BY <2>1, TaskFacts DEF Catalog!Exists
  <2>4. \A r \in Requests : TaskHolds(r, asking[r])
    BY <2>3 DEF TaskHolds
  <2>5. SlugsUnique /\ Catalog!VariantsHaveProducts
    BY <2>1, <2>3 DEF SlugsUnique, Catalog!VariantsHaveProducts, Catalog!Exists
  <2>6. CacheKnown
    BY <2>3 DEF CatalogIdle, CacheKnown, Fresh, Catalog!Busy, Catalog!Idle
  <2> QED BY <1>1, <2>2, <2>4, <2>5, <2>6 DEF CatalogInv
<1>3. ASSUME NEW r \in Requests, Catalog!Stocked(r) PROVE CatalogInv
  <2>1. PICK slug \in Slugs : products = [p \in Requests |->
            IF p = r THEN [slug |-> slug, active |-> TRUE, version |-> r] ELSE Catalog!NoProduct]
    BY <1>3 DEF Catalog!Stocked
  <2>2. PICK k \in Skus, row \in Prices :
            /\ variants = [j \in Skus |-> IF j = k THEN r ELSE None]
            /\ pricing = [j \in Skus |-> IF j = k THEN row ELSE Catalog!NoPrice]
    BY <1>3 DEF Catalog!Stocked
  <2>3. PICK promotion \in Promotions :
            promotions = [p \in Requests |-> IF p = r THEN promotion ELSE Catalog!NoPromotion]
    BY <1>3 DEF Catalog!Stocked
  <2>4. /\ coupons = [c \in Codes |-> r]
        /\ asking = [q \in Requests |-> IF q = r THEN Catalog!Task("done") ELSE Catalog!NoTask]
    BY <1>3 DEF Catalog!Stocked, Catalog!Task
  <2>5. PICK d \in Document : d = [slug |-> slug, active |-> TRUE, version |-> r]
    BY DEF Document
  <2>6. /\ products = [p \in Requests |-> IF p = r THEN d ELSE Catalog!NoProduct]
        /\ products \in [Requests -> Document] /\ d.slug = slug
    BY <2>1, <2>5, TaskFacts
  <2>7. row \in Catalog!Price
    BY <1>a
  <2>8. RowTypes
    BY <1>1, <1>a, <2>2, <2>3, <2>4, <2>6, <2>7, TaskFacts DEF RowTypes
  <2>9. /\ asking \in [Requests -> CatalogTask]
        /\ \A q \in Requests : asking[q].stage = IF q = r THEN "done" ELSE "new"
    BY <2>4, TaskFacts DEF TaskStage, Catalog!Idle
  <2>b. \A q \in Requests : Catalog!Exists(q) <=> q = r
    BY <2>6, TaskFacts DEF Catalog!Exists
  <2>c. \A q \in Requests : TaskHolds(q, asking[q])
    BY <2>9, <2>b DEF TaskHolds
  <2>d. SlugsUnique
    BY <2>6, TaskFacts DEF SlugsUnique
  <2>e. Catalog!VariantsHaveProducts
    BY <2>2, <2>b, TaskFacts DEF Catalog!VariantsHaveProducts, Catalog!VariantsOf
  <2>f. CacheKnown
    BY <2>9 DEF CatalogIdle, CacheKnown, Fresh, Catalog!Busy, Catalog!Idle
  <2> QED BY <1>1, <2>8, <2>9, <2>c, <2>d, <2>e, <2>f DEF CatalogInv
<1> QED BY <1>2, <1>3 DEF CatalogIdle

(* A PATCH leaves a row of its table.                                                        *)
LEMMA PriceWritten ==
  ASSUME NEW old \in Catalog!Price, NEW new \in Catalog!Price, NEW columns
  PROVE  Catalog!Written(old, new, columns) \in Catalog!Price
BY DEF Catalog!Price, Catalog!Written

LEMMA PromotionWritten ==
  ASSUME NEW old \in Catalog!Promotion, NEW new \in Catalog!Promotion, NEW columns
  PROVE  Catalog!Written(old, new, columns) \in Catalog!Promotion
BY DEF Catalog!Promotion, Catalog!Written

(* A handler moves on.  Rows may be written: what exists stays, and only the handler's own   *)
(* product comes to exist.                                                                    *)
LEMMA TaskMoves ==
  ASSUME CatalogInv, NEW r \in Requests, NEW h \in CatalogTask, asking' = [asking EXCEPT ![r] = h],
         \A p \in Requests : Catalog!Exists(p) => Catalog!Exists(p)',
         \A p \in Requests : p # r /\ ~Catalog!Exists(p) => ~Catalog!Exists(p)',
         TaskHolds(r, h)'
  PROVE  /\ asking' \in [Requests -> CatalogTask] /\ asking'[r] = h
         /\ \A q \in Requests : q # r => asking'[q] = asking[q]
         /\ \A q \in Requests : TaskHolds(q, asking[q])'
<1>1. /\ asking' \in [Requests -> CatalogTask] /\ asking'[r] = h
      /\ \A q \in Requests : q # r => asking'[q] = asking[q]
  BY DEF CatalogInv
<1>2. ASSUME NEW q \in Requests PROVE TaskHolds(q, asking[q])'
  <2>1. CASE q = r
    BY <1>1, <2>1 DEF TaskHolds
  <2>2. CASE q # r
    <3>1. TaskHolds(q, asking[q])
      BY DEF CatalogInv
    <3>2. /\ ~Catalog!Exists(q) => ~Catalog!Exists(q)'
          /\ \A p \in Requests : Catalog!Exists(p) => Catalog!Exists(p)'
      BY <2>2
    <3>3. asking'[q] = asking[q]
      BY <1>1, <2>2
    <3> QED BY <3>1, <3>2, <3>3 DEF TaskHolds
  <2> QED BY <2>1, <2>2
<1> QED BY <1>1, <1>2

(* The same without a row written.                                                           *)
LEMMA TaskMovesOnly ==
  ASSUME CatalogInv, NEW r \in Requests, NEW h \in CatalogTask, asking' = [asking EXCEPT ![r] = h],
         UNCHANGED <<products, variants>>, TaskHolds(r, h),
         asking[r].stage \notin {"created", "failed"} \/ h.stage \in {"created", "failed"}
  PROVE  /\ asking' \in [Requests -> CatalogTask] /\ asking'[r] = h
         /\ \A q \in Requests : q # r => asking'[q] = asking[q]
         /\ \A q \in Requests : TaskHolds(q, asking[q])'
         /\ SlugsUnique' /\ Catalog!VariantsHaveProducts'
<1>1. \A p \in Requests : Catalog!Exists(p)' <=> Catalog!Exists(p)
  BY DEF Catalog!Exists
<1>2. TaskHolds(r, h)'
  BY <1>1 DEF TaskHolds
<1>3. /\ asking' \in [Requests -> CatalogTask] /\ asking'[r] = h
      /\ \A q \in Requests : q # r => asking'[q] = asking[q]
      /\ \A q \in Requests : TaskHolds(q, asking[q])'
  BY <1>1, <1>2, TaskMoves
<1>4. SlugsUnique'
  BY DEF CatalogInv, SlugsUnique
<1>5. Catalog!VariantsHaveProducts'
  <2>1. \A p \in Requests : Catalog!VariantsOf(p)' = Catalog!VariantsOf(p)
    BY DEF Catalog!VariantsOf
  <2>2. \A k \in Skus : variants'[k] # None => Catalog!Exists(variants[k])'
    BY DEF CatalogInv, Catalog!VariantsHaveProducts, Catalog!Exists
  <2>3. ASSUME NEW p \in Requests, Catalog!Exists(p), Catalog!VariantsOf(p) = {}
        PROVE  asking'[p].stage \in {"created", "failed"}
    <3>1. asking[p].stage \in {"created", "failed"}
      BY <2>3 DEF CatalogInv, Catalog!VariantsHaveProducts
    <3> QED BY <1>3, <3>1
  <2> QED BY <1>1, <2>1, <2>2, <2>3 DEF Catalog!VariantsHaveProducts
<1> QED BY <1>3, <1>4, <1>5

(* What the cache should hold depends on the rows that it shows.                             *)
LEMMA SameRows ==
  ASSUME UNCHANGED <<products, variants, pricing>>
  PROVE  /\ \A p : DetailOf(p)' = DetailOf(p)
         /\ Catalog!Listed' = Catalog!Listed
         /\ \A documents : Results(documents)' = Results(documents)
         /\ \A p : Catalog!VariantsOf(p)' = Catalog!VariantsOf(p)
<1>1. \A p : Catalog!VariantsOf(p)' = Catalog!VariantsOf(p)
  BY DEF Catalog!VariantsOf
<1>2. \A skus : Catalog!PricesOf(skus)' = Catalog!PricesOf(skus)
  BY DEF Catalog!PricesOf, Catalog!Priced
<1>3. ASSUME NEW p PROVE DetailOf(p)' = DetailOf(p)
  BY <1>1, <1>2 DEF DetailOf, Catalog!Detail
<1>4. Catalog!Listed' = Catalog!Listed
  BY DEF Catalog!Listed
<1>5. ASSUME NEW documents PROVE Results(documents)' = Results(documents)
  BY <1>1 DEF Results, Catalog!Entry
<1> QED BY <1>1, <1>3, <1>4, <1>5

LEMMA FreshStays ==
  ASSUME UNCHANGED <<products, variants, pricing, details, found>>
  PROVE  /\ Fresh => Fresh'
         /\ \A h : TaskFresh(h) => TaskFresh(h)'
<1>1. Fresh => Fresh'
  BY SameRows DEF Fresh
<1>2. ASSUME NEW h, TaskFresh(h) PROVE TaskFresh(h)'
  <2>1. Catalog!Keys' = Catalog!Keys
    BY DEF Catalog!Keys
  <2>2. /\ DetailOf(h.target)' = DetailOf(h.target) /\ Catalog!Listed' = Catalog!Listed
        /\ Results(Catalog!Listed \ h.todo)' = Results(Catalog!Listed \ h.todo)
        /\ Catalog!VariantsOf(h.target)' = Catalog!VariantsOf(h.target)
    BY SameRows
  <2> QED BY <1>1, <1>2, <2>1, <2>2 DEF TaskFresh
<1> QED BY <1>1, <1>2

LEMMA CacheMoves ==
  ASSUME NEW r \in Requests, NEW h \in CatalogTask,
         asking \in [Requests -> CatalogTask], asking' = [asking EXCEPT ![r] = h],
         \A q \in Requests : q # r => ~Catalog!Busy(q),
         h.stage \in Catalog!Idle => Fresh', h.stage \notin Catalog!Idle => TaskFresh(h)'
  PROVE  CacheKnown'
<1>1. asking'[r] = h /\ \A q \in Requests : q # r => asking'[q] = asking[q]
  OBVIOUS
<1>2. \A q \in Requests : q # r => ~Catalog!Busy(q)'
  BY <1>1 DEF Catalog!Busy
<1>3. Catalog!Busy(r)' <=> h.stage \notin Catalog!Idle
  BY <1>1 DEF Catalog!Busy
<1>4. ASSUME NEW q \in Requests, Catalog!Busy(q)' PROVE TaskFresh(asking[q])'
  <2>1. q = r /\ asking'[q] = h
    BY <1>1, <1>2, <1>4
  <2> QED BY <1>3, <1>4, <2>1 DEF TaskFresh
<1> QED BY <1>2, <1>3, <1>4 DEF CacheKnown

LEMMA Alone ==
  ASSUME CatalogInv, ~stirred, NEW r \in Requests, Catalog!Busy(r)
  PROVE  TaskFresh(asking[r]) /\ \A q \in Requests : q # r => ~Catalog!Busy(q)
BY DEF CatalogInv, CacheKnown

LEMMA CatalogBegins ==
  ASSUME CatalogInv, stirred \in BOOLEAN, NEW r \in Requests, NEW h \in CatalogTask,
         Catalog!Begin(r, h)
  PROVE  /\ asking[r].stage = "new" /\ ~Catalog!Exists(r) /\ stirred' \in BOOLEAN
         /\ asking' = [asking EXCEPT ![r] = h]
         /\ ~stirred' => ~stirred /\ Fresh /\ \A q \in Requests : ~Catalog!Busy(q)
<1>1. asking[r].stage = "new" /\ asking' = [asking EXCEPT ![r] = h]
      /\ stirred' = (stirred \/ \E q \in Requests : Catalog!Busy(q))
  BY DEF Catalog!Begin
<1>2. TaskHolds(r, asking[r])
  BY DEF CatalogInv
<1>3. stirred' \in BOOLEAN /\ (~stirred' => ~stirred /\ \A q \in Requests : ~Catalog!Busy(q))
  BY <1>1, Zenon
<1>4. ~stirred' => Fresh
  BY <1>3 DEF CatalogInv, CacheKnown
<1> QED BY <1>1, <1>2, <1>3, <1>4 DEF TaskHolds

Beginnings == {"creating", "updating", "done", "get_document", "search", "pricing", "repricing",
               "tiering", "promoting", "issuing", "quoting_tier", "sweeping"}

(* A handler begins, and writes a promotion at most.                                         *)
LEMMA QuietBegin ==
  ASSUME CatalogInv, stirred \in BOOLEAN, NEW r \in Requests, NEW h \in CatalogTask,
         Catalog!Begin(r, h), h.stage \in Beginnings, ~Catalog!Exists(r) => TaskHolds(r, h),
         UNCHANGED <<products, variants, pricing, tiers, coupons, details, found, day, quotes>>,
         promotions' \in [Requests -> Catalog!Promotion]
  PROVE  CatalogInv' /\ stirred' \in BOOLEAN
<1>1. /\ asking[r].stage = "new" /\ ~Catalog!Exists(r) /\ stirred' \in BOOLEAN
      /\ asking' = [asking EXCEPT ![r] = h]
      /\ ~stirred' => ~stirred /\ Fresh /\ \A q \in Requests : ~Catalog!Busy(q)
  BY CatalogBegins
<1>2. /\ asking' \in [Requests -> CatalogTask] /\ asking'[r] = h
      /\ \A q \in Requests : q # r => asking'[q] = asking[q]
      /\ \A q \in Requests : TaskHolds(q, asking[q])'
      /\ SlugsUnique' /\ Catalog!VariantsHaveProducts'
  BY <1>1, TaskMovesOnly
<1>3. RowTypes' /\ CacheTypes' /\ QuotesSound' /\ day' \in 1..LastDay
  BY DEF CatalogInv, RowTypes, CacheTypes, QuotesSound
<1>4. ASSUME ~stirred' PROVE CacheKnown'
  <2>1. Fresh' /\ \A q \in Requests : ~Catalog!Busy(q)
    BY <1>1, <1>4, FreshStays
  <2>2. h.stage \notin Catalog!Idle => TaskFresh(h)'
    BY <2>1 DEF TaskFresh, Beginnings
  <2>3. asking \in [Requests -> CatalogTask]
    BY DEF CatalogInv
  <2> QED BY <1>1, <2>1, <2>2, <2>3, CacheMoves
<1> QED BY <1>1, <1>2, <1>3, <1>4 DEF CatalogInv

(* A handler under way goes on, and writes rows at most that no cached document shows.        *)
LEMMA QuietAdvance ==
  ASSUME CatalogInv, NEW r \in Requests, NEW h \in CatalogTask, Catalog!Advance(r, h),
         Catalog!Busy(r), asking[r].stage # "created", TaskHolds(r, h),
         UNCHANGED <<products, variants, pricing, details, found, day>>,
         tiers' \in [Skus -> SUBSET Catalog!Tier],
         promotions' \in [Requests -> Catalog!Promotion],
         coupons' \in [Codes -> Requests \cup {None}], QuotesSound',
         (~stirred /\ TaskFresh(asking[r])) =>
             IF h.stage \in Catalog!Idle THEN Fresh ELSE TaskFresh(h)
  PROVE  CatalogInv'
<1>1. asking' = [asking EXCEPT ![r] = h] /\ UNCHANGED stirred
  BY DEF Catalog!Advance
<1>2. asking[r].stage \notin {"created", "failed"}
  BY DEF Catalog!Busy, Catalog!Idle
<1>3. /\ asking' \in [Requests -> CatalogTask] /\ asking'[r] = h
      /\ \A q \in Requests : q # r => asking'[q] = asking[q]
      /\ \A q \in Requests : TaskHolds(q, asking[q])'
      /\ SlugsUnique' /\ Catalog!VariantsHaveProducts'
  BY <1>1, <1>2, TaskMovesOnly
<1>4. RowTypes' /\ CacheTypes' /\ day' \in 1..LastDay
  BY DEF CatalogInv, RowTypes, CacheTypes
<1>5. ASSUME ~stirred PROVE CacheKnown'
  <2>1. TaskFresh(asking[r]) /\ \A q \in Requests : q # r => ~Catalog!Busy(q)
    BY <1>5, Alone
  <2>2. IF h.stage \in Catalog!Idle THEN Fresh' ELSE TaskFresh(h)'
    BY <1>5, <2>1, FreshStays
  <2>3. asking \in [Requests -> CatalogTask]
    BY DEF CatalogInv
  <2> QED BY <1>1, <2>1, <2>2, <2>3, CacheMoves
<1> QED BY <1>1, <1>3, <1>4, <1>5 DEF CatalogInv

(* A handler is refused or dies: what was written stays.                                      *)
LEMMA RefusedStep ==
  ASSUME CatalogInv, NEW r \in Requests, Catalog!Refuse(r), FrontOfficeAssumption,
         UNCHANGED <<products, variants, pricing, tiers, promotions, coupons, details, found, day,
                     quotes>>
  PROVE  CatalogInv' /\ stirred' \in BOOLEAN
<1>1. PICK h \in CatalogTask : asking' = [asking EXCEPT ![r] = h] /\ h.stage = "failed"
  BY TaskFacts DEF Catalog!Refuse, TaskStage, Catalog!Idle
<1>2. TaskHolds(r, h)
  BY <1>1 DEF TaskHolds
<1>3. /\ asking' \in [Requests -> CatalogTask]
      /\ \A q \in Requests : TaskHolds(q, asking[q])'
      /\ SlugsUnique' /\ Catalog!VariantsHaveProducts'
  BY <1>1, <1>2, TaskMovesOnly
<1>4. RowTypes' /\ CacheTypes' /\ QuotesSound' /\ day' \in 1..LastDay /\ stirred' = TRUE
  BY DEF CatalogInv, RowTypes, CacheTypes, QuotesSound, Catalog!Refuse
<1> QED BY <1>3, <1>4 DEF CatalogInv

(* The first step of every handler.                                                           *)
LEMMA CatalogStarts ==
  ASSUME CatalogInv, stirred \in BOOLEAN, FrontOfficeAssumption, NEW r \in Requests,
         Catalog!StartDocument(r) \/ Catalog!StartPrice(r)
  PROVE  CatalogInv' /\ stirred' \in BOOLEAN
<1>a. /\ Prices \subseteq Catalog!Price /\ Promotions \subseteq Catalog!Promotion
      /\ Tiers \subseteq Catalog!Tier /\ Units \subseteq Nat \ {0}
  BY DEF FrontOfficeAssumption, Catalog!CatalogAssumption
<1>b. promotions \in [Requests -> Catalog!Promotion]
  BY DEF CatalogInv, RowTypes
<1>q. ASSUME NEW h \in CatalogTask, Catalog!Begin(r, h), h.stage \in Beginnings,
             ~Catalog!Exists(r) => TaskHolds(r, h),
             UNCHANGED <<Catalog!rows, Catalog!redis, day, quotes>>
      PROVE  CatalogInv' /\ stirred' \in BOOLEAN
  BY <1>b, <1>q, QuietBegin DEF Catalog!rows, Catalog!redis
<1>t. ASSUME NEW stage \in Beginnings
      PROVE  Catalog!Task(stage) \in CatalogTask /\ Catalog!Task(stage).stage = stage
  BY TaskFacts DEF Beginnings, TaskStage, Catalog!Idle
<1>1. ASSUME NEW slug \in Slugs, NEW skus \in (SUBSET Skus) \ {{}}, Catalog!CreateCheck(r, slug, skus)
      PROVE  CatalogInv' /\ stirred' \in BOOLEAN
  <2>1. [slug |-> slug, active |-> TRUE, version |-> r] \in Document
    BY DEF Document
  <2>2. PICK h : h = [Catalog!Task("creating") EXCEPT !.skus = skus,
                          !.doc = [slug |-> slug, active |-> TRUE, version |-> r]]
    OBVIOUS
  <2>d. PICK d \in Document : d = [slug |-> slug, active |-> TRUE, version |-> r] /\ d.slug = slug
    BY <2>1
  <2>g. PICK g : g = [Catalog!Task("creating") EXCEPT !.skus = skus]
    OBVIOUS
  <2>gg. g \in CatalogTask /\ g.stage = "creating" /\ g.skus = skus
    BY <1>t, <2>g DEF CatalogTask, Beginnings
  <2>3. h \in CatalogTask /\ h.stage = "creating" /\ h.skus = skus /\ h.doc.slug = slug
    BY <2>2, <2>d, <2>g, <2>gg DEF CatalogTask
  <2>4. ~Catalog!Exists(r) => TaskHolds(r, h)
    BY <2>3 DEF TaskHolds
  <2> QED BY <1>1, <1>q, <2>2, <2>3, <2>4 DEF Catalog!CreateCheck, Beginnings
<1>2. ASSUME NEW p \in Requests, NEW slug \in Slugs, NEW active \in BOOLEAN,
             Catalog!UpdateRead(r, p, slug, active)
      PROVE  CatalogInv' /\ stirred' \in BOOLEAN
  <2>1. [slug |-> slug, active |-> active, version |-> r] \in Document
    BY DEF Document
  <2>2. PICK h : h = [Catalog!Task("updating") EXCEPT !.target = p,
                          !.doc = [slug |-> slug, active |-> active, version |-> r]]
    OBVIOUS
  <2>d. PICK d \in Document : d = [slug |-> slug, active |-> active, version |-> r] /\ d.slug = slug
    BY <2>1
  <2>g. PICK g : g = [Catalog!Task("updating") EXCEPT !.target = p]
    OBVIOUS
  <2>gg. g \in CatalogTask /\ g.stage = "updating" /\ g.target = p
    BY <1>t, <2>g DEF CatalogTask, Beginnings
  <2>3. h \in CatalogTask /\ h.stage = "updating" /\ h.target = p /\ h.doc.slug = slug
    BY <2>2, <2>d, <2>g, <2>gg DEF CatalogTask
  <2>4. TaskHolds(r, h)
    BY <1>2, <2>3 DEF TaskHolds, Catalog!UpdateRead
  <2> QED BY <1>2, <1>q, <2>2, <2>3, <2>4 DEF Catalog!UpdateRead, Beginnings
<1>3. ASSUME NEW p \in Requests, Catalog!GetHit(r, p) \/ Catalog!SearchHit(r)
      PROVE  CatalogInv' /\ stirred' \in BOOLEAN
  <2>1. PICK h \in CatalogTask : h = Catalog!Task("done") /\ h.stage = "done"
    BY <1>t DEF Beginnings
  <2>2. TaskHolds(r, h)
    BY <2>1 DEF TaskHolds
  <2> QED BY <1>3, <1>q, <2>1, <2>2 DEF Catalog!GetHit, Catalog!SearchHit, Beginnings
<1>4. ASSUME NEW p \in Requests, Catalog!GetMiss(r, p) PROVE CatalogInv' /\ stirred' \in BOOLEAN
  <2>1. PICK h : h = [Catalog!Task("get_document") EXCEPT !.target = p]
    OBVIOUS
  <2>2. h \in CatalogTask /\ h.stage = "get_document" /\ h.target = p
    BY <1>t, <2>1 DEF CatalogTask, Beginnings
  <2>3. TaskHolds(r, h)
    BY <2>2 DEF TaskHolds
  <2> QED BY <1>4, <1>q, <2>1, <2>2, <2>3 DEF Catalog!GetMiss, Beginnings
<1>5. ASSUME Catalog!SearchMiss(r) PROVE CatalogInv' /\ stirred' \in BOOLEAN
  <2>1. PICK h \in CatalogTask : h = Catalog!Task("search") /\ h.stage = "search"
    BY <1>t DEF Beginnings
  <2>2. TaskHolds(r, h)
    BY <2>1 DEF TaskHolds
  <2> QED BY <1>5, <1>q, <2>1, <2>2 DEF Catalog!SearchMiss, Beginnings
<1>6. ASSUME NEW k \in Skus, NEW stage \in {"pricing", "repricing"}, NEW row \in Catalog!Price,
             NEW columns \in SUBSET STRING, NEW h,
             h = [Catalog!Task(stage) EXCEPT !.sku = k, !.price = row, !.columns = columns],
             Catalog!Begin(r, h), UNCHANGED <<Catalog!rows, Catalog!redis, day, quotes>>
      PROVE  CatalogInv' /\ stirred' \in BOOLEAN
  <2>g. PICK g : g = [Catalog!Task(stage) EXCEPT !.sku = k]
    OBVIOUS
  <2>gg. g \in CatalogTask /\ g.stage = stage /\ g.sku = k
    BY <1>t, <2>g DEF CatalogTask, Beginnings
  <2>f. PICK f : f = [g EXCEPT !.price = row]
    OBVIOUS
  <2>ff. f \in CatalogTask /\ f.stage = stage /\ f.sku = k
    BY <2>f, <2>gg DEF CatalogTask
  <2>2. h \in CatalogTask /\ h.stage = stage /\ h.sku = k
    BY <1>6, <2>g, <2>f, <2>ff DEF CatalogTask
  <2>3. TaskHolds(r, h)
    BY <2>2 DEF TaskHolds
  <2> QED BY <1>6, <1>q, <2>2, <2>3 DEF Beginnings
<1>7. ASSUME NEW k \in Skus, NEW row \in Prices, Catalog!PriceCheck(r, k, row)
      PROVE  CatalogInv' /\ stirred' \in BOOLEAN
  <2>1. PICK h : h = [Catalog!Task("pricing") EXCEPT !.sku = k, !.price = row]
    OBVIOUS
  <2>2. Catalog!Task("pricing").columns = {}
    BY DEF Catalog!Task, Catalog!NoTask
  <2>3. PICK t \in CatalogTask : t = Catalog!Task("pricing")
    BY <1>t DEF Beginnings
  <2>4. h = [t EXCEPT !.sku = k, !.price = row, !.columns = {}]
    BY <2>1, <2>2, <2>3 DEF CatalogTask
  <2> QED BY <1>a, <1>6, <1>7, <2>1, <2>3, <2>4 DEF Catalog!PriceCheck
<1>8. ASSUME NEW k \in Skus, NEW row \in Prices, NEW columns \in Patches,
             Catalog!RepriceRead(r, k, row, columns)
      PROVE  CatalogInv' /\ stirred' \in BOOLEAN
  <2>1. Catalog!Dirty(pricing[k], row, columns) \in SUBSET STRING
    BY DEF Catalog!Dirty, FrontOfficeAssumption, Catalog!CatalogAssumption
  <2> QED BY <1>a, <1>6, <1>8, <2>1 DEF Catalog!RepriceRead
<1>9. ASSUME NEW k \in Skus, NEW tier \in Tiers, Catalog!TierRead(r, k, tier)
      PROVE  CatalogInv' /\ stirred' \in BOOLEAN
  <2>1. PICK h : h = [Catalog!Task("tiering") EXCEPT !.sku = k, !.tier = tier]
    OBVIOUS
  <2>g. PICK g : g = [Catalog!Task("tiering") EXCEPT !.sku = k]
    OBVIOUS
  <2>gg. g \in CatalogTask /\ g.stage = "tiering" /\ g.sku = k
    BY <1>t, <2>g DEF CatalogTask, Beginnings
  <2>2. h \in CatalogTask /\ h.stage = "tiering" /\ h.sku = k
    BY <1>a, <2>1, <2>g, <2>gg DEF CatalogTask
  <2>3. TaskHolds(r, h)
    BY <2>2 DEF TaskHolds
  <2> QED BY <1>9, <1>q, <2>1, <2>2, <2>3 DEF Catalog!TierRead, Beginnings
<1>c. ASSUME NEW k \in Skus, NEW units \in Units, NEW c \in Codes \cup {None},
             Catalog!QuotePrice(r, k, units, c)
      PROVE  CatalogInv' /\ stirred' \in BOOLEAN
  <2>1. PICK unit \in Nat : unit = Catalog!UnitPrice(pricing[k], day) * 100
    <3>1. pricing[k] \in Catalog!Price
      BY DEF CatalogInv, RowTypes
    <3>2. Catalog!UnitPrice(pricing[k], day) \in Nat
      BY <3>1 DEF Catalog!Price, Catalog!UnitPrice
    <3> QED BY <3>2
  <2>2. PICK h : h = [Catalog!Task("quoting_tier") EXCEPT !.sku = k, !.units = units, !.target = c,
                          !.unit = unit]
    OBVIOUS
  <2>f. PICK f : f = [Catalog!Task("quoting_tier") EXCEPT !.sku = k]
    OBVIOUS
  <2>ff. f \in CatalogTask /\ f.stage = "quoting_tier" /\ f.sku = k
    BY <1>t, <2>f DEF CatalogTask, Beginnings
  <2>g. PICK g : g = [f EXCEPT !.units = units]
    OBVIOUS
  <2>gg. g \in CatalogTask /\ g.stage = "quoting_tier" /\ g.sku = k
    BY <1>a, <2>ff, <2>g DEF CatalogTask
  <2>e. PICK e : e = [g EXCEPT !.target = c]
    OBVIOUS
  <2>ee. e \in CatalogTask /\ e.stage = "quoting_tier" /\ e.sku = k /\ e.target = c
    BY <2>gg, <2>e DEF CatalogTask
  <2>3. h \in CatalogTask /\ h.stage = "quoting_tier" /\ h.sku = k /\ h.target = c
    BY <2>2, <2>f, <2>g, <2>e, <2>ee DEF CatalogTask
  <2>4. TaskHolds(r, h)
    BY <2>3 DEF TaskHolds
  <2> QED BY <1>c, <1>q, <2>1, <2>2, <2>3, <2>4 DEF Catalog!QuotePrice, Beginnings
<1>d. ASSUME NEW promotion \in Promotions, Catalog!PromotionCommit(r, promotion)
      PROVE  CatalogInv' /\ stirred' \in BOOLEAN
  <2>1. PICK h \in CatalogTask : h = Catalog!Task("sweeping") /\ h.stage = "sweeping"
    BY <1>t DEF Beginnings
  <2>2. TaskHolds(r, h)
    BY <2>1 DEF TaskHolds
  <2>3. promotions' \in [Requests -> Catalog!Promotion]
    BY <1>a, <1>b, <1>d DEF Catalog!PromotionCommit
  <2> QED BY <1>d, <2>1, <2>2, <2>3, QuietBegin DEF Catalog!PromotionCommit, Catalog!redis, Beginnings
<1>e. ASSUME NEW p \in Requests, NEW row \in Promotions, NEW active \in BOOLEAN,
             NEW columns \in Patches,
             Catalog!PromotionRead(r, p, [row EXCEPT !.active = active], columns)
      PROVE  CatalogInv' /\ stirred' \in BOOLEAN
  <2>a. PICK new \in Catalog!Promotion : new = [row EXCEPT !.active = active]
    BY <1>a DEF Catalog!Promotion
  <2>d. PICK dirty \in SUBSET STRING : dirty = Catalog!Dirty(promotions[p], new, columns)
    BY DEF Catalog!Dirty, FrontOfficeAssumption, Catalog!CatalogAssumption
  <2>1. PICK h : h = [Catalog!Task("promoting") EXCEPT !.target = p, !.promotion = new,
                                                       !.columns = dirty]
    OBVIOUS
  <2>g. PICK g : g = [Catalog!Task("promoting") EXCEPT !.target = p]
    OBVIOUS
  <2>gg. g \in CatalogTask /\ g.stage = "promoting" /\ g.target = p
    BY <1>t, <2>g DEF CatalogTask, Beginnings
  <2>f. PICK f : f = [g EXCEPT !.promotion = new]
    OBVIOUS
  <2>ff. f \in CatalogTask /\ f.stage = "promoting" /\ f.target = p
    BY <2>f, <2>gg DEF CatalogTask
  <2>2. h \in CatalogTask /\ h.stage = "promoting" /\ h.target = p
    BY <2>1, <2>g, <2>f, <2>ff DEF CatalogTask
  <2>3. TaskHolds(r, h)
    BY <2>2 DEF TaskHolds
  <2> QED BY <1>e, <1>q, <2>a, <2>d, <2>1, <2>2, <2>3 DEF Catalog!PromotionRead, Beginnings
<1>f. ASSUME NEW p \in Requests, NEW c \in Codes, Catalog!CouponCheck(r, c, p)
      PROVE  CatalogInv' /\ stirred' \in BOOLEAN
  <2>1. PICK h : h = [Catalog!Task("issuing") EXCEPT !.target = p, !.sku = c]
    OBVIOUS
  <2>g. PICK g : g = [Catalog!Task("issuing") EXCEPT !.target = p]
    OBVIOUS
  <2>gg. g \in CatalogTask /\ g.stage = "issuing" /\ g.target = p
    BY <1>t, <2>g DEF CatalogTask, Beginnings
  <2>2. h \in CatalogTask /\ h.stage = "issuing" /\ h.target = p /\ h.sku = c
    BY <2>1, <2>g, <2>gg DEF CatalogTask
  <2>3. TaskHolds(r, h)
    BY <2>2 DEF TaskHolds
  <2> QED BY <1>f, <1>q, <2>1, <2>2, <2>3 DEF Catalog!CouponCheck, Beginnings
<1>g. CASE Catalog!StartDocument(r)
  BY <1>g, <1>1, <1>2, <1>3, <1>4, <1>5 DEF Catalog!StartDocument
<1>h. CASE Catalog!StartPrice(r)
  BY <1>h, <1>7, <1>8, <1>9, <1>c, <1>d, <1>e, <1>f DEF Catalog!StartPrice
<1> QED BY <1>g, <1>h

LEMMA StageSet ==
  ASSUME NEW h \in CatalogTask, NEW stage \in TaskStage, NEW g, g = [h EXCEPT !.stage = stage]
  PROVE  /\ g \in CatalogTask /\ g.stage = stage /\ g.target = h.target /\ g.sku = h.sku
         /\ g.skus = h.skus /\ g.doc = h.doc /\ g.shown = h.shown /\ g.todo = h.todo
BY DEF CatalogTask

LEMMA TaskEnds ==
  ASSUME FrontOfficeAssumption, NEW r \in Requests, NEW stage \in {"done", "sweeping"},
         Catalog!Advance(r, Catalog!Task(stage))
  PROVE  \E h \in CatalogTask : Catalog!Advance(r, h) /\ h.stage = stage /\ TaskHolds(r, h)
<1>1. PICK h \in CatalogTask : h = Catalog!Task(stage) /\ h.stage = stage
  BY TaskFacts DEF TaskStage, Catalog!Idle
<1>2. TaskHolds(r, h)
  BY <1>1 DEF TaskHolds
<1> QED BY <1>1, <1>2

(* Reads, and writes that no cached document shows.                                           *)
LEMMA QuietSteps ==
  ASSUME CatalogInv, FrontOfficeAssumption, NEW r \in Requests,
         \/ Catalog!ScanStart(r) \/ Catalog!ScanEnd(r)
         \/ Catalog!GetDocument(r) \/ Catalog!GetVariants(r) \/ Catalog!GetPricing(r)
         \/ Catalog!SearchDocuments(r) \/ Catalog!SearchVariants(r)
         \/ Catalog!TierCommit(r) \/ Catalog!PromotionChange(r) \/ Catalog!QuoteTier(r)
  PROVE  CatalogInv' /\ UNCHANGED stirred
<1>t. /\ asking[r] \in CatalogTask /\ TaskHolds(r, asking[r]) /\ RowTypes /\ CacheTypes
      /\ asking[r].todo \subseteq Requests \cup {None} \cup (Requests \X Document)
      /\ asking[r].shown \subseteq Details \cup Entries \cup {None}
      /\ asking[r].doc \in Document /\ asking[r].skus \subseteq Skus
  BY DEF CatalogInv, CatalogTask
<1>q. ASSUME NEW h \in CatalogTask, Catalog!Advance(r, h),
             asking[r].stage \notin Catalog!Idle \cup {"created"}, TaskHolds(r, h),
             UNCHANGED <<products, variants, pricing, details, found, day, coupons, quotes>>,
             tiers' \in [Skus -> SUBSET Catalog!Tier], promotions' \in [Requests -> Catalog!Promotion],
             (~stirred /\ TaskFresh(asking[r])) =>
                 IF h.stage \in Catalog!Idle THEN Fresh ELSE TaskFresh(h)
      PROVE  CatalogInv' /\ UNCHANGED stirred
  <2>1. coupons' \in [Codes -> Requests \cup {None}] /\ QuotesSound' /\ Catalog!Busy(r)
    BY <1>q DEF CatalogInv, RowTypes, QuotesSound, Catalog!Busy
  <2>2. UNCHANGED stirred
    BY <1>q DEF Catalog!Advance
  <2> QED BY <1>q, <2>1, <2>2, QuietAdvance
<1>r. ASSUME NEW h \in CatalogTask, Catalog!Advance(r, h),
             asking[r].stage \notin Catalog!Idle \cup {"created"}, TaskHolds(r, h),
             UNCHANGED <<Catalog!rows, Catalog!redis, day, quotes>>,
             (~stirred /\ TaskFresh(asking[r])) =>
                 IF h.stage \in Catalog!Idle THEN Fresh ELSE TaskFresh(h)
      PROVE  CatalogInv' /\ UNCHANGED stirred
  <2>1. /\ tiers' \in [Skus -> SUBSET Catalog!Tier] /\ promotions' \in [Requests -> Catalog!Promotion]
        /\ UNCHANGED <<products, variants, pricing, details, found, day, coupons, quotes>>
    BY <1>r, <1>t DEF RowTypes, Catalog!rows, Catalog!redis
  <2> QED BY <1>r, <1>q, <2>1
<1>s. PICK old \in CatalogTask : old = asking[r]
  BY <1>t
<1>1. CASE Catalog!ScanStart(r)
  <2>1. PICK h : h = [asking[r] EXCEPT !.stage = "scanning", !.todo = Catalog!Keys]
    OBVIOUS
  <2>2. PICK g : g = [old EXCEPT !.stage = "scanning"]
    OBVIOUS
  <2>3. g \in CatalogTask /\ g.stage = "scanning"
    BY <2>2, StageSet DEF TaskStage
  <2>4. Catalog!Keys \subseteq Requests \cup {None}
    BY DEF Catalog!Keys
  <2>5. h \in CatalogTask /\ h.stage = "scanning" /\ h.todo = Catalog!Keys
    BY <1>s, <2>1, <2>2, <2>3, <2>4 DEF CatalogTask
  <2>6. TaskHolds(r, h) /\ TaskFresh(h)
    BY <2>4, <2>5 DEF TaskHolds, TaskFresh, Writing
  <2> QED BY <1>1, <1>r, <2>1, <2>5, <2>6 DEF Catalog!ScanStart, Catalog!Idle
<1>2. CASE Catalog!ScanEnd(r)
  <2>1. PICK h \in CatalogTask : Catalog!Advance(r, h) /\ h.stage = "done" /\ TaskHolds(r, h)
    BY <1>2, TaskEnds DEF Catalog!ScanEnd, Catalog!Finish
  <2>2. ASSUME TaskFresh(asking[r]) PROVE Fresh
    <3>1. Catalog!Keys = {}
      BY <1>2, <2>2 DEF TaskFresh, Catalog!ScanEnd
    <3> QED BY <3>1 DEF Fresh, Catalog!Keys, Catalog!Miss
  <2> QED BY <1>2, <1>r, <2>1, <2>2 DEF Catalog!ScanEnd, Catalog!Idle
<1>3. CASE Catalog!GetDocument(r)
  <2>1. CASE Catalog!Exists(asking[r].target)
    <3>1. PICK h : h = [asking[r] EXCEPT !.stage = "get_variants", !.doc = products[asking[r].target]]
      OBVIOUS
    <3>2. PICK g : g = [old EXCEPT !.stage = "get_variants"]
      OBVIOUS
    <3>3. g \in CatalogTask /\ g.stage = "get_variants" /\ g.target = old.target
      BY <3>2, StageSet DEF TaskStage
    <3>4. asking[r].target \in Requests /\ products[asking[r].target] \in Document
      BY <1>3, <1>t DEF Catalog!GetDocument, TaskHolds, RowTypes
    <3>5. /\ h \in CatalogTask /\ h.stage = "get_variants" /\ h.target = asking[r].target
          /\ h.doc = products[h.target]
      BY <1>s, <3>1, <3>2, <3>3, <3>4 DEF CatalogTask
    <3>6. TaskHolds(r, h)
      BY <3>4, <3>5 DEF TaskHolds
    <3>7. TaskFresh(asking[r]) => TaskFresh(h)
      BY <1>3, <3>5 DEF TaskFresh, Writing, Catalog!GetDocument
    <3> QED BY <1>3, <1>r, <2>1, <3>1, <3>5, <3>6, <3>7 DEF Catalog!GetDocument, Catalog!Idle
  <2>2. CASE ~Catalog!Exists(asking[r].target)
    <3>1. PICK h \in CatalogTask : Catalog!Advance(r, h) /\ h.stage = "done" /\ TaskHolds(r, h)
      BY <1>3, <2>2, TaskEnds DEF Catalog!GetDocument, Catalog!Finish
    <3>2. TaskFresh(asking[r]) => Fresh
      BY <1>3 DEF TaskFresh, Writing, Catalog!GetDocument
    <3> QED BY <1>3, <1>r, <3>1, <3>2 DEF Catalog!GetDocument, Catalog!Idle
  <2> QED BY <2>1, <2>2
<1>4. CASE Catalog!GetVariants(r)
  <2>1. PICK h : h = [asking[r] EXCEPT !.stage = "get_pricing",
                                       !.skus = Catalog!VariantsOf(asking[r].target)]
    OBVIOUS
  <2>2. PICK g : g = [old EXCEPT !.stage = "get_pricing"]
    OBVIOUS
  <2>3. g \in CatalogTask /\ g.stage = "get_pricing" /\ g.target = old.target /\ g.doc = old.doc
    BY <2>2, StageSet DEF TaskStage
  <2>4. asking[r].target \in Requests /\ Catalog!VariantsOf(asking[r].target) \subseteq Skus
    BY <1>4, <1>t DEF Catalog!GetVariants, TaskHolds, Catalog!VariantsOf
  <2>5. /\ h \in CatalogTask /\ h.stage = "get_pricing" /\ h.target = asking[r].target
        /\ h.doc = asking[r].doc /\ h.skus = Catalog!VariantsOf(h.target)
    BY <1>s, <2>1, <2>2, <2>3, <2>4 DEF CatalogTask
  <2>6. TaskHolds(r, h)
    BY <2>4, <2>5 DEF TaskHolds
  <2>7. TaskFresh(asking[r]) => TaskFresh(h)
    BY <1>4, <2>5 DEF TaskFresh, Writing, Catalog!GetVariants
  <2> QED BY <1>4, <1>r, <2>1, <2>5, <2>6, <2>7 DEF Catalog!GetVariants, Catalog!Idle
<1>5. CASE Catalog!GetPricing(r)
  <2>d. PICK d : d = Catalog!Detail(asking[r].doc, asking[r].skus, Catalog!PricesOf(asking[r].skus))
    OBVIOUS
  <2>e. d \in Details
    <3>1. Catalog!PricesOf(asking[r].skus) \subseteq Skus \X Catalog!Price
      BY <1>t DEF Catalog!PricesOf, RowTypes
    <3> QED BY <1>t, <2>d, <3>1 DEF Catalog!Detail, Details
  <2>1. PICK h : h = [asking[r] EXCEPT !.stage = "get_fill", !.shown = {d}]
    OBVIOUS
  <2>2. PICK g : g = [old EXCEPT !.stage = "get_fill"]
    OBVIOUS
  <2>3. g \in CatalogTask /\ g.stage = "get_fill" /\ g.target = old.target
    BY <2>2, StageSet DEF TaskStage
  <2>4. asking[r].target \in Requests
    BY <1>5, <1>t DEF Catalog!GetPricing, TaskHolds
  <2>5. h \in CatalogTask /\ h.stage = "get_fill" /\ h.target = asking[r].target /\ h.shown = {d}
    BY <1>s, <2>1, <2>2, <2>3, <2>e DEF CatalogTask
  <2>6. TaskHolds(r, h)
    BY <2>4, <2>5, <2>e DEF TaskHolds
  <2>7. ASSUME TaskFresh(asking[r]) PROVE TaskFresh(h)
    <3>1. /\ Fresh /\ asking[r].doc = products[h.target]
          /\ asking[r].skus = Catalog!VariantsOf(h.target)
      BY <1>5, <2>5, <2>7 DEF TaskFresh, Writing, Catalog!GetPricing
    <3>2. {d} = DetailOf(h.target)
      BY <2>d, <3>1 DEF DetailOf
    <3> QED BY <2>5, <3>1, <3>2 DEF TaskFresh
  <2>8. Catalog!Advance(r, h) /\ asking[r].stage = "get_pricing"
        /\ UNCHANGED <<Catalog!rows, Catalog!redis, day, quotes>>
    BY <1>5, <2>1, <2>d DEF Catalog!GetPricing
  <2> QED BY <1>r, <2>5, <2>6, <2>7, <2>8 DEF Catalog!Idle
<1>6. CASE Catalog!SearchDocuments(r)
  <2>1. PICK h : h = [asking[r] EXCEPT !.stage = "search_variants", !.todo = Catalog!Listed,
                                       !.shown = {None}]
    OBVIOUS
  <2>2. PICK g : g = [old EXCEPT !.stage = "search_variants"]
    OBVIOUS
  <2>3. g \in CatalogTask /\ g.stage = "search_variants"
    BY <2>2, StageSet DEF TaskStage
  <2>4. Catalog!Listed \subseteq Requests \X Document
    BY <1>t DEF Catalog!Listed, RowTypes
  <2>f. PICK f : f = [g EXCEPT !.todo = Catalog!Listed]
    OBVIOUS
  <2>s. f \in CatalogTask /\ f.stage = "search_variants" /\ f.todo = Catalog!Listed
    BY <2>3, <2>4, <2>f DEF CatalogTask
  <2>5. /\ h \in CatalogTask /\ h.stage = "search_variants" /\ h.todo = Catalog!Listed
        /\ h.shown = {None}
    BY <1>s, <2>1, <2>2, <2>f, <2>s DEF CatalogTask
  <2>6. TaskHolds(r, h)
    BY <2>4, <2>5 DEF TaskHolds
  <2>7. Results(Catalog!Listed \ Catalog!Listed) = {None}
    BY DEF Results
  <2>8. TaskFresh(asking[r]) => TaskFresh(h)
    BY <1>6, <2>5, <2>7 DEF TaskFresh, Writing, Catalog!SearchDocuments
  <2> QED BY <1>6, <1>r, <2>1, <2>5, <2>6, <2>8 DEF Catalog!SearchDocuments, Catalog!Idle
<1>7. CASE Catalog!SearchVariants(r)
  <2>t. asking[r].stage = "search_variants" /\ asking[r].todo \subseteq Requests \X Document
        /\ asking[r].shown \subseteq Entries \cup {None}
    BY <1>7, <1>t DEF Catalog!SearchVariants, TaskHolds
  <2>x. PICK x \in asking[r].todo :
            Catalog!Advance(r, [asking[r] EXCEPT !.todo = asking[r].todo \ {x},
                                    !.shown = asking[r].shown \cup {Catalog!Entry(x[1], x[2])}])
    BY <1>7 DEF Catalog!SearchVariants
  <2>e. PICK e : e = Catalog!Entry(x[1], x[2])
    OBVIOUS
  <2>i. e \in Entries
    <3>1. x[1] \in Requests /\ x[2] \in Document /\ Catalog!VariantsOf(x[1]) \subseteq Skus
      BY <2>t DEF Catalog!VariantsOf
    <3> QED BY <2>e, <3>1 DEF Catalog!Entry, Entries
  <2>1. PICK h : h = [asking[r] EXCEPT !.todo = asking[r].todo \ {x},
                                       !.shown = asking[r].shown \cup {e}]
    OBVIOUS
  <2>2. PICK g : g = [old EXCEPT !.todo = old.todo \ {x}]
    OBVIOUS
  <2>3. g \in CatalogTask /\ g.stage = old.stage /\ g.todo = old.todo \ {x} /\ g.shown = old.shown
    BY <1>s, <1>t, <2>2 DEF CatalogTask
  <2>5. /\ h \in CatalogTask /\ h.stage = "search_variants" /\ h.todo = asking[r].todo \ {x}
        /\ h.shown = asking[r].shown \cup {e}
    BY ZenonT(60), <1>s, <2>t, <2>1, <2>2, <2>3, <2>i DEF CatalogTask
  <2>6. TaskHolds(r, h)
    BY <2>t, <2>i, <2>5 DEF TaskHolds
  <2>7. ASSUME TaskFresh(asking[r]) PROVE TaskFresh(h)
    <3>1. /\ Fresh /\ asking[r].todo \subseteq Catalog!Listed
          /\ asking[r].shown = Results(Catalog!Listed \ asking[r].todo)
      BY <2>t, <2>7 DEF TaskFresh, Writing
    <3>2. Catalog!Listed \ h.todo = (Catalog!Listed \ asking[r].todo) \cup {x}
      BY <2>5, <2>x, <3>1
    <3>3. Results((Catalog!Listed \ asking[r].todo) \cup {x})
              = Results(Catalog!Listed \ asking[r].todo) \cup {e}
      BY <2>e DEF Results
    <3> QED BY <2>5, <3>1, <3>2, <3>3 DEF TaskFresh
  <2>8. Catalog!Advance(r, h) /\ UNCHANGED <<Catalog!rows, Catalog!redis, day, quotes>>
    BY <1>7, <2>x, <2>e, <2>1 DEF Catalog!SearchVariants
  <2> QED BY <1>r, <2>t, <2>5, <2>6, <2>7, <2>8 DEF Catalog!Idle
<1>8. CASE Catalog!TierCommit(r)
  <2>1. PICK h \in CatalogTask : Catalog!Advance(r, h) /\ h.stage = "sweeping" /\ TaskHolds(r, h)
    BY <1>8, TaskEnds DEF Catalog!TierCommit, Catalog!Sweep
  <2>2. tiers' \in [Skus -> SUBSET Catalog!Tier]
    BY <1>8, <1>t DEF Catalog!TierCommit, RowTypes, CatalogTask
  <2>3. TaskFresh(h)
    BY <2>1 DEF TaskFresh, Writing
  <2>4. /\ UNCHANGED <<products, variants, pricing, details, found, day, coupons, quotes>>
        /\ promotions' \in [Requests -> Catalog!Promotion] /\ asking[r].stage = "tiering"
    BY <1>8, <1>t DEF Catalog!TierCommit, Catalog!redis, RowTypes
  <2> QED BY <1>q, <2>1, <2>2, <2>3, <2>4 DEF Catalog!Idle
<1>9. CASE Catalog!PromotionChange(r)
  <2>1. PICK h \in CatalogTask : Catalog!Advance(r, h) /\ h.stage = "sweeping" /\ TaskHolds(r, h)
    BY <1>9, TaskEnds DEF Catalog!PromotionChange, Catalog!Sweep
  <2>2. promotions' \in [Requests -> Catalog!Promotion]
    <3>1. PICK p : p = asking[r].target
      OBVIOUS
    <3>2. p \in Requests /\ promotions[p] \in Catalog!Promotion
          /\ asking[r].promotion \in Catalog!Promotion
      BY <1>9, <1>t, <3>1 DEF Catalog!PromotionChange, TaskHolds, RowTypes, CatalogTask
    <3>3. PICK x : x = Catalog!Written(promotions[p], asking[r].promotion, asking[r].columns)
      OBVIOUS
    <3>4. x \in Catalog!Promotion
      BY <3>2, <3>3, PromotionWritten
    <3>5. promotions' = [promotions EXCEPT ![p] = x]
      BY <1>9, <3>1, <3>3 DEF Catalog!PromotionChange
    <3> QED BY <1>t, <3>2, <3>4, <3>5 DEF RowTypes
  <2>3. TaskFresh(h)
    BY <2>1 DEF TaskFresh, Writing
  <2>4. /\ UNCHANGED <<products, variants, pricing, details, found, day, coupons, quotes>>
        /\ tiers' \in [Skus -> SUBSET Catalog!Tier] /\ asking[r].stage = "promoting"
    BY <1>9, <1>t DEF Catalog!PromotionChange, Catalog!redis, RowTypes
  <2> QED BY <1>q, <2>1, <2>2, <2>3, <2>4 DEF Catalog!Idle
<1>10. CASE Catalog!QuoteTier(r)
  <2>1. PICK percent \in 0..100 :
            Catalog!Advance(r, [asking[r] EXCEPT !.stage = "quoting_coupon",
                                    !.unit = (asking[r].unit \div 100) * (100 - percent)])
    <3>1. asking[r].sku \in Skus
      BY <1>10, <1>t DEF Catalog!QuoteTier, TaskHolds
    <3>2. tiers[asking[r].sku] \subseteq Catalog!Tier
      BY <1>t, <3>1 DEF RowTypes
    <3>3. Catalog!Discounts(asking[r].sku, asking[r].units) \subseteq 0..100
      BY <3>2 DEF Catalog!Discounts, Catalog!Tier
    <3> QED BY <1>10, <3>3 DEF Catalog!QuoteTier
  <2>2. PICK unit \in Nat : unit = (asking[r].unit \div 100) * (100 - percent)
    <3>1. asking[r].unit \in Nat
      BY <1>t DEF CatalogTask
    <3>2. asking[r].unit \div 100 \in Nat /\ 100 - percent \in Nat
      BY <3>1
    <3>3. \A a, b \in Nat : a * b \in Nat
      OBVIOUS
    <3> QED BY <3>2, <3>3
  <2>3. PICK h : h = [asking[r] EXCEPT !.stage = "quoting_coupon", !.unit = unit]
    OBVIOUS
  <2>4. PICK g : g = [old EXCEPT !.stage = "quoting_coupon"]
    OBVIOUS
  <2>5. /\ g \in CatalogTask /\ g.stage = "quoting_coupon" /\ g.sku = old.sku
        /\ g.target = old.target
    BY <2>4, StageSet DEF TaskStage
  <2>6. /\ h \in CatalogTask /\ h.stage = "quoting_coupon" /\ h.sku = asking[r].sku
        /\ h.target = asking[r].target
    BY <1>s, <2>3, <2>4, <2>5 DEF CatalogTask
  <2>7. TaskHolds(r, h)
    BY <1>10, <1>t, <2>6 DEF TaskHolds, Catalog!QuoteTier
  <2>8. TaskFresh(asking[r]) => TaskFresh(h)
    BY <1>10, <2>6 DEF TaskFresh, Writing, Catalog!QuoteTier
  <2>9. /\ Catalog!Advance(r, h) /\ asking[r].stage = "quoting_tier"
        /\ UNCHANGED <<Catalog!rows, Catalog!redis, day, quotes>>
    BY <1>10, <2>1, <2>2, <2>3 DEF Catalog!QuoteTier
  <2> QED BY <1>r, <2>6, <2>7, <2>8, <2>9 DEF Catalog!Idle
<1> QED BY <1>1, <1>2, <1>3, <1>4, <1>5, <1>6, <1>7, <1>8, <1>9, <1>10

(* A handler under way writes rows, and has yet to sweep.                                      *)
LEMMA WriterStep ==
  ASSUME CatalogInv, NEW r \in Requests, NEW h \in CatalogTask, Catalog!Advance(r, h),
         Catalog!Busy(r), h.stage \in {"created", "sweeping"}, RowTypes', SlugsUnique',
         UNCHANGED <<details, found, day, quotes>>,
         \A p \in Requests : Catalog!Exists(p) => Catalog!Exists(p)',
         \A p \in Requests : p # r /\ ~Catalog!Exists(p) => ~Catalog!Exists(p)',
         TaskHolds(r, h)',
         \A k \in Skus : variants'[k] # None => Catalog!Exists(variants[k])',
         \A p \in Requests : p # r => Catalog!VariantsOf(p)' = Catalog!VariantsOf(p),
         (Catalog!Exists(r)' /\ Catalog!VariantsOf(r)' = {}) => h.stage = "created"
  PROVE  CatalogInv'
<1>1. asking' = [asking EXCEPT ![r] = h] /\ UNCHANGED stirred
  BY DEF Catalog!Advance
<1>2. /\ asking' \in [Requests -> CatalogTask] /\ asking'[r] = h
      /\ \A q \in Requests : q # r => asking'[q] = asking[q]
      /\ \A q \in Requests : TaskHolds(q, asking[q])'
  BY <1>1, TaskMoves
<1>3. ASSUME NEW p \in Requests, Catalog!Exists(p)', Catalog!VariantsOf(p)' = {}
      PROVE  asking'[p].stage \in {"created", "failed"}
  <2>1. CASE p = r
    BY <1>2, <1>3, <2>1
  <2>2. CASE p # r
    <3>1. Catalog!Exists(p) /\ Catalog!VariantsOf(p) = {}
      BY <1>3, <2>2
    <3>2. asking[p].stage \in {"created", "failed"}
      BY <3>1 DEF CatalogInv, Catalog!VariantsHaveProducts
    <3> QED BY <1>2, <2>2, <3>2
  <2> QED BY <2>1, <2>2
<1>4. Catalog!VariantsHaveProducts'
  BY <1>3 DEF Catalog!VariantsHaveProducts
<1>5. CacheTypes' /\ QuotesSound' /\ day' \in 1..LastDay
  BY DEF CatalogInv, CacheTypes, QuotesSound
<1>6. ASSUME ~stirred PROVE CacheKnown'
  <2>1. \A q \in Requests : q # r => ~Catalog!Busy(q)
    BY <1>6, Alone
  <2>2. TaskFresh(h)' /\ h.stage \notin Catalog!Idle
    BY DEF TaskFresh, Writing, Catalog!Idle
  <2>3. asking \in [Requests -> CatalogTask]
    BY DEF CatalogInv
  <2> QED BY <1>1, <2>1, <2>2, <2>3, CacheMoves
<1> QED BY <1>1, <1>2, <1>4, <1>5, <1>6 DEF CatalogInv

(* A handler under way changes the cache, and no row.                                          *)
LEMMA CacheStep ==
  ASSUME CatalogInv, NEW r \in Requests, NEW h \in CatalogTask, Catalog!Advance(r, h),
         Catalog!Busy(r), asking[r].stage # "created", TaskHolds(r, h),
         UNCHANGED <<products, variants, pricing, tiers, promotions, coupons, day, quotes>>,
         CacheTypes',
         (~stirred /\ TaskFresh(asking[r])) =>
             IF h.stage \in Catalog!Idle THEN Fresh' ELSE TaskFresh(h)'
  PROVE  CatalogInv'
<1>1. asking' = [asking EXCEPT ![r] = h] /\ UNCHANGED stirred
  BY DEF Catalog!Advance
<1>2. asking[r].stage \notin {"created", "failed"}
  BY DEF Catalog!Busy, Catalog!Idle
<1>3. /\ asking' \in [Requests -> CatalogTask]
      /\ \A q \in Requests : TaskHolds(q, asking[q])'
      /\ SlugsUnique' /\ Catalog!VariantsHaveProducts'
  BY <1>1, <1>2, TaskMovesOnly
<1>4. RowTypes' /\ QuotesSound' /\ day' \in 1..LastDay
  BY DEF CatalogInv, RowTypes, QuotesSound
<1>5. ASSUME ~stirred PROVE CacheKnown'
  <2>1. TaskFresh(asking[r]) /\ \A q \in Requests : q # r => ~Catalog!Busy(q)
    BY <1>5, Alone
  <2>2. IF h.stage \in Catalog!Idle THEN Fresh' ELSE TaskFresh(h)'
    BY <1>5, <2>1
  <2>3. asking \in [Requests -> CatalogTask]
    BY DEF CatalogInv
  <2> QED BY <1>1, <2>1, <2>2, <2>3, CacheMoves
<1> QED BY <1>1, <1>3, <1>4, <1>5 DEF CatalogInv

(* A key is deleted, or expires.                                                               *)
LEMMA KeyDeleted ==
  ASSUME CatalogInv, NEW key, UNCHANGED <<products, variants, pricing>>, None \notin Requests,
         details' = [p \in Requests |-> IF p = key THEN {} ELSE details[p]],
         found' = IF key = None THEN {} ELSE found
  PROVE  /\ CacheTypes' /\ Catalog!Keys' = Catalog!Keys \ {key}
         /\ Fresh => Fresh'
         /\ \A h : TaskFresh(h) => TaskFresh(h)'
<1>1. CacheTypes'
  BY DEF CatalogInv, CacheTypes
<1>2. Catalog!Keys' = Catalog!Keys \ {key}
  <2>1. /\ Catalog!Keys = {p \in Requests : details[p] # {}} \cup (IF found = {} THEN {} ELSE {None})
        /\ Catalog!Keys' = {p \in Requests : details'[p] # {}}
                               \cup (IF found' = {} THEN {} ELSE {None})
    BY DEF Catalog!Keys, Catalog!Miss
  <2>2. {p \in Requests : details'[p] # {}} = {p \in Requests : details[p] # {}} \ {key}
    OBVIOUS
  <2> QED BY <2>1, <2>2
<1>3. ASSUME Fresh PROVE Fresh'
  <2>1. \A p \in Requests : details'[p] # {} => details'[p] = DetailOf(p)'
    BY <1>3, SameRows DEF Fresh
  <2>2. found' # {} => found' = Results(Catalog!Listed)'
    BY <1>3, SameRows DEF Fresh
  <2> QED BY <2>1, <2>2 DEF Fresh
<1>4. ASSUME NEW h, TaskFresh(h) PROVE TaskFresh(h)'
  <2>1. /\ DetailOf(h.target)' = DetailOf(h.target) /\ Catalog!Listed' = Catalog!Listed
        /\ Results(Catalog!Listed \ h.todo)' = Results(Catalog!Listed \ h.todo)
        /\ Catalog!VariantsOf(h.target)' = Catalog!VariantsOf(h.target)
    BY SameRows
  <2> QED BY <1>2, <1>3, <1>4, <2>1 DEF TaskFresh
<1> QED BY <1>1, <1>2, <1>3, <1>4

LEMMA CacheSteps ==
  ASSUME CatalogInv, FrontOfficeAssumption, NEW r \in Requests,
         Catalog!ScanDelete(r) \/ Catalog!GetFill(r) \/ Catalog!SearchFill(r)
  PROVE  CatalogInv' /\ UNCHANGED stirred
<1>t. /\ asking[r] \in CatalogTask /\ TaskHolds(r, asking[r]) /\ CacheTypes /\ None \notin Requests
      /\ asking[r].todo \subseteq Requests \cup {None} \cup (Requests \X Document)
  BY TaskFacts DEF CatalogInv, CatalogTask
<1>s. PICK old \in CatalogTask : old = asking[r]
  BY <1>t
<1>q. ASSUME NEW h \in CatalogTask, Catalog!Advance(r, h),
             asking[r].stage \notin Catalog!Idle \cup {"created"}, TaskHolds(r, h),
             UNCHANGED <<Catalog!rows, day, quotes>>, CacheTypes',
             (~stirred /\ TaskFresh(asking[r])) =>
                 IF h.stage \in Catalog!Idle THEN Fresh' ELSE TaskFresh(h)'
      PROVE  CatalogInv' /\ UNCHANGED stirred
  <2>1. UNCHANGED stirred /\ Catalog!Busy(r)
    BY <1>q DEF Catalog!Advance, Catalog!Busy
  <2>2. UNCHANGED <<products, variants, pricing, tiers, promotions, coupons, day, quotes>>
    BY <1>q DEF Catalog!rows
  <2> QED BY <1>q, <2>1, <2>2, CacheStep
<1>1. CASE Catalog!ScanDelete(r)
  <2>1. PICK key \in asking[r].todo \cup Catalog!Keys :
            /\ details' = [p \in Requests |-> IF p = key THEN {} ELSE details[p]]
            /\ found' = IF key = None THEN {} ELSE found
            /\ Catalog!Advance(r, [asking[r] EXCEPT !.todo = asking[r].todo \ {key}])
    BY <1>1 DEF Catalog!ScanDelete, Catalog!Miss
  <2>2. PICK h : h = [asking[r] EXCEPT !.todo = asking[r].todo \ {key}]
    OBVIOUS
  <2>3. asking[r].stage = "scanning" /\ asking[r].todo \subseteq Requests \cup {None}
        /\ UNCHANGED <<Catalog!rows, day, quotes>>
    BY <1>1, <1>t DEF Catalog!ScanDelete, TaskHolds
  <2>4. h \in CatalogTask /\ h.stage = "scanning" /\ h.todo = asking[r].todo \ {key}
    BY <1>s, <2>2, <2>3 DEF CatalogTask
  <2>5. TaskHolds(r, h)
    BY <2>3, <2>4 DEF TaskHolds
  <2>6. UNCHANGED <<products, variants, pricing>>
    BY <2>3 DEF Catalog!rows
  <2>7. CacheTypes' /\ Catalog!Keys' = Catalog!Keys \ {key}
    BY <1>t, <2>1, <2>6, KeyDeleted
  <2>8. ASSUME TaskFresh(asking[r]) PROVE TaskFresh(h)'
    <3>1. Catalog!Keys \subseteq asking[r].todo
      BY <2>3, <2>8 DEF TaskFresh
    <3> QED BY <2>4, <2>7, <3>1 DEF TaskFresh, Writing
  <2> QED BY <1>q, <2>1, <2>2, <2>3, <2>4, <2>5, <2>7, <2>8 DEF Catalog!Idle
<1>2. CASE Catalog!GetFill(r)
  <2>1. PICK h \in CatalogTask : Catalog!Advance(r, h) /\ h.stage = "done" /\ TaskHolds(r, h)
    BY <1>2, TaskEnds DEF Catalog!GetFill, Catalog!Finish
  <2>2. /\ asking[r].stage = "get_fill" /\ UNCHANGED <<Catalog!rows, found, day, quotes>>
        /\ details' = [details EXCEPT ![asking[r].target] = asking[r].shown]
        /\ asking[r].target \in Requests /\ \E d \in Details : asking[r].shown = {d}
    BY <1>2, <1>t DEF Catalog!GetFill, TaskHolds
  <2>3. CacheTypes'
    BY <1>t, <2>2 DEF CacheTypes
  <2>4. ASSUME TaskFresh(asking[r]) PROVE Fresh'
    <3>1. Fresh /\ asking[r].shown = DetailOf(asking[r].target)
      BY <2>2, <2>4 DEF TaskFresh, Writing
    <3>2. UNCHANGED <<products, variants, pricing>>
      BY <2>2 DEF Catalog!rows
    <3>3. \A p \in Requests : details'[p] # {} => details'[p] = DetailOf(p)'
      BY <1>t, <2>2, <3>1, <3>2, SameRows DEF Fresh, CacheTypes
    <3>4. found' # {} => found' = Results(Catalog!Listed)'
      BY <2>2, <3>1, <3>2, SameRows DEF Fresh
    <3> QED BY <3>3, <3>4 DEF Fresh
  <2>5. UNCHANGED <<Catalog!rows, day, quotes>>
    BY <2>2
  <2> QED BY <1>q, <2>1, <2>2, <2>3, <2>4, <2>5 DEF Catalog!Idle
<1>3. CASE Catalog!SearchFill(r)
  <2>1. PICK h \in CatalogTask : Catalog!Advance(r, h) /\ h.stage = "done" /\ TaskHolds(r, h)
    BY <1>3, TaskEnds DEF Catalog!SearchFill, Catalog!Finish
  <2>2. /\ asking[r].stage = "search_variants" /\ asking[r].todo = {}
        /\ UNCHANGED <<Catalog!rows, details, day, quotes>> /\ found' = asking[r].shown
        /\ asking[r].shown \subseteq Entries \cup {None}
    BY <1>3, <1>t DEF Catalog!SearchFill, TaskHolds
  <2>3. CacheTypes'
    BY <1>t, <2>2 DEF CacheTypes
  <2>4. ASSUME TaskFresh(asking[r]) PROVE Fresh'
    <3>1. Fresh /\ asking[r].shown = Results(Catalog!Listed \ asking[r].todo)
      BY <2>2, <2>4 DEF TaskFresh, Writing
    <3>2. Catalog!Listed \ asking[r].todo = Catalog!Listed
      BY <2>2
    <3>3. UNCHANGED <<products, variants, pricing>>
      BY <2>2 DEF Catalog!rows
    <3>4. found' = Results(Catalog!Listed)'
      BY <2>2, <3>1, <3>2, <3>3, SameRows
    <3>5. \A p \in Requests : details'[p] # {} => details'[p] = DetailOf(p)'
      BY <2>2, <3>1, <3>3, SameRows DEF Fresh
    <3> QED BY <3>4, <3>5 DEF Fresh
  <2>5. UNCHANGED <<Catalog!rows, day, quotes>>
    BY <2>2
  <2> QED BY <1>q, <2>1, <2>2, <2>3, <2>4, <2>5 DEF Catalog!Idle
<1> QED BY <1>1, <1>2, <1>3

(* A key expires, or a day passes, while the handlers stand still.                              *)
LEMMA StillSteps ==
  ASSUME CatalogInv, FrontOfficeAssumption, Catalog!Expire \/ Catalog!NewDay
  PROVE  CatalogInv' /\ UNCHANGED stirred
<1>t. None \notin Requests /\ LastDay \in Nat
  BY TaskFacts DEF FrontOfficeAssumption, Catalog!CatalogAssumption
<1>1. UNCHANGED <<Catalog!rows, asking, quotes, stirred>>
  BY DEF Catalog!Expire, Catalog!NewDay
<1>2. UNCHANGED <<products, variants, pricing, tiers, promotions, coupons>>
  BY <1>1 DEF Catalog!rows
<1>3. /\ CacheTypes' /\ day' \in 1..LastDay
      /\ Fresh => Fresh'
      /\ \A h : TaskFresh(h) => TaskFresh(h)'
  <2>1. CASE Catalog!Expire
    <3>1. PICK key \in Catalog!Keys :
              /\ details' = [p \in Requests |-> IF p = key THEN {} ELSE details[p]]
              /\ found' = IF key = None THEN {} ELSE found
      BY <2>1 DEF Catalog!Expire, Catalog!Miss
    <3>2. day' \in 1..LastDay
      BY <2>1 DEF Catalog!Expire, CatalogInv
    <3>3. /\ CacheTypes' /\ (Fresh => Fresh')
          /\ \A h : TaskFresh(h) => TaskFresh(h)'
      BY <1>t, <1>2, <3>1, KeyDeleted
    <3> QED BY <3>2, <3>3
  <2>2. CASE Catalog!NewDay
    <3>1. UNCHANGED <<details, found>> /\ day' \in 1..LastDay
      BY <1>t, <2>2 DEF Catalog!NewDay, Catalog!redis, CatalogInv
    <3>2. CacheTypes'
      BY <3>1 DEF CatalogInv, CacheTypes
    <3> QED BY <1>2, <3>1, <3>2, FreshStays
  <2> QED BY <2>1, <2>2
<1>4. RowTypes' /\ asking' \in [Requests -> CatalogTask] /\ SlugsUnique' /\ QuotesSound'
  BY <1>1, <1>2 DEF CatalogInv, RowTypes, SlugsUnique, QuotesSound
<1>5. (\A r \in Requests : TaskHolds(r, asking[r])') /\ Catalog!VariantsHaveProducts'
  BY <1>1, <1>2 DEF CatalogInv, TaskHolds, Catalog!Exists, Catalog!VariantsHaveProducts,
                    Catalog!VariantsOf
<1>6. ASSUME ~stirred PROVE CacheKnown'
  <2>1. CacheKnown
    BY <1>6 DEF CatalogInv
  <2>2. \A r \in Requests : Catalog!Busy(r)' <=> Catalog!Busy(r)
    BY <1>1 DEF Catalog!Busy
  <2>3. ASSUME NEW r \in Requests, Catalog!Busy(r)' PROVE TaskFresh(asking[r])'
    <3>1. TaskFresh(asking[r])
      BY <2>1, <2>2, <2>3 DEF CacheKnown
    <3>2. PICK h : h = asking[r] /\ asking'[r] = h
      BY <1>1
    <3>3. TaskFresh(h)'
      BY <1>3, <3>1, <3>2
    <3> QED BY <3>2, <3>3 DEF TaskFresh
  <2> QED BY <1>3, <2>1, <2>2, <2>3 DEF CacheKnown
<1> QED BY <1>1, <1>3, <1>4, <1>5, <1>6 DEF CatalogInv

(* The product handlers write rows, in the second step of each.                                *)
LEMMA CreateSteps ==
  ASSUME CatalogInv, FrontOfficeAssumption, stirred \in BOOLEAN, NEW r \in Requests,
         Catalog!CreateInsert(r) \/ Catalog!CreateVariants(r)
  PROVE  CatalogInv' /\ stirred' \in BOOLEAN
<1>t. /\ asking[r] \in CatalogTask /\ TaskHolds(r, asking[r]) /\ RowTypes /\ None \notin Requests
      /\ asking[r].doc \in Document /\ asking[r].skus \subseteq Skus /\ None \notin Slugs
      /\ SlugsUnique /\ Catalog!VariantsHaveProducts
  BY TaskFacts DEF CatalogInv, CatalogTask
<1>s. PICK old \in CatalogTask : old = asking[r]
  BY <1>t
<1>1. CASE Catalog!CreateInsert(r) /\ Catalog!Taken(asking[r].doc.slug)
  <2>1. /\ Catalog!Refuse(r)
        /\ UNCHANGED <<products, variants, pricing, tiers, promotions, coupons, details, found, day,
                       quotes>>
    BY <1>1 DEF Catalog!CreateInsert, Catalog!redis
  <2> QED BY <2>1, RefusedStep
<1>2. CASE Catalog!CreateInsert(r) /\ ~Catalog!Taken(asking[r].doc.slug)
  <2>1. /\ asking[r].stage = "creating" /\ products' = [products EXCEPT ![r] = asking[r].doc]
        /\ Catalog!Advance(r, [asking[r] EXCEPT !.stage = "created"])
        /\ UNCHANGED <<variants, pricing, tiers, promotions, coupons, details, found, day, quotes>>
    BY <1>2 DEF Catalog!CreateInsert, Catalog!redis
  <2>2. PICK h : h = [old EXCEPT !.stage = "created"]
    OBVIOUS
  <2>3. /\ h \in CatalogTask /\ h.stage = "created" /\ h.skus = old.skus /\ h.doc = old.doc
        /\ Catalog!Advance(r, h)
    BY <1>s, <2>1, <2>2, StageSet DEF TaskStage
  <2>4. /\ old.doc.slug \in Slugs /\ old.skus # {}
        /\ \A p \in Requests : products[p].slug # old.doc.slug
    BY <1>s, <1>t, <1>2, <2>1 DEF TaskHolds, Catalog!Taken
  <2>5. /\ products'[r] = old.doc /\ \A p \in Requests : p # r => products'[p] = products[p]
        /\ products' \in [Requests -> Document]
    BY <1>s, <1>t, <2>1 DEF RowTypes
  <2>6. RowTypes' /\ SlugsUnique'
    BY <1>t, <2>1, <2>4, <2>5 DEF RowTypes, SlugsUnique
  <2>7. /\ Catalog!Exists(r)'
        /\ \A p \in Requests : p # r => (Catalog!Exists(p)' <=> Catalog!Exists(p))
    BY <1>t, <2>4, <2>5 DEF Catalog!Exists
  <2>8. TaskHolds(r, h)'
    BY <2>3, <2>4, <2>7 DEF TaskHolds
  <2>9. \A k \in Skus : variants'[k] # None => Catalog!Exists(variants[k])'
    BY <1>t, <2>1, <2>7 DEF Catalog!VariantsHaveProducts, RowTypes
  <2>a. \A p \in Requests : Catalog!VariantsOf(p)' = Catalog!VariantsOf(p)
    BY <2>1 DEF Catalog!VariantsOf
  <2>b. Catalog!Busy(r) /\ UNCHANGED stirred
    BY <2>1 DEF Catalog!Busy, Catalog!Idle, Catalog!Advance
  <2>c. UNCHANGED <<details, found, day, quotes>>
    BY <2>1
  <2>d. CatalogInv'
    BY <2>3, <2>6, <2>7, <2>8, <2>9, <2>a, <2>b, <2>c, WriterStep
  <2> QED BY <2>b, <2>d
<1>3. CASE Catalog!CreateVariants(r)
  <2>f. PICK free \in SUBSET Skus : free = {k \in asking[r].skus : variants[k] = None}
    BY <1>t
  <2>1. PICK stored \in SUBSET free :
            /\ variants' = [k \in Skus |-> IF k \in stored THEN r ELSE variants[k]]
            /\ \/ stored = asking[r].skus /\ Catalog!Sweep(r)
               \/ Catalog!Refuse(r)
    BY <1>3, <2>f DEF Catalog!CreateVariants
  <2>2. /\ asking[r].stage = "created"
        /\ UNCHANGED <<products, pricing, tiers, promotions, coupons, details, found, day, quotes>>
    BY <1>3 DEF Catalog!CreateVariants, Catalog!redis
  <2>3. RowTypes' /\ SlugsUnique'
    BY <1>t, <2>1, <2>2 DEF RowTypes, SlugsUnique
  <2>4. \A p \in Requests : Catalog!Exists(p)' <=> Catalog!Exists(p)
    BY <2>2 DEF Catalog!Exists
  <2>5. Catalog!Exists(r) /\ asking[r].skus # {}
    BY <1>t, <2>2 DEF TaskHolds
  <2>6. \A k \in Skus : variants'[k] # None => variants'[k] \in Requests /\ Catalog!Exists(variants[k])'
    BY <1>t, <2>1, <2>4, <2>5 DEF Catalog!VariantsHaveProducts, RowTypes
  <2>7. /\ Catalog!VariantsOf(r)' = Catalog!VariantsOf(r) \cup stored
        /\ \A p \in Requests : p # r => Catalog!VariantsOf(p)' = Catalog!VariantsOf(p)
    <3>1. \A k \in stored : k \in Skus /\ variants[k] = None
      BY <2>f
    <3> QED BY <1>t, <2>1, <3>1 DEF Catalog!VariantsOf
  <2>8. CASE stored = asking[r].skus /\ Catalog!Sweep(r)
    <3>1. PICK h \in CatalogTask : Catalog!Advance(r, h) /\ h.stage = "sweeping"
      BY <2>1, <2>8, TaskEnds DEF Catalog!Sweep, Catalog!Finish
    <3>2. Catalog!VariantsOf(r)' # {}
      BY <2>1, <2>5, <2>7, <2>8
    <3>3. TaskHolds(r, h)' /\ Catalog!Busy(r) /\ UNCHANGED stirred
      BY <2>2, <3>1 DEF TaskHolds, Catalog!Busy, Catalog!Idle, Catalog!Advance
    <3>4. UNCHANGED <<details, found, day, quotes>>
      BY <2>2
    <3>5. CatalogInv'
      BY <2>3, <2>4, <2>6, <2>7, <3>1, <3>2, <3>3, <3>4, WriterStep
    <3> QED BY <3>3, <3>5
  <2>9. CASE Catalog!Refuse(r)
    <3>1. asking' = [asking EXCEPT ![r] = Catalog!Task("failed")] /\ stirred' = TRUE
      BY <2>1, <2>9 DEF Catalog!Refuse
    <3>2. PICK h \in CatalogTask : asking' = [asking EXCEPT ![r] = h] /\ h.stage = "failed"
      BY <3>1, TaskFacts DEF TaskStage, Catalog!Idle
    <3>3. TaskHolds(r, h)'
      BY <3>2 DEF TaskHolds
    <3>4. /\ asking' \in [Requests -> CatalogTask] /\ asking'[r] = h
          /\ \A q \in Requests : q # r => asking'[q] = asking[q]
          /\ \A q \in Requests : TaskHolds(q, asking[q])'
      BY <2>4, <3>2, <3>3, TaskMoves
    <3>5. ASSUME NEW p \in Requests, Catalog!Exists(p)', Catalog!VariantsOf(p)' = {}
          PROVE  asking'[p].stage \in {"created", "failed"}
      <4>1. CASE p = r
        BY <3>2, <3>4, <4>1
      <4>2. CASE p # r
        <5>1. asking[p].stage \in {"created", "failed"}
          BY <1>t, <2>4, <2>7, <3>5, <4>2 DEF Catalog!VariantsHaveProducts
        <5> QED BY <3>4, <4>2, <5>1
      <4> QED BY <4>1, <4>2
    <3>6. Catalog!VariantsHaveProducts'
      BY <2>6, <3>5 DEF Catalog!VariantsHaveProducts
    <3>7. CacheTypes' /\ QuotesSound' /\ day' \in 1..LastDay
      BY <2>2 DEF CatalogInv, CacheTypes, QuotesSound
    <3> QED BY <2>3, <3>1, <3>4, <3>6, <3>7 DEF CatalogInv
  <2> QED BY <2>1, <2>8, <2>9
<1> QED BY <1>1, <1>2, <1>3

LEMMA WriteSteps ==
  ASSUME CatalogInv, FrontOfficeAssumption, stirred \in BOOLEAN, NEW r \in Requests,
         Catalog!UpdateWrite(r) \/ Catalog!PriceCommit(r) \/ Catalog!RepriceCommit(r)
  PROVE  CatalogInv' /\ stirred' \in BOOLEAN
<1>t. /\ asking[r] \in CatalogTask /\ TaskHolds(r, asking[r]) /\ RowTypes /\ None \notin Requests
      /\ asking[r].doc \in Document /\ asking[r].price \in Catalog!Price /\ None \notin Slugs
      /\ SlugsUnique /\ Catalog!VariantsHaveProducts
  BY TaskFacts DEF CatalogInv, CatalogTask
<1>s. PICK old \in CatalogTask : old = asking[r]
  BY <1>t
<1>p. ASSUME Catalog!Sweep(r), asking[r].stage \in {"updating", "pricing", "repricing"}, RowTypes',
             SlugsUnique', UNCHANGED <<variants, Catalog!redis, day, quotes>>,
             \A p \in Requests : Catalog!Exists(p)' <=> Catalog!Exists(p)
      PROVE  CatalogInv' /\ stirred' \in BOOLEAN
  <2>1. PICK h \in CatalogTask : Catalog!Advance(r, h) /\ h.stage = "sweeping"
    BY <1>p, TaskEnds DEF Catalog!Sweep
  <2>2. TaskHolds(r, h)' /\ Catalog!Busy(r) /\ UNCHANGED stirred
    BY <1>p, <2>1 DEF TaskHolds, Catalog!Busy, Catalog!Idle, Catalog!Advance
  <2>3. \A k \in Skus : variants'[k] # None => Catalog!Exists(variants[k])'
    BY <1>p, <1>t DEF Catalog!VariantsHaveProducts, RowTypes
  <2>4. \A p \in Requests : Catalog!VariantsOf(p)' = Catalog!VariantsOf(p)
    BY <1>p DEF Catalog!VariantsOf
  <2>5. (Catalog!Exists(r)' /\ Catalog!VariantsOf(r)' = {}) => h.stage = "created"
    BY <1>p, <1>t, <2>4 DEF Catalog!VariantsHaveProducts
  <2>6. UNCHANGED <<details, found, day, quotes>>
    BY <1>p DEF Catalog!redis
  <2>7. CatalogInv'
    BY <1>p, <2>1, <2>2, <2>3, <2>4, <2>5, <2>6, WriterStep
  <2> QED BY <2>2, <2>7
<1>r. ASSUME Catalog!Refuse(r),
             UNCHANGED <<products, variants, pricing, tiers, promotions, coupons, Catalog!redis, day,
                         quotes>>
      PROVE  CatalogInv' /\ stirred' \in BOOLEAN
  BY <1>r, RefusedStep DEF Catalog!redis
<1>1. CASE Catalog!UpdateWrite(r)
  <2>1. PICK p, doc : p = asking[r].target /\ doc = asking[r].doc
    OBVIOUS
  <2>2. /\ p \in Requests /\ Catalog!Exists(p) /\ doc \in Document /\ doc.slug \in Slugs
        /\ asking[r].stage = "updating"
    BY <1>1, <1>t, <2>1 DEF TaskHolds, Catalog!UpdateWrite
  <2>3. /\ IF \E q \in Requests \ {p} : products[q].slug = doc.slug
           THEN Catalog!Refuse(r) /\ UNCHANGED products
           ELSE products' = [products EXCEPT ![p] = doc] /\ Catalog!Sweep(r)
        /\ UNCHANGED <<variants, pricing, tiers, promotions, coupons, Catalog!redis, day, quotes>>
    BY <1>1, <2>1 DEF Catalog!UpdateWrite
  <2>4. CASE \E q \in Requests \ {p} : products[q].slug = doc.slug
    BY <1>r, <2>3, <2>4
  <2>5. CASE ~\E q \in Requests \ {p} : products[q].slug = doc.slug
    <3>1. /\ products'[p] = doc /\ products' \in [Requests -> Document]
          /\ \A q \in Requests : q # p => products'[q] = products[q]
      BY <1>t, <2>2, <2>3, <2>5 DEF RowTypes
    <3>2. RowTypes' /\ SlugsUnique'
      BY <1>t, <2>3, <2>5, <3>1 DEF RowTypes, SlugsUnique
    <3>3. \A q \in Requests : Catalog!Exists(q)' <=> Catalog!Exists(q)
      BY <1>t, <2>2, <3>1 DEF Catalog!Exists
    <3> QED BY <1>p, <2>2, <2>3, <2>5, <3>2, <3>3
  <2> QED BY <2>4, <2>5
<1>2. CASE Catalog!PriceCommit(r)
  <2>1. /\ asking[r].stage = "pricing" /\ asking[r].sku \in Skus
        /\ IF Catalog!Priced(asking[r].sku) THEN Catalog!Refuse(r) /\ UNCHANGED pricing
           ELSE pricing' = [pricing EXCEPT ![asking[r].sku] = asking[r].price] /\ Catalog!Sweep(r)
        /\ UNCHANGED <<products, variants, tiers, promotions, coupons, Catalog!redis, day, quotes>>
    BY <1>2, <1>t DEF Catalog!PriceCommit, TaskHolds
  <2>2. CASE Catalog!Priced(asking[r].sku)
    BY <1>r, <2>1, <2>2
  <2>3. CASE ~Catalog!Priced(asking[r].sku)
    <3>1. RowTypes' /\ SlugsUnique' /\ \A q \in Requests : Catalog!Exists(q)' <=> Catalog!Exists(q)
      BY <1>t, <2>1, <2>3 DEF RowTypes, SlugsUnique, Catalog!Exists
    <3> QED BY <1>p, <2>1, <2>3, <3>1
  <2> QED BY <2>2, <2>3
<1>3. CASE Catalog!RepriceCommit(r)
  <2>1. PICK k, row : /\ k = asking[r].sku
                      /\ row = Catalog!Written(pricing[k], asking[r].price, asking[r].columns)
    OBVIOUS
  <2>2. /\ asking[r].stage = "repricing" /\ k \in Skus
        /\ pricing' = [pricing EXCEPT ![k] = row] /\ Catalog!Sweep(r)
        /\ UNCHANGED <<products, variants, tiers, promotions, coupons, Catalog!redis, day, quotes>>
    BY <1>3, <1>t, <2>1 DEF Catalog!RepriceCommit, TaskHolds
  <2>3. pricing[k] \in Catalog!Price
    BY <1>t, <2>2 DEF RowTypes
  <2>4. row \in Catalog!Price
    BY <1>t, <2>1, <2>3, PriceWritten
  <2>5. RowTypes' /\ SlugsUnique' /\ \A q \in Requests : Catalog!Exists(q)' <=> Catalog!Exists(q)
    BY <1>t, <2>2, <2>3, <2>4 DEF RowTypes, SlugsUnique, Catalog!Exists
  <2> QED BY <1>p, <2>2, <2>5
<1> QED BY <1>1, <1>2, <1>3

(* What is to pay of a subtotal.                                                               *)
LEMMA TotalFacts ==
  ASSUME NEW s \in Nat, NEW d \in Nat
  PROVE  /\ Catalog!Total(s, d) \in 0..s
         /\ d <= s => d + Catalog!Total(s, d) = s
         /\ Catalog!Total(s, 0) = s
<1>1. ASSUME NEW a \in Int PROVE Catalog!Max({a, 0}) = IF a >= 0 THEN a ELSE 0
  <2>1. PICK x \in {a, 0} : \A y \in {a, 0} : x >= y
    <3>1. CASE a >= 0
      BY <3>1
    <3>2. CASE ~(a >= 0)
      BY <3>2
    <3> QED BY <3>1, <3>2
  <2>2. /\ Catalog!Max({a, 0}) \in {a, 0}
        /\ \A y \in {a, 0} : Catalog!Max({a, 0}) >= y
    BY <2>1 DEF Catalog!Max
  <2> QED BY <2>2
<1>2. \A e \in Nat : Catalog!Total(s, e) = IF s - e >= 0 THEN s - e ELSE 0
  BY <1>1 DEF Catalog!Total
<1> QED BY <1>2

LEMMA DiscountFacts ==
  ASSUME NEW s \in Nat, NEW promotion \in Catalog!Promotion
  PROVE  /\ Catalog!CouponDiscount(promotion, s) \in Nat
         /\ promotion.kind = "fixed" => Catalog!CouponDiscount(promotion, s) <= s
<1>1. promotion.kind \in {"percent", "fixed"} /\ promotion.value \in Nat
  BY DEF Catalog!Promotion
<1>2. \A a, b \in Nat : a * b \in Nat
  OBVIOUS
<1>3. CASE promotion.kind = "percent"
  <2>1. s \div 100 \in Nat
    OBVIOUS
  <2>2. (s \div 100) * promotion.value \in Nat
    BY <1>1, <1>2, <2>1
  <2>3. Catalog!CouponDiscount(promotion, s) = (s \div 100) * promotion.value
    BY <1>3 DEF Catalog!CouponDiscount
  <2> QED BY <1>3, <2>2, <2>3
<1>4. CASE promotion.kind = "fixed"
  <2>1. PICK v \in Nat : v = promotion.value * 10000
    BY <1>1
  <2>2. PICK x \in {v, s} : \A y \in {v, s} : x <= y
    <3>1. CASE v <= s
      BY <3>1
    <3>2. CASE ~(v <= s)
      BY <3>2
    <3> QED BY <3>1, <3>2
  <2>3. /\ Catalog!Min({v, s}) \in {v, s}
        /\ \A y \in {v, s} : Catalog!Min({v, s}) <= y
    BY <2>2 DEF Catalog!Min
  <2>4. Catalog!CouponDiscount(promotion, s) = Catalog!Min({v, s})
    BY <1>4, <2>1 DEF Catalog!CouponDiscount
  <2> QED BY <2>3, <2>4
<1> QED BY <1>1, <1>3, <1>4

LEMMA CouponSteps ==
  ASSUME CatalogInv, FrontOfficeAssumption, stirred \in BOOLEAN, NEW r \in Requests,
         Catalog!CouponCommit(r) \/ Catalog!QuoteCoupon(r) \/ Catalog!Fail(r)
  PROVE  CatalogInv' /\ stirred' \in BOOLEAN
<1>t. /\ asking[r] \in CatalogTask /\ TaskHolds(r, asking[r]) /\ RowTypes /\ QuotesSound
  BY DEF CatalogInv
<1>r. ASSUME Catalog!Refuse(r), UNCHANGED <<Catalog!rows, Catalog!redis, day, quotes>>
      PROVE  CatalogInv' /\ stirred' \in BOOLEAN
  BY <1>r, RefusedStep DEF Catalog!rows, Catalog!redis
<1>q. ASSUME Catalog!Finish(r, "done"), asking[r].stage \in {"issuing", "quoting_coupon"},
             UNCHANGED <<products, variants, pricing, tiers, promotions, Catalog!redis, day>>,
             coupons' \in [Codes -> Requests \cup {None}], QuotesSound'
      PROVE  CatalogInv' /\ stirred' \in BOOLEAN
  <2>1. PICK h \in CatalogTask : Catalog!Advance(r, h) /\ h.stage = "done" /\ TaskHolds(r, h)
    BY <1>q, TaskEnds DEF Catalog!Finish
  <2>2. Catalog!Busy(r) /\ UNCHANGED stirred
    BY <1>q, <2>1 DEF Catalog!Busy, Catalog!Idle, Catalog!Advance
  <2>3. TaskFresh(asking[r]) => Fresh
    BY <1>q DEF TaskFresh, Writing
  <2>4. /\ UNCHANGED <<products, variants, pricing, details, found, day>>
        /\ tiers' \in [Skus -> SUBSET Catalog!Tier]
        /\ promotions' \in [Requests -> Catalog!Promotion]
    BY <1>q, <1>t DEF Catalog!redis, RowTypes
  <2>5. h.stage \in Catalog!Idle /\ asking[r].stage # "created"
    BY <1>q, <2>1 DEF Catalog!Idle
  <2>6. CatalogInv'
    BY <1>q, <2>1, <2>2, <2>3, <2>4, <2>5, QuietAdvance
  <2> QED BY <2>2, <2>6
<1>1. CASE Catalog!CouponCommit(r)
  <2>1. /\ asking[r].stage = "issuing" /\ asking[r].sku \in Codes /\ asking[r].target \in Requests
        /\ IF coupons[asking[r].sku] # None THEN Catalog!Refuse(r) /\ UNCHANGED coupons
           ELSE /\ coupons' = [coupons EXCEPT ![asking[r].sku] = asking[r].target]
                /\ Catalog!Finish(r, "done")
        /\ UNCHANGED <<products, variants, pricing, tiers, promotions, Catalog!redis, day, quotes>>
    BY <1>1, <1>t DEF Catalog!CouponCommit, TaskHolds
  <2>2. CASE coupons[asking[r].sku] # None
    BY <1>r, <2>1, <2>2 DEF Catalog!rows
  <2>3. CASE ~(coupons[asking[r].sku] # None)
    <3>1. coupons' \in [Codes -> Requests \cup {None}] /\ QuotesSound'
      BY <1>t, <2>1, <2>3 DEF RowTypes, QuotesSound
    <3> QED BY <1>q, <2>1, <2>3, <3>1
  <2> QED BY <2>2, <2>3
<1>2. CASE Catalog!QuoteCoupon(r)
  <2>1. PICK c, units, unit : c = asking[r].target /\ units = asking[r].units /\ unit = asking[r].unit
    OBVIOUS
  <2>2. /\ asking[r].stage = "quoting_coupon" /\ c \in Codes \cup {None}
        /\ units \in Nat /\ unit \in Nat
    BY <1>2, <1>t, <2>1 DEF Catalog!QuoteCoupon, TaskHolds, CatalogTask
  <2>3. PICK subtotal \in Nat : subtotal = unit * units * 100
    <3>1. \A a, b \in Nat : a * b * 100 \in Nat
      OBVIOUS
    <3> QED BY <2>2, <3>1
  <2>4. PICK discount : discount =
            IF Catalog!Valid(c) THEN Catalog!CouponDiscount(promotions[coupons[c]], subtotal) ELSE 0
    OBVIOUS
  <2>5. PICK kind : kind = IF Catalog!Valid(c) THEN promotions[coupons[c]].kind ELSE "none"
    OBVIOUS
  <2>6. /\ discount \in Nat /\ (kind = "none" => discount = 0)
        /\ kind = "fixed" => discount <= subtotal
    <3>1. CASE Catalog!Valid(c)
      <4>1. promotions[coupons[c]] \in Catalog!Promotion
        BY <1>t, <2>2, <3>1 DEF Catalog!Valid, RowTypes
      <4>2. promotions[coupons[c]].kind # "none"
        BY <4>1 DEF Catalog!Promotion
      <4> QED BY <2>4, <2>5, <3>1, <4>1, <4>2, DiscountFacts
    <3>2. CASE ~Catalog!Valid(c)
      BY <2>4, <2>5, <3>2
    <3> QED BY <3>1, <3>2
  <2>7. PICK total : total = Catalog!Total(subtotal, discount)
    OBVIOUS
  <2>8. /\ total \in 0..subtotal
        /\ kind = "none" => total = subtotal
        /\ kind = "fixed" => discount + total = subtotal
    BY <2>6, <2>7, TotalFacts
  <2>9. PICK quote : quote = [request |-> r, sku |-> asking[r].sku, units |-> units,
                              subtotal |-> subtotal, kind |-> kind, discount |-> discount,
                              total |-> total]
    OBVIOUS
  <2>a. quotes' = quotes \cup {quote}
    BY <1>2, <2>1, <2>3, <2>4, <2>5, <2>7, <2>9 DEF Catalog!QuoteCoupon
  <2>b. /\ quote.total = total /\ quote.subtotal = subtotal /\ quote.kind = kind
        /\ quote.discount = discount
    BY <2>9
  <2>c. QuotesSound'
    <3>1. total \in Nat
      BY <2>8
    <3> QED BY <1>t, <2>8, <2>a, <2>b, <3>1 DEF QuotesSound
  <2>d. /\ Catalog!Finish(r, "done") /\ coupons' \in [Codes -> Requests \cup {None}]
        /\ UNCHANGED <<products, variants, pricing, tiers, promotions, Catalog!redis, day>>
    BY <1>2, <1>t DEF Catalog!QuoteCoupon, Catalog!rows, RowTypes
  <2> QED BY <1>q, <2>2, <2>c, <2>d
<1>3. CASE Catalog!Fail(r)
  BY <1>r, <1>3 DEF Catalog!Fail
<1> QED BY <1>1, <1>2, <1>3

LEMMA CatalogStep ==
  ASSUME CatalogInv, FrontOfficeAssumption, stirred \in BOOLEAN, Catalog!Next
  PROVE  CatalogInv' /\ stirred' \in BOOLEAN
<1>1. ASSUME NEW r \in Requests, Catalog!StartDocument(r) \/ Catalog!StartPrice(r)
      PROVE  CatalogInv' /\ stirred' \in BOOLEAN
  BY <1>1, CatalogStarts
<1>2. ASSUME NEW r \in Requests, Catalog!Continue(r) PROVE CatalogInv' /\ stirred' \in BOOLEAN
  <2>1. CASE \/ Catalog!ScanStart(r) \/ Catalog!ScanEnd(r)
             \/ Catalog!GetDocument(r) \/ Catalog!GetVariants(r) \/ Catalog!GetPricing(r)
             \/ Catalog!SearchDocuments(r) \/ Catalog!SearchVariants(r)
             \/ Catalog!TierCommit(r) \/ Catalog!PromotionChange(r) \/ Catalog!QuoteTier(r)
    BY <2>1, QuietSteps
  <2>2. CASE Catalog!ScanDelete(r) \/ Catalog!GetFill(r) \/ Catalog!SearchFill(r)
    BY <2>2, CacheSteps
  <2>3. CASE Catalog!CreateInsert(r) \/ Catalog!CreateVariants(r)
    BY <2>3, CreateSteps
  <2>4. CASE Catalog!UpdateWrite(r) \/ Catalog!PriceCommit(r) \/ Catalog!RepriceCommit(r)
    BY <2>4, WriteSteps
  <2>5. CASE Catalog!CouponCommit(r) \/ Catalog!QuoteCoupon(r) \/ Catalog!Fail(r)
    BY <2>5, CouponSteps
  <2> QED BY <1>2, <2>1, <2>2, <2>3, <2>4, <2>5 DEF Catalog!Continue
<1>3. CASE Catalog!Expire \/ Catalog!NewDay
  BY <1>3, StillSteps
<1> QED BY <1>1, <1>2, <1>3 DEF Catalog!Next

(* What an action leaves alone of the names that stick.                                        *)
LEMMA NamesMove ==
  ASSUME CatalogInv, CatalogInv', FrontOfficeAssumption, Catalog!Next
  PROVE  /\ \A k \in Skus : variants[k] # None => variants'[k] = variants[k]
         /\ \A c \in Codes : coupons[c] # None => coupons'[c] = coupons[c]
         /\ \A p, q \in Requests : products'[p].slug = products'[q].slug =>
                p = q \/ products'[p].slug = None
<1>1. \A p, q \in Requests : products'[p].slug = products'[q].slug =>
          p = q \/ products'[p].slug = None
  BY DEF CatalogInv, SlugsUnique
<1>t. RowTypes
  BY DEF CatalogInv
<1>2. CASE Catalog!Expire \/ Catalog!NewDay
  BY <1>1, <1>2 DEF Catalog!Expire, Catalog!NewDay, Catalog!rows
<1>3. ASSUME NEW r \in Requests, Catalog!StartDocument(r) \/ Catalog!StartPrice(r)
      PROVE  UNCHANGED <<variants, coupons>>
  <2>1. CASE Catalog!StartDocument(r)
    BY <2>1 DEF Catalog!StartDocument, Catalog!CreateCheck, Catalog!UpdateRead, Catalog!GetHit,
                Catalog!GetMiss, Catalog!SearchHit, Catalog!SearchMiss, Catalog!rows
  <2>2. CASE Catalog!StartPrice(r)
    BY <2>2 DEF Catalog!StartPrice, Catalog!PriceCheck, Catalog!RepriceRead, Catalog!TierRead,
                Catalog!QuotePrice, Catalog!PromotionCommit, Catalog!PromotionRead,
                Catalog!CouponCheck, Catalog!rows
  <2> QED BY <1>3, <2>1, <2>2
<1>4. ASSUME NEW r \in Requests, Catalog!Continue(r)
      PROVE  /\ \A k \in Skus : variants[k] # None => variants'[k] = variants[k]
             /\ \A c \in Codes : coupons[c] # None => coupons'[c] = coupons[c]
  <2>1. CASE Catalog!CreateVariants(r)
    BY <1>t, <2>1 DEF Catalog!CreateVariants, RowTypes
  <2>2. CASE Catalog!CouponCommit(r)
    BY <1>t, <2>2 DEF Catalog!CouponCommit, RowTypes
  <2>3. CASE ~Catalog!CreateVariants(r) /\ ~Catalog!CouponCommit(r)
    BY <1>4, <2>3 DEF Catalog!Continue, Catalog!ScanStart, Catalog!ScanDelete, Catalog!ScanEnd,
                      Catalog!CreateInsert, Catalog!UpdateWrite, Catalog!GetDocument,
                      Catalog!GetVariants, Catalog!GetPricing, Catalog!GetFill,
                      Catalog!SearchDocuments, Catalog!SearchVariants, Catalog!SearchFill,
                      Catalog!PriceCommit, Catalog!RepriceCommit, Catalog!TierCommit,
                      Catalog!PromotionChange, Catalog!QuoteTier, Catalog!QuoteCoupon, Catalog!Fail,
                      Catalog!rows
  <2> QED BY <2>1, <2>2, <2>3
<1> QED BY <1>1, <1>2, <1>3, <1>4 DEF Catalog!Next

LEMMA CatalogSound ==
  ASSUME CatalogInv, stirred \in BOOLEAN, FrontOfficeAssumption
  PROVE  CatalogIsSound /\ CacheFollowsCatalog
<1>1. CatalogIsSound
  <2>1. ASSUME NEW r \in Requests PROVE Catalog!Cardinality(details[r]) <= 1
    <3>1. \A S : Catalog!Cardinality(S) = Cardinality(S)
      BY DEF Catalog!Cardinality, Cardinality
    <3>2. details[r] = {} \/ \E d \in Details : details[r] = {d}
      BY DEF CatalogInv, CacheTypes
    <3> QED BY SMTT(45), <3>1, <3>2, FS_EmptySet, FS_Singleton
  <2>2. /\ \A p \in Requests : products[p].slug \in Slugs \cup {None}
        /\ \A k \in Skus : pricing[k].msrp \in Nat /\ tiers[k] \subseteq Catalog!Tier
    BY DEF CatalogInv, RowTypes, Document, Catalog!Price
  <2>3. \A x \in found : x = None \/ x.product \in Requests
    BY DEF CatalogInv, CacheTypes, Entries
  <2>4. Catalog!TypeOK
    BY <2>1, <2>2, <2>3 DEF CatalogInv, RowTypes, QuotesSound, Catalog!TypeOK
  <2> QED BY <2>4 DEF CatalogIsSound, CatalogInv, QuotesSound, Catalog!QuotesInRange
<1>2. CacheFollowsCatalog
  <2> SUFFICES ASSUME ~stirred, \A r \in Requests : ~Catalog!Busy(r)
               PROVE  /\ \A p \in Requests : details[p] # {} => details[p] = DetailOf(p)
                      /\ found # {} => found = Results(Catalog!Listed)
    BY DEF CacheFollowsCatalog, Catalog!CacheFollowsCatalog, Catalog!Miss, DetailOf, Results
  <2> QED BY DEF CatalogInv, CacheKnown, Fresh
<1> QED BY <1>1, <1>2

LEMMA CatalogStutters ==
  ASSUME UNCHANGED <<catalogVars, stirred>>
  PROVE  CatalogInv => CatalogInv'
<1> SUFFICES ASSUME CatalogInv PROVE CatalogInv'
  OBVIOUS
<1>1. /\ UNCHANGED <<products, variants, pricing, tiers, promotions, coupons, details, found, day>>
      /\ UNCHANGED <<asking, quotes, stirred>>
  BY DEF catalogVars
<1>2. /\ RowTypes' /\ CacheTypes' /\ asking' \in [Requests -> CatalogTask] /\ day' \in 1..LastDay
      /\ SlugsUnique' /\ QuotesSound'
  BY <1>1 DEF CatalogInv, RowTypes, CacheTypes, SlugsUnique, QuotesSound
<1>3. (\A r \in Requests : TaskHolds(r, asking[r])') /\ Catalog!VariantsHaveProducts'
  BY <1>1 DEF CatalogInv, TaskHolds, Catalog!Exists, Catalog!VariantsHaveProducts,
              Catalog!VariantsOf
<1>4. ASSUME ~stirred PROVE CacheKnown'
  <2>1. CacheKnown
    BY <1>4 DEF CatalogInv
  <2>2. \A r \in Requests : Catalog!Busy(r)' <=> Catalog!Busy(r)
    BY <1>1 DEF Catalog!Busy
  <2>3. /\ Fresh => Fresh'
        /\ \A h : TaskFresh(h) => TaskFresh(h)'
    BY <1>1, FreshStays
  <2>4. ASSUME NEW r \in Requests, Catalog!Busy(r)' PROVE TaskFresh(asking[r])'
    <3>1. PICK h : h = asking[r] /\ asking'[r] = h
      BY <1>1
    <3>2. TaskFresh(h)'
      BY <2>1, <2>2, <2>3, <2>4, <3>1 DEF CacheKnown
    <3> QED BY <3>1, <3>2 DEF TaskFresh
  <2> QED BY <2>1, <2>2, <2>3, <2>4 DEF CacheKnown
<1> QED BY <1>1, <1>2, <1>3, <1>4 DEF CatalogInv

LEMMA DispatchStutters ==
  ASSUME UNCHANGED <<dispatchVars, stirred>>
  PROVE  DispatchInv => DispatchInv'
BY DEF dispatchVars, DispatchInv, DispatchTypes, JobsQueued, WorkHolds, NewsPending, ParcelsPriced,
       Dispatch!Busy

-----------------------------------------------------------------------------
(* The parts together: the one that was picked runs, the others stand still.                   *)
FrontInv ==
    /\ stirred \in BOOLEAN
    /\ IF part = "catalog" THEN CatalogInv ELSE CatalogIdle
    /\ IF part = "dispatch" THEN DispatchInv ELSE DispatchIdle

LEMMA FrontStart == FrontOfficeInit => FrontInv
<1> SUFFICES ASSUME FrontOfficeInit PROVE FrontInv
  OBVIOUS
<1>1. stirred \in BOOLEAN /\ CatalogIdle
  BY DEF FrontOfficeInit, Catalog!Init, CatalogIdle, Catalog!Miss
<1>2. DispatchIdle
  BY DEF FrontOfficeInit, Dispatch!Init, DispatchIdle
<1> QED BY <1>1, <1>2, FrontOfficeAssumption, CatalogStart, DispatchStart DEF FrontInv

LEMMA FrontKnows == FrontInv => CatalogInv /\ DispatchInv /\ stirred \in BOOLEAN
BY FrontOfficeAssumption, CatalogStart, DispatchStart DEF FrontInv

LEMMA FrontStep == FrontInv /\ [FrontOfficeNext]_frontOfficeVars => FrontInv'
<1> SUFFICES ASSUME FrontInv, [FrontOfficeNext]_frontOfficeVars PROVE FrontInv'
  OBVIOUS
<1>i. UNCHANGED catalogVars => (CatalogIdle => CatalogIdle')
  BY DEF catalogVars, CatalogIdle, Catalog!Empty, Catalog!Stocked
<1>d. UNCHANGED dispatchVars => (DispatchIdle => DispatchIdle')
  BY DEF dispatchVars, DispatchIdle
<1>1. CASE UNCHANGED <<part, catalogVars, dispatchVars, stirred>>
  <2>1. UNCHANGED <<catalogVars, stirred>> /\ UNCHANGED <<dispatchVars, stirred>>
        /\ UNCHANGED <<part, stirred>> /\ UNCHANGED catalogVars /\ UNCHANGED dispatchVars
    BY <1>1
  <2> QED BY <1>i, <1>d, <2>1, CatalogStutters, DispatchStutters DEF FrontInv
<1>2. CASE UNCHANGED <<part, dispatchVars>> /\ part = "catalog" /\ Catalog!Next
  <2>1. UNCHANGED part /\ UNCHANGED dispatchVars
    BY <1>2
  <2>2. CatalogInv' /\ stirred' \in BOOLEAN
    BY <1>2, FrontOfficeAssumption, CatalogStep DEF FrontInv
  <2> QED BY <1>2, <1>d, <2>1, <2>2 DEF FrontInv
<1>3. CASE UNCHANGED <<part, catalogVars>> /\ part = "dispatch" /\ Dispatch!Next
  <2>1. UNCHANGED part /\ UNCHANGED catalogVars
    BY <1>3
  <2>2. DispatchInv' /\ stirred' \in BOOLEAN
    BY <1>3, FrontOfficeAssumption, DispatchStep DEF FrontInv
  <2> QED BY <1>3, <1>i, <2>1, <2>2 DEF FrontInv
<1> QED BY <1>1, <1>2, <1>3 DEF FrontOfficeNext, frontOfficeVars

(* However handlers of the product service overlap and die, no variant lacks its product, a  *)
(* product lacks variants only while it is made or when its creation failed, no two           *)
(* products share a slug (create_product), and no quote is negative or above its subtotal      *)
(* (calculate_price).                                                                            *)
THEOREM CatalogStaysSound == FrontOfficeSpec => []CatalogIsSound
<1>1. FrontInv => CatalogIsSound
  BY FrontOfficeAssumption, FrontKnows, CatalogSound
<1> QED BY <1>1, FrontStart, FrontStep, PTL DEF FrontOfficeSpec

(* Until handlers overlap or die, and once no write is under way, each cached product and the *)
(* cached search show what the databases hold: a sweep leaves no key that its write made       *)
(* stale (cache_delete_pattern).                                                                 *)
THEOREM CacheKeepsUp == FrontOfficeSpec => []CacheFollowsCatalog
<1>1. FrontInv => CacheFollowsCatalog
  BY FrontOfficeAssumption, FrontKnows, CatalogSound
<1> QED BY <1>1, FrontStart, FrontStep, PTL DEF FrontOfficeSpec

(* However handlers of fulfillment and shipping overlap and die, a job on the list is         *)
(* committed and on it once, a job on no list is on its way or left by a request that died     *)
(* (create_fulfillment_job), and rates fit the weight within half a cent and never fall as it    *)
(* grows (calculate_rates); until they overlap, the last message tells a job's status            *)
(* (update_job_status).                                                                            *)
THEOREM DispatchStaysSound == FrontOfficeSpec => []DispatchIsSound
<1>1. FrontInv => DispatchIsSound
  BY FrontKnows, DispatchSound
<1> QED BY <1>1, FrontStart, FrontStep, PTL DEF FrontOfficeSpec

(* SKUs, coupon codes and slugs keep their owners whatever overlaps (ensure_mongo_indexes),    *)
(* and until handlers overlap a job only moves along VALID_TRANSITIONS (update_job_status).     *)
THEOREM NothingGoesBack == FrontOfficeSpec => NothingMovesBack
<1>0. FrontInv => CatalogInv
  BY FrontKnows
<1>1. FrontInv /\ CatalogInv' /\ [FrontOfficeNext]_frontOfficeVars =>
          [/\ \A k \in Skus : variants[k] # None => variants'[k] = variants[k]
           /\ \A c \in Codes : coupons[c] # None => coupons'[c] = coupons[c]
           /\ \A p, q \in Requests : products'[p].slug = products'[q].slug =>
                  p = q \/ products'[p].slug = None]_Catalog!vars
  <2> SUFFICES ASSUME FrontInv, CatalogInv', [FrontOfficeNext]_frontOfficeVars
               PROVE  [/\ \A k \in Skus : variants[k] # None => variants'[k] = variants[k]
                       /\ \A c \in Codes : coupons[c] # None => coupons'[c] = coupons[c]
                       /\ \A p, q \in Requests : products'[p].slug = products'[q].slug =>
                              p = q \/ products'[p].slug = None]_Catalog!vars
    OBVIOUS
  <2>1. CASE Catalog!Next
    <3>1. CatalogInv /\ CatalogInv'
      BY FrontOfficeAssumption, FrontKnows
    <3> QED BY <2>1, <3>1, FrontOfficeAssumption, NamesMove
  <2>2. CASE UNCHANGED catalogVars
    <3>1. UNCHANGED <<products, variants, coupons>>
      BY <2>2 DEF catalogVars
    <3>2. CatalogInv
      BY FrontKnows
    <3> QED BY <3>1, <3>2 DEF CatalogInv, SlugsUnique
  <2> QED BY <2>1, <2>2 DEF FrontOfficeNext, frontOfficeVars
<1>2. FrontInv /\ [FrontOfficeNext]_frontOfficeVars =>
          [~stirred => \A j \in Requests :
               jobs'[j] # jobs[j] =>
                   \/ jobs[j] = "absent" /\ jobs'[j] = "queued"
                   \/ <<jobs[j], jobs'[j]>> \in Dispatch!VALID_TRANSITIONS]_Dispatch!vars
  <2> SUFFICES ASSUME FrontInv, [FrontOfficeNext]_frontOfficeVars, ~stirred,
                      NEW j \in Requests, jobs'[j] # jobs[j]
               PROVE  \/ jobs[j] = "absent" /\ jobs'[j] = "queued"
                      \/ <<jobs[j], jobs'[j]>> \in Dispatch!VALID_TRANSITIONS
    OBVIOUS
  <2>1. Dispatch!Next
    BY DEF FrontOfficeNext, frontOfficeVars, dispatchVars
  <2> QED BY <2>1, FrontKnows, JobsMove
<1> QED BY <1>0, <1>1, <1>2, FrontStart, FrontStep, PTL
        DEF FrontOfficeSpec, NothingMovesBack, Catalog!NamesStick, Dispatch!JobsMoveForward

-----------------------------------------------------------------------------
(* The storefront as long as requests do not overlap, no answer is lost and the process lives. *)

CurrentCart == session[store[cookie]].cart

(* The list of the current session is what the customer was told.                              *)
CartHolds ==
    /\ cookie # None => store[cookie] # None
    /\ cookie = None => \A sku \in Skus : wanted[sku] = 0
    /\ cookie # None =>
           /\ \A i \in lines[CurrentCart] : line[i].quantity = wanted[line[i].sku]
           /\ \A sku \in Skus : wanted[sku] > 0 =>
                  \E i \in lines[CurrentCart] : line[i].sku = sku

WantedLines == {[sku |-> k, quantity |-> wanted[k]] : k \in {j \in Skus : wanted[j] > 0}}

(* What the only request under way knows is still so.                                          *)
Serving(r, h) ==
    /\ h.token = cookie /\ h.session = Loaded(r)
    /\ h.stage = "pricing_update" => cookie # None /\ h.line \in Matching(h.session, h.sku)
    /\ h.stage \in CheckingOut => cookie # None /\ h.list = CurrentCart
    /\ h.stage = "ordering" => order[r].lines = WantedLines

Quiet == ~overlapped /\ ~disturbed

SerialInv ==
    /\ \A q, r \in Requests : InFlight(q) /\ InFlight(r) => q = r
    /\ \A r \in Requests : InFlight(r) => Serving(r, req[r])
    /\ CartHolds

LEMMA SerialInit == Init => SerialInv
<1> SUFFICES ASSUME Init PROVE SerialInv
  OBVIOUS
<1>1. /\ \A r \in Requests : ~InFlight(r)
      /\ cookie = None /\ \A sku \in Skus : wanted[sku] = 0
  BY FreshRequest DEF Init, InFlight, Idle
<1> QED BY <1>1 DEF SerialInv, CartHolds

(* The current session, and what a request loads.                                              *)
LEMMA CurrentFacts ==
  ASSUME StoreInv, CartHolds
  PROVE  /\ cookie # None => /\ cookie \in Requests /\ store[cookie] \in Requests
                             /\ CurrentCart \in Requests /\ lines[CurrentCart] \subseteq Requests
                             /\ \A i \in lines[CurrentCart] :
                                    line[i].sku \in Skus /\ line[i].quantity >= 1
         /\ \A r \in Requests :
                /\ Loaded(r) = IF cookie = None THEN r ELSE store[cookie]
                /\ req[r].stage # "done" /\ cookie = None => Cart(Loaded(r)) = {}
                /\ cookie # None => Cart(Loaded(r)) = lines[CurrentCart]
<1>1. ASSUME cookie # None
      PROVE  /\ cookie \in Requests /\ store[cookie] \in Requests /\ CurrentCart \in Requests
             /\ lines[CurrentCart] \subseteq Requests
             /\ \A i \in lines[CurrentCart] : line[i].sku \in Skus /\ line[i].quantity >= 1
  <2>1. cookie \in Requests /\ store[cookie] \in Requests
    BY <1>1 DEF StoreInv, StoreTypes, CartHolds, Reference
  <2>2. CurrentCart \in Requests
    BY <2>1 DEF StoreInv, StoreTypes, CurrentCart
  <2> QED BY <2>1, <2>2 DEF StoreInv, StoreTypes, LinesSound
<1>2. ASSUME NEW r \in Requests
      PROVE  /\ Loaded(r) = IF cookie = None THEN r ELSE store[cookie]
             /\ req[r].stage # "done" /\ cookie = None => Cart(Loaded(r)) = {}
             /\ cookie # None => Cart(Loaded(r)) = lines[CurrentCart]
  <2>1. Loaded(r) = IF cookie = None THEN r ELSE store[cookie]
    BY DEF CartHolds, Loaded
  <2> QED BY <2>1 DEF Cart, CurrentCart, StoreInv, Objects
<1> QED BY <1>1, <1>2

(* What is ordered of the current cart.                                                        *)
LEMMA OrderedIsWanted ==
  ASSUME StoreInv, CartHolds, cookie # None
  PROVE  {line[i] : i \in lines[CurrentCart]} = WantedLines
<1>t. /\ line \in [Requests -> [sku : Skus \cup {None}, quantity : Int]] /\ wanted \in [Skus -> Nat]
      /\ lines[CurrentCart] \subseteq Requests
      /\ \A i \in lines[CurrentCart] : line[i].sku \in Skus /\ line[i].quantity >= 1
  BY CurrentFacts DEF StoreInv, StoreTypes
<1>1. \A i \in Requests : line[i] = [sku |-> line[i].sku, quantity |-> line[i].quantity]
  BY <1>t
<1>2. ASSUME NEW i \in lines[CurrentCart] PROVE line[i] \in WantedLines
  <2>1. PICK k \in Skus : k = line[i].sku /\ wanted[k] = line[i].quantity /\ wanted[k] > 0
    BY <1>t DEF CartHolds
  <2>2. line[i] = [sku |-> k, quantity |-> wanted[k]]
    BY <1>1, <1>t, <2>1
  <2> QED BY <2>1, <2>2 DEF WantedLines
<1>3. ASSUME NEW x \in WantedLines PROVE x \in {line[i] : i \in lines[CurrentCart]}
  <2>1. PICK k \in Skus : wanted[k] > 0 /\ x = [sku |-> k, quantity |-> wanted[k]]
    BY DEF WantedLines
  <2>2. PICK i \in lines[CurrentCart] : line[i].sku = k /\ line[i].quantity = wanted[k]
    BY <2>1 DEF CartHolds
  <2>3. line[i] = x
    BY <1>1, <1>t, <2>1, <2>2
  <2> QED BY <2>3
<1> QED BY <1>2, <1>3

(* The request r moves on; cart and current session stay.                                      *)
LEMMA SerialMoves ==
  ASSUME StoreInv, StoreInv', SerialInv, NEW r \in Requests, NEW h \in Request,
         req' = [req EXCEPT ![r] = h],
         \A q \in Requests : q # r => ~InFlight(q),
         UNCHANGED <<cookie, store, lines, line, wanted>>,
         \A s \in Requests : session'[s].cart = session[s].cart,
         h.stage \notin Idle => Serving(r, h)'
  PROVE  SerialInv'
<1>1. /\ req'[r] = h
      /\ \A q \in Requests : q # r => req'[q] = req[q]
  BY DEF StoreInv, StoreTypes
<1>2. \A q \in Requests : q # r => ~InFlight(q)'
  BY <1>1 DEF InFlight
<1>3. ASSUME NEW q \in Requests, InFlight(q)' PROVE Serving(q, req[q])'
  <2>1. q = r /\ h.stage \notin Idle
    BY <1>1, <1>2, <1>3 DEF InFlight
  <2> QED BY <1>1, <2>1 DEF Serving
<1>4. cookie # None => CurrentCart' = CurrentCart /\ CurrentCart \in Requests
  BY CurrentFacts DEF SerialInv, CurrentCart
<1>5. CartHolds'
  BY <1>4 DEF SerialInv, CartHolds
<1> QED BY <1>2, <1>3, <1>5 DEF SerialInv

LEMMA SerialBegins ==
  ASSUME StoreInv, NEW r \in Requests, NEW h, Begin(r, h), ~overlapped'
  PROVE  /\ ~overlapped /\ req[r].stage = "new" /\ \A q \in Requests : ~InFlight(q)
         /\ req' = [req EXCEPT ![r] = h]
<1>1. /\ req[r].stage = "new" /\ req' = [req EXCEPT ![r] = h]
      /\ overlapped' = (overlapped \/ \E q \in Requests : InFlight(q))
  BY BeginFacts
<1>2. ~overlapped /\ \A q \in Requests : ~InFlight(q)
  BY <1>1, Zenon
<1> QED BY <1>1, <1>2

(* Requests that begin and read the cart.                                                      *)
LEMMA SerialStarts ==
  ASSUME StoreInv, StoreInv', SerialInv, NEW r \in Requests, ~overlapped',
         \/ \E sku \in Skus, quantity \in Quantities :
                AddLoad(r, sku, quantity) \/ UpdateLoad(r, sku, quantity)
         \/ CheckoutLoad(r)
  PROVE  SerialInv'
<1>t. /\ req \in [Requests -> Request] /\ session \in [Requests -> [cart : Requests, customer : BOOLEAN]]
      /\ req' \in [Requests -> Request] /\ CartHolds
  BY DEF StoreInv, StoreTypes, SerialInv
<1>f. /\ Loaded(r) = IF cookie = None THEN r ELSE store[cookie]
      /\ req[r].stage # "done" /\ cookie = None => Cart(Loaded(r)) = {}
      /\ cookie # None => Cart(Loaded(r)) = lines[CurrentCart]
  BY <1>t, CurrentFacts
<1>h. \A stage \in Stage : /\ Held(r, stage) \in Request /\ Held(r, stage).stage = stage
                           /\ Held(r, stage).token = cookie /\ Held(r, stage).session = Loaded(r)
  BY HeldFacts
<1>q. ASSUME NEW h \in Request, Begin(r, h),
             UNCHANGED <<cookie, store, heap, services, wanted>>,
             h.token = cookie, h.session = Loaded(r),
             \/ h.stage = "pricing_add"
             \/ h.stage = "pricing_update" /\ h.line \in Matching(Loaded(r), h.sku)
                    /\ Cart(Loaded(r)) # {}
             \/ h.stage = "registering" /\ h.list = session[Loaded(r)].cart
                    /\ Cart(Loaded(r)) # {}
      PROVE  SerialInv'
  <2>1. /\ req[r].stage = "new" /\ \A q \in Requests : ~InFlight(q)
        /\ req' = [req EXCEPT ![r] = h]
    BY <1>q, SerialBegins
  <2>2. UNCHANGED <<cookie, store, session, lines, line, account, addresses, order, wanted>>
    BY <1>q DEF heap, services
  <2>4. Serving(r, h)'
    <3>1. h.stage # "pricing_add" => cookie # None
      BY <1>q, <1>f, <2>1
    <3>2. h.stage = "registering" => h.list = CurrentCart
      BY <1>q, <1>f, <3>1 DEF CurrentCart
    <3>3. Loaded(r)' = Loaded(r) /\ CurrentCart' = CurrentCart
          /\ Matching(h.session, h.sku)' = Matching(h.session, h.sku)
      BY <2>2 DEF Loaded, CurrentCart, Matching, Cart
    <3> QED BY <1>q, <2>2, <3>1, <3>2, <3>3 DEF Serving, CheckingOut
  <2>5. \A s \in Requests : session'[s].cart = session[s].cart
    BY <2>2
  <2> QED BY <2>1, <2>2, <2>4, <2>5, SerialMoves
<1>1. ASSUME NEW sku \in Skus, NEW quantity \in Quantities, AddLoad(r, sku, quantity)
      PROVE  SerialInv'
  <2>1. PICK h : h = [Held(r, "pricing_add") EXCEPT !.sku = sku, !.quantity = quantity]
    OBVIOUS
  <2>2. Begin(r, h) /\ UNCHANGED <<cookie, store, heap, services, wanted>>
    BY <1>1, <2>1 DEF AddLoad
  <2>3. PICK g \in Request : /\ g = Held(r, "pricing_add") /\ g.stage = "pricing_add"
                             /\ g.token = cookie /\ g.session = Loaded(r)
    BY <1>h DEF Stage
  <2>4. h.stage = "pricing_add" /\ h.token = cookie /\ h.session = Loaded(r)
    BY <2>1, <2>3 DEF Request
  <2>5. h \in Request
    BY <1>t, <2>2 DEF Begin
  <2> QED BY <1>q, <2>2, <2>4, <2>5
<1>2. ASSUME NEW sku \in Skus, NEW quantity \in Quantities, UpdateLoad(r, sku, quantity)
      PROVE  SerialInv'
  <2>1. PICK i \in Matching(Loaded(r), sku) :
            Begin(r, [Held(r, "pricing_update") EXCEPT !.line = i, !.sku = sku,
                                                       !.quantity = quantity])
    BY <1>2 DEF UpdateLoad
  <2>2. PICK h : h = [Held(r, "pricing_update") EXCEPT !.line = i, !.sku = sku,
                                                       !.quantity = quantity]
    OBVIOUS
  <2>3. Begin(r, h) /\ UNCHANGED <<cookie, store, heap, services, wanted>>
    BY <1>2, <2>1, <2>2 DEF UpdateLoad
  <2>4. PICK g \in Request : /\ g = Held(r, "pricing_update") /\ g.stage = "pricing_update"
                             /\ g.token = cookie /\ g.session = Loaded(r)
    BY <1>h DEF Stage
  <2>5. /\ h.stage = "pricing_update" /\ h.token = cookie /\ h.session = Loaded(r)
        /\ h.line = i /\ h.sku = sku
    BY <2>2, <2>4 DEF Request
  <2>6. h \in Request
    BY <1>t, <2>3 DEF Begin
  <2>7. i \in Cart(Loaded(r))
    BY DEF Matching
  <2> QED BY <1>q, <2>3, <2>5, <2>6, <2>7
<1>3. CASE CheckoutLoad(r)
  <2>1. PICK s, l : s = Loaded(r) /\ l = session[s].cart
    OBVIOUS
  <2>2. /\ Cart(s) # {}
        /\ IF session[s].customer
           THEN Begin(r, [Held(r, "ordering") EXCEPT !.list = l]) /\ SendOrder(r, l)
           ELSE Begin(r, [Held(r, "registering") EXCEPT !.list = l]) /\ UNCHANGED order
        /\ UNCHANGED <<cookie, store, heap, account, addresses, wanted>>
    BY <1>3, <2>1 DEF CheckoutLoad
  <2>3. CASE session[s].customer
    <3>1. PICK h : h = [Held(r, "ordering") EXCEPT !.list = l]
      OBVIOUS
    <3>2. PICK g \in Request : /\ g = Held(r, "ordering") /\ g.stage = "ordering"
                               /\ g.token = cookie /\ g.session = Loaded(r)
      BY <1>h DEF Stage
    <3>3. /\ h.stage = "ordering" /\ h.token = cookie /\ h.session = Loaded(r) /\ h.list = l
      BY <3>1, <3>2 DEF Request
    <3>4. Begin(r, h) /\ SendOrder(r, l)
      BY <2>2, <2>3, <3>1
    <3>5. /\ req[r].stage = "new" /\ \A q \in Requests : ~InFlight(q)
          /\ req' = [req EXCEPT ![r] = h] /\ h \in Request
      BY <1>t, <3>4, SerialBegins
    <3>6. UNCHANGED <<cookie, store, session, lines, line, account, addresses, wanted>>
      BY <2>2 DEF heap
    <3>7. cookie # None /\ l = CurrentCart /\ lines[l] # {} /\ lines[CurrentCart] # {}
      BY <1>f, <2>1, <2>2, <3>5 DEF CurrentCart
    <3>8. l \in Requests
      BY <1>t, <3>7, CurrentFacts
    <3>9. order'[r].lines = {line[i] : i \in lines[l]}
      <4>1. account /\ account'
        <5>1. Loaded(r) \in Requests
          BY LoadedFacts
        <5> QED BY <2>1, <2>3, <3>6, <5>1 DEF StoreInv, CustomersKnown
      <4> QED BY <3>4, <3>7, <3>8, <4>1, SentOrder
    <3>b. Serving(r, h)'
      <4>1. Loaded(r)' = Loaded(r) /\ CurrentCart' = CurrentCart /\ WantedLines' = WantedLines
        BY <3>6 DEF Loaded, CurrentCart, WantedLines
      <4>2. order'[r].lines = WantedLines
        BY <1>t, <3>7, <3>9, OrderedIsWanted
      <4> QED BY <3>3, <3>6, <3>7, <3>9, <4>1, <4>2 DEF Serving, CheckingOut
    <3>c. \A x \in Requests : session'[x].cart = session[x].cart
      BY <3>6
    <3> QED BY <3>5, <3>6, <3>b, <3>c, SerialMoves
  <2>4. CASE ~session[s].customer
    <3>1. PICK h : h = [Held(r, "registering") EXCEPT !.list = l]
      OBVIOUS
    <3>2. PICK g \in Request : /\ g = Held(r, "registering") /\ g.stage = "registering"
                               /\ g.token = cookie /\ g.session = Loaded(r)
      BY <1>h DEF Stage
    <3>3. /\ h.stage = "registering" /\ h.token = cookie /\ h.session = Loaded(r) /\ h.list = l
      BY <3>1, <3>2 DEF Request
    <3>4. Begin(r, h) /\ UNCHANGED <<cookie, store, heap, services, wanted>>
      BY <2>2, <2>4, <3>1 DEF services
    <3>5. h \in Request
      BY <1>t, <3>4 DEF Begin
    <3> QED BY <1>q, <2>1, <2>2, <2>4, <3>3, <3>4, <3>5
  <2> QED BY <2>2, <2>3, <2>4
<1> QED BY <1>1, <1>2, <1>3

(* What a request under way relies on.                                                         *)
LEMMA SerialAlone ==
  ASSUME StoreInv, SerialInv, NEW r \in Requests, InFlight(r)
  PROVE  /\ Serving(r, req[r]) /\ \A q \in Requests : q # r => ~InFlight(q)
         /\ req[r].stage \notin Idle /\ req[r] \in Request /\ HoldsOK(r, req[r])
         /\ req[r].session = Loaded(r) /\ Loaded(r) \in Requests
BY LoadedFacts DEF SerialInv, Serving, InFlight, StoreInv, StoreTypes

LEMMA SerialEnds ==
  ASSUME StoreInv, StoreInv', SerialInv, NEW r \in Requests, InFlight(r),
         NEW final \in {"done", "failed"}, Finish(r, final),
         UNCHANGED <<cookie, store, lines, line, wanted>>,
         \A s \in Requests : session'[s].cart = session[s].cart
  PROVE  SerialInv'
<1>1. PICK h \in Request : h = [NoRequest EXCEPT !.stage = final] /\ h.stage = final
  BY FreshRequest DEF Stage, Idle
<1>2. req' = [req EXCEPT ![r] = h]
  BY <1>1 DEF Finish
<1>3. \A q \in Requests : q # r => ~InFlight(q)
  BY SerialAlone
<1>4. h.stage \in Idle
  BY <1>1 DEF Idle
<1> QED BY <1>2, <1>3, <1>4, SerialMoves

(* A checkout goes on to the stage that follows.                                               *)
LEMMA SerialAdvances ==
  ASSUME StoreInv, StoreInv', SerialInv, NEW r \in Requests, InFlight(r),
         NEW stage \in {"logging_in", "addressing", "ordering"}, Advance(r, stage),
         req[r].stage \in {"registering", "logging_in", "addressing"},
         UNCHANGED <<cookie, store, lines, line, wanted>>,
         \A s \in Requests : session'[s].cart = session[s].cart,
         stage = "ordering" => SendOrder(r, req[r].list) /\ account /\ account'
  PROVE  SerialInv'
<1>a. /\ Serving(r, req[r]) /\ \A q \in Requests : q # r => ~InFlight(q)
      /\ req[r].stage \notin Idle /\ req[r] \in Request /\ HoldsOK(r, req[r])
      /\ req[r].session = Loaded(r)
  BY SerialAlone
<1>1. PICK old \in Request : old = req[r]
  BY <1>a
<1>2. PICK h : h = [old EXCEPT !.stage = stage]
  OBVIOUS
<1>3. /\ h \in Request /\ h.stage = stage /\ h.token = old.token /\ h.session = old.session
      /\ h.list = old.list
  BY <1>2 DEF Request, Stage
<1>4. req' = [req EXCEPT ![r] = h]
  <2>1. req' = [req EXCEPT ![r] = [req[r] EXCEPT !.stage = stage]]
    BY DEF Advance
  <2> QED BY <1>1, <1>2, <2>1
<1>5. /\ cookie # None /\ h.list = CurrentCart /\ h.list \in Requests /\ lines[h.list] # {}
      /\ h.token = cookie /\ h.session = Loaded(r)
  BY <1>a, <1>1, <1>3 DEF Serving, CheckingOut, HoldsOK
<1>6. Loaded(r)' = Loaded(r) /\ WantedLines' = WantedLines
  BY DEF Loaded, WantedLines
<1>7. CurrentCart' = CurrentCart
  BY <1>5, CurrentFacts DEF CurrentCart, SerialInv
<1>8. ASSUME stage = "ordering" PROVE order'[r].lines = WantedLines
  <2>1. order'[r].lines = {line[i] : i \in lines[h.list]}
    BY <1>8, <1>1, <1>3, <1>5, SentOrder
  <2> QED BY <1>5, <2>1, OrderedIsWanted DEF SerialInv
<1>9. Serving(r, h)'
  BY <1>1, <1>3, <1>5, <1>6, <1>7, <1>8 DEF Serving, CheckingOut
<1> QED BY <1>a, <1>3, <1>4, <1>9, SerialMoves

LEMMA SerialReturns ==
  ASSUME StoreInv, StoreInv', SerialInv, NEW r \in Requests,
         AddUnpriced(r) \/ RegisterReturn(r) \/ LoginReturn(r) \/ AddressReturn(r) \/ OrderFailed(r)
  PROVE  SerialInv'
<1>1. InFlight(r)
  BY DEF AddUnpriced, RegisterReturn, LoginReturn, AddressReturn, OrderFailed, InFlight, Idle
<1>h. HoldsOK(r, req[r]) /\ req[r].session \in Requests
  BY <1>1, SerialAlone
<1>u. UNCHANGED <<cookie, store, lines, line, wanted>>
  BY DEF AddUnpriced, RegisterReturn, LoginReturn, AddressReturn, OrderFailed, heap, history
<1>s. \A s \in Requests : session'[s].cart = session[s].cart
  <2>1. CASE UNCHANGED session
    BY <2>1
  <2>2. CASE KnowCustomer(r)
    <3>1. session' = [session EXCEPT ![req[r].session].customer = TRUE]
      BY <2>2 DEF KnowCustomer
    <3> QED BY <1>h, <3>1 DEF StoreInv, StoreTypes
  <2> QED BY <2>1, <2>2
          DEF AddUnpriced, RegisterReturn, LoginReturn, AddressReturn, OrderFailed, heap
<1>e. ASSUME NEW final \in {"done", "failed"}, Finish(r, final) PROVE SerialInv'
  BY <1>1, <1>u, <1>s, <1>e, SerialEnds
<1>k. ASSUME NEW stage \in {"logging_in", "addressing"}, Advance(r, stage),
             req[r].stage \in {"registering", "logging_in"}
      PROVE  SerialInv'
  BY <1>1, <1>u, <1>s, <1>k, SerialAdvances
<1>2. CASE AddUnpriced(r)
  BY <1>e, <1>2 DEF AddUnpriced
<1>3. CASE OrderFailed(r)
  BY <1>e, <1>3 DEF OrderFailed
<1>4. CASE RegisterReturn(r)
  BY <1>e, <1>k, <1>4 DEF RegisterReturn
<1>5. CASE LoginReturn(r)
  BY <1>e, <1>k, <1>5 DEF LoginReturn
<1>6. CASE AddressReturn(r)
  <2>1. /\ req[r].stage = "addressing" /\ SendOrder(r, req[r].list) /\ Advance(r, "ordering")
        /\ UNCHANGED account
    BY <1>6 DEF AddressReturn
  <2>2. account /\ account'
    BY <1>h, <2>1 DEF HoldsOK
  <2> QED BY <1>1, <1>u, <1>s, <2>1, <2>2, SerialAdvances
<1> QED BY <1>2, <1>3, <1>4, <1>5, <1>6

(* The order service answers.                                                                  *)
LEMMA SerialHandled ==
  ASSUME StoreInv, StoreInv', SerialInv, NEW r \in Requests, OrderHandled(r)
  PROVE  SerialInv'
<1>1. PICK outcome \in {"placed", "refused"} : order' = [order EXCEPT ![r].state = outcome]
  BY DEF OrderHandled
<1>2. /\ order[r].state = "sent" /\ order \in [Requests -> Order]
      /\ UNCHANGED <<cookie, store, session, lines, line, req, account, addresses, wanted>>
  BY DEF OrderHandled, heap, history, StoreInv, StoreTypes
<1>3. PICK o : o = [order[r] EXCEPT !.state = outcome]
  OBVIOUS
<1>4. /\ o \in Order /\ o.state = outcome /\ o.list = order[r].list /\ o.lines = order[r].lines
  BY <1>2, <1>3 DEF Order
<1>5. order'[r] = o /\ \A q \in Requests : q # r => order'[q] = order[q]
  BY <1>1, <1>2, <1>3
<1>6. CurrentCart' = CurrentCart /\ WantedLines' = WantedLines
  BY <1>2 DEF CurrentCart, WantedLines
<1>7. ASSUME NEW q \in Requests, InFlight(q)' PROVE Serving(q, req[q])'
  <2>1. InFlight(q) /\ req'[q] = req[q] /\ Serving(q, req[q])
    BY <1>2, <1>7 DEF InFlight, SerialInv
  <2>2. order'[q].list = order[q].list /\ order'[q].lines = order[q].lines
    BY <1>4, <1>5
  <2>3. Loaded(q)' = Loaded(q) /\ Matching(req[q].session, req[q].sku)'
                                      = Matching(req[q].session, req[q].sku)
    BY <1>2 DEF Loaded, Matching, Cart
  <2> QED BY <1>2, <1>6, <2>1, <2>2, <2>3 DEF Serving
<1>8. CartHolds'
  BY <1>2, <1>6 DEF SerialInv, CartHolds
<1>9. \A p, q \in Requests : InFlight(p)' /\ InFlight(q)' => p = q
  BY <1>2 DEF SerialInv, InFlight
<1> QED BY <1>7, <1>8, <1>9 DEF SerialInv

(* A request is done, and the cart holds.                                                      *)
LEMMA SerialStores ==
  ASSUME StoreInv, NEW r \in Requests, \A q \in Requests : q # r => ~InFlight(q),
         Finish(r, "done"), CartHolds'
  PROVE  SerialInv'
<1>1. PICK h : h = [NoRequest EXCEPT !.stage = "done"]
  OBVIOUS
<1>2. h.stage = "done"
  BY <1>1, FreshRequest DEF Stage, Idle
<1>3. req'[r] = h /\ \A q \in Requests : q # r => req'[q] = req[q]
  BY <1>1 DEF Finish, StoreInv, StoreTypes
<1>4. \A q \in Requests : ~InFlight(q)'
  BY <1>2, <1>3 DEF InFlight, Idle
<1> QED BY <1>4 DEF SerialInv

(* The list that a request changes.                                                            *)
LEMMA CartFacts ==
  ASSUME StoreInv, CartHolds, NEW r \in Requests, req[r].stage # "done"
  PROVE  /\ Loaded(r) \in Requests /\ session[Loaded(r)].cart \in Requests
         /\ Cart(Loaded(r)) \subseteq Requests /\ r \notin Cart(Loaded(r))
         /\ \A i \in Cart(Loaded(r)) : line[i].sku \in Skus /\ line[i].quantity >= 1
                                       /\ line[i].quantity = wanted[line[i].sku]
         /\ \A k \in Skus : wanted[k] > 0 => \E i \in Cart(Loaded(r)) : line[i].sku = k
         /\ \A i, j \in Cart(Loaded(r)) : line[i].sku = line[j].sku => i = j
<1>1. Loaded(r) \in Requests /\ session[Loaded(r)].cart \in Requests
  BY LoadedFacts DEF StoreInv, StoreTypes
<1>2. /\ Cart(Loaded(r)) \subseteq Requests
      /\ \A i \in Cart(Loaded(r)) : line[i].sku \in Skus /\ line[i].quantity >= 1
      /\ \A i, j \in Cart(Loaded(r)) : line[i].sku = line[j].sku => i = j
      /\ r \notin Cart(Loaded(r))
  BY <1>1 DEF Cart, StoreInv, StoreTypes, LinesSound, Objects
<1>3. CASE cookie = None
  BY <1>1, <1>2, <1>3, CurrentFacts DEF CartHolds, StoreInv, StoreTypes
<1>4. CASE cookie # None
  BY <1>1, <1>2, <1>4, CurrentFacts DEF CartHolds
<1> QED BY <1>3, <1>4

(* The list of the stored session is the cart from now on.                                     *)
LEMMA StoredCart ==
  ASSUME StoreInv, NEW r \in Requests, Persist(r, cookie, Loaded(r))
  PROVE  /\ cookie' # None /\ store'[cookie'] = Loaded(r) /\ store'[cookie'] # None
         /\ CurrentCart' = session'[Loaded(r)].cart
<1>1. PICK s \in Requests : s = Loaded(r)
  BY LoadedFacts
<1>t. store \in [Requests -> Reference] /\ cookie \in Reference /\ None \notin Requests
  BY FreshRequest DEF StoreInv, StoreTypes
<1>2. PICK used \in Requests : used = (IF cookie # None THEN cookie ELSE r)
                               /\ store' = [store EXCEPT ![used] = s] /\ cookie' = used
  BY <1>1, <1>t, PersistFacts
<1>3. cookie' # None /\ store'[cookie'] = s
  BY <1>t, <1>2
<1> QED BY <1>t, <1>1, <1>3 DEF CurrentCart

(* What CartHolds asks for after a step that stores the session.                               *)
LEMMA CartShown ==
  ASSUME NEW l, cookie' # None, store'[cookie'] # None, lines'[CurrentCart'] = l,
         \A i \in l : line'[i].quantity = wanted'[line'[i].sku],
         \A k \in Skus : wanted'[k] > 0 => \E i \in l : line'[i].sku = k
  PROVE  CartHolds'
BY DEF CartHolds

LEMMA SerialAdd ==
  ASSUME StoreInv, StoreInv', SerialInv, NEW r \in Requests, AddPriced(r)
  PROVE  SerialInv'
<1>1. InFlight(r)
  BY DEF AddPriced, InFlight, Idle
<1>a. /\ \A q \in Requests : q # r => ~InFlight(q)
      /\ req[r].session = Loaded(r) /\ Loaded(r) \in Requests /\ req[r].token = cookie
      /\ HoldsOK(r, req[r]) /\ req[r] \in Request
  BY <1>1, SerialAlone DEF Serving
<1>2. PICK sku \in Skus, n \in Nat, s \in Requests :
          sku = req[r].sku /\ n = Clamped(req[r].quantity) /\ n >= 1 /\ s = Loaded(r)
  <2>1. req[r].sku \in Skus /\ req[r].quantity \in Int
    BY <1>a DEF AddPriced, HoldsOK, Request
  <2> QED BY <1>a, <2>1 DEF Clamped
<1>3. /\ req[r].stage = "pricing_add" /\ PutInCart(r, s, sku, n) /\ Persist(r, cookie, s)
      /\ wanted' = [wanted EXCEPT ![sku] = @ + n] /\ Finish(r, "done")
      /\ UNCHANGED <<session, account, addresses, order>>
  BY <1>a, <1>2 DEF AddPriced, services
<1>4. CartHolds /\ wanted \in [Skus -> Nat] /\ lines \in [Requests -> SUBSET Requests]
      /\ line \in [Requests -> [sku : Skus \cup {None}, quantity : Int]]
  BY DEF SerialInv, StoreInv, StoreTypes
<1>5. /\ session[s].cart \in Requests
      /\ Cart(s) \subseteq Requests /\ r \notin Cart(s)
      /\ \A i \in Cart(s) : line[i].sku \in Skus /\ line[i].quantity >= 1
                            /\ line[i].quantity = wanted[line[i].sku]
      /\ \A k \in Skus : wanted[k] > 0 => \E i \in Cart(s) : line[i].sku = k
      /\ \A i, j \in Cart(s) : line[i].sku = line[j].sku => i = j
  BY <1>2, <1>3, <1>4, CartFacts
<1>6. cookie' # None /\ store'[cookie'] # None /\ CurrentCart' = session[s].cart
  BY <1>2, <1>3, StoredCart
<1>7. CartHolds'
  <2>1. /\ wanted'[sku] = wanted[sku] + n /\ wanted[sku] \in Nat
        /\ \A k \in Skus : k # sku => wanted'[k] = wanted[k]
    BY <1>3, <1>4
  <2>2. ASSUME NEW i \in Matching(s, sku), line' = [line EXCEPT ![i].quantity = @ + n],
               UNCHANGED lines
        PROVE  CartHolds'
    <3>1. i \in Cart(s) /\ line[i].sku = sku
      BY <2>2 DEF Matching
    <3>2. /\ line'[i].sku = sku /\ line'[i].quantity = line[i].quantity + n
          /\ \A j \in Requests : j # i => line'[j] = line[j]
      BY <1>4, <1>5, <2>2, <3>1
    <3>3. lines'[CurrentCart'] = Cart(s)
      BY <1>6, <2>2 DEF Cart
    <3>4. \A j \in Cart(s) : line'[j].quantity = wanted'[line'[j].sku]
      BY <1>5, <2>1, <3>1, <3>2
    <3>5. \A k \in Skus : wanted'[k] > 0 => \E j \in Cart(s) : line'[j].sku = k
      BY <1>5, <2>1, <3>1, <3>2
    <3> QED BY <1>6, <3>3, <3>4, <3>5, CartShown
  <2>3. ASSUME Matching(s, sku) = {}, line' = [line EXCEPT ![r] = [sku |-> sku, quantity |-> n]],
               lines' = [lines EXCEPT ![session[s].cart] = @ \cup {r}]
        PROVE  CartHolds'
    <3>1. wanted[sku] = 0
      BY <1>5, <2>1, <2>3 DEF Matching
    <3>2. /\ line'[r].sku = sku /\ line'[r].quantity = n
          /\ \A j \in Requests : j # r => line'[j] = line[j]
      BY <1>4, <2>3
    <3>3. lines'[CurrentCart'] = Cart(s) \cup {r}
      BY <1>4, <1>5, <1>6, <2>3 DEF Cart
    <3>4. \A j \in Cart(s) : line[j].sku # sku
      BY <2>3 DEF Matching
    <3>5. \A j \in Cart(s) \cup {r} : line'[j].quantity = wanted'[line'[j].sku]
      BY <1>5, <2>1, <3>1, <3>2, <3>4
    <3>6. \A k \in Skus : wanted'[k] > 0 => \E j \in Cart(s) \cup {r} : line'[j].sku = k
      BY <1>5, <2>1, <3>2
    <3> QED BY <1>6, <3>3, <3>5, <3>6, CartShown
  <2> QED BY <1>3, <2>2, <2>3 DEF PutInCart
<1> QED BY <1>a, <1>3, <1>7, SerialStores

LEMMA SerialUpdate ==
  ASSUME StoreInv, StoreInv', SerialInv, NEW r \in Requests, UpdatePriced(r)
  PROVE  SerialInv'
<1>1. InFlight(r)
  BY DEF UpdatePriced, InFlight, Idle
<1>a. /\ \A q \in Requests : q # r => ~InFlight(q)
      /\ req[r].session = Loaded(r) /\ Loaded(r) \in Requests /\ req[r].token = cookie
      /\ HoldsOK(r, req[r]) /\ req[r] \in Request /\ Serving(r, req[r])
  BY <1>1, SerialAlone DEF Serving
<1>2. PICK sku \in Skus, n \in Nat, i \in Requests, s \in Requests :
          /\ sku = req[r].sku /\ n = req[r].quantity /\ n >= 1 /\ s = Loaded(r)
          /\ i = req[r].line /\ i \in Matching(s, sku)
  <2>1. /\ req[r].sku \in Skus /\ req[r].quantity \in Int /\ req[r].quantity > 0
        /\ req[r].line \in Requests /\ req[r].line \in Matching(Loaded(r), req[r].sku)
    BY <1>a DEF UpdatePriced, HoldsOK, Request, Serving
  <2> QED BY <1>a, <2>1
<1>3. /\ req[r].stage = "pricing_update" /\ Persist(r, cookie, s) /\ Finish(r, "done")
      /\ \/ /\ line' = [line EXCEPT ![i].quantity = n]
            /\ wanted' = [wanted EXCEPT ![sku] = n]
         \/ UNCHANGED <<line, wanted>>
      /\ UNCHANGED <<session, lines, account, addresses, order>>
  BY <1>a, <1>2 DEF UpdatePriced, services
<1>4. CartHolds /\ wanted \in [Skus -> Nat]
      /\ line \in [Requests -> [sku : Skus \cup {None}, quantity : Int]]
  BY DEF SerialInv, StoreInv, StoreTypes
<1>5. /\ Cart(s) \subseteq Requests
      /\ \A j \in Cart(s) : line[j].sku \in Skus /\ line[j].quantity >= 1
                            /\ line[j].quantity = wanted[line[j].sku]
      /\ \A k \in Skus : wanted[k] > 0 => \E j \in Cart(s) : line[j].sku = k
      /\ \A j, k \in Cart(s) : line[j].sku = line[k].sku => j = k
  BY <1>2, <1>3, <1>4, CartFacts
<1>6. cookie' # None /\ store'[cookie'] # None /\ CurrentCart' = session[s].cart
  BY <1>2, <1>3, StoredCart
<1>7. CartHolds'
  <2>1. lines'[CurrentCart'] = Cart(s) /\ i \in Cart(s) /\ line[i].sku = sku
    BY <1>2, <1>3, <1>6 DEF Cart, Matching
  <2>2. CASE line' = [line EXCEPT ![i].quantity = n] /\ wanted' = [wanted EXCEPT ![sku] = n]
    <3>1. /\ line'[i].sku = sku /\ line'[i].quantity = n
          /\ \A j \in Requests : j # i => line'[j] = line[j]
      BY <1>4, <2>1, <2>2
    <3>2. /\ wanted'[sku] = n /\ \A k \in Skus : k # sku => wanted'[k] = wanted[k]
      BY <1>4, <2>2
    <3>3. \A j \in Cart(s) : line'[j].quantity = wanted'[line'[j].sku]
      BY <1>5, <2>1, <3>1, <3>2
    <3>4. \A k \in Skus : wanted'[k] > 0 => \E j \in Cart(s) : line'[j].sku = k
      BY <1>5, <2>1, <3>1, <3>2
    <3> QED BY <1>6, <2>1, <3>3, <3>4, CartShown
  <2>3. CASE UNCHANGED <<line, wanted>>
    <3>1. /\ \A j \in Cart(s) : line'[j].quantity = wanted'[line'[j].sku]
          /\ \A k \in Skus : wanted'[k] > 0 => \E j \in Cart(s) : line'[j].sku = k
      BY <1>5, <2>3
    <3> QED BY <1>6, <2>1, <3>1, CartShown
  <2> QED BY <1>3, <2>2, <2>3
<1> QED BY <1>a, <1>3, <1>7, SerialStores

(* The ordered cart is replaced by an empty one.                                               *)
LEMMA SerialConfirmed ==
  ASSUME StoreInv, StoreInv', SerialInv, NEW r \in Requests, OrderConfirmed(r)
  PROVE  SerialInv'
<1>1. InFlight(r)
  BY DEF OrderConfirmed, InFlight, Idle
<1>a. /\ \A q \in Requests : q # r => ~InFlight(q)
      /\ req[r].session = Loaded(r) /\ Loaded(r) \in Requests /\ req[r].token = cookie
  BY <1>1, SerialAlone DEF Serving
<1>2. PICK s \in Requests : s = Loaded(r)
  BY <1>a
<1>3. /\ req[r].stage = "ordering" /\ order[r].state = "placed"
      /\ session' = [session EXCEPT ![s].cart = r] /\ Persist(r, cookie, s)
      /\ wanted' = [k \in Skus |-> 0] /\ Finish(r, "done")
      /\ UNCHANGED <<lines, line, account, addresses, order>>
  BY <1>a, <1>2 DEF OrderConfirmed, services
<1>4. /\ session'[s].cart = r
      /\ \A x \in Requests : session'[x].customer = session[x].customer
  <2>1. PICK x : x = [session[s] EXCEPT !.cart = r]
    OBVIOUS
  <2>2. session \in [Requests -> [cart : Requests, customer : BOOLEAN]]
    BY DEF StoreInv, StoreTypes
  <2>3. x.cart = r /\ x.customer = session[s].customer
    BY <2>1, <2>2
  <2>4. session' = [session EXCEPT ![s] = x]
    BY <1>3, <2>1
  <2> QED BY <2>2, <2>3, <2>4
<1>5. /\ cookie' # None /\ store'[cookie'] # None /\ CurrentCart' = r
  BY <1>2, <1>3, <1>4, StoredCart
<1>6. PICK l : l = {} /\ lines'[CurrentCart'] = l
  BY <1>3, <1>5 DEF StoreInv, Objects
<1>7. /\ \A i \in l : line'[i].quantity = wanted'[line'[i].sku]
      /\ \A k \in Skus : wanted'[k] > 0 => \E i \in l : line'[i].sku = k
  BY <1>3, <1>6
<1>8. CartHolds'
  BY <1>5, <1>6, <1>7, CartShown
<1> QED BY <1>a, <1>3, <1>8, SerialStores

(* Requests that take something off the cart at once, or nothing.                              *)
LEMMA SerialRemoves ==
  ASSUME StoreInv, StoreInv', SerialInv, ~overlapped', NEW r \in Requests, NEW sku \in Skus,
         Remove(r, sku) \/ UpdateNothing(r, sku)
  PROVE  SerialInv'
<1>1. PICK s \in Requests : s = Loaded(r)
  BY LoadedFacts
<1>2. Begin(r, [NoRequest EXCEPT !.stage = "done"]) /\ Persist(r, cookie, s)
      /\ UNCHANGED <<account, addresses, order, line>>
  BY <1>1 DEF Remove, UpdateNothing, services, heap
<1>3. /\ req[r].stage = "new" /\ \A q \in Requests : ~InFlight(q)
      /\ Finish(r, "done")
  BY <1>2, SerialBegins DEF Finish
<1>4. CartHolds /\ wanted \in [Skus -> Nat] /\ lines \in [Requests -> SUBSET Requests]
      /\ session \in [Requests -> [cart : Requests, customer : BOOLEAN]]
  BY DEF SerialInv, StoreInv, StoreTypes
<1>5. /\ Cart(s) \subseteq Requests
      /\ \A i \in Cart(s) : line[i].sku \in Skus /\ line[i].quantity = wanted[line[i].sku]
      /\ \A k \in Skus : wanted[k] > 0 => \E i \in Cart(s) : line[i].sku = k
  BY <1>1, <1>3, <1>4, CartFacts
<1>6. cookie' # None /\ store'[cookie'] # None /\ CurrentCart' = session'[s].cart
  BY <1>1, <1>2, StoredCart
<1>7. CASE UpdateNothing(r, sku)
  <2>1. UNCHANGED <<session, lines, line, wanted>>
    BY <1>7 DEF UpdateNothing, heap
  <2>2. lines'[CurrentCart'] = Cart(s)
    BY <1>6, <2>1 DEF Cart
  <2>3. /\ \A i \in Cart(s) : line'[i].quantity = wanted'[line'[i].sku]
        /\ \A k \in Skus : wanted'[k] > 0 => \E i \in Cart(s) : line'[i].sku = k
    BY <1>5, <2>1
  <2>4. CartHolds'
    BY <1>6, <2>2, <2>3, CartShown
  <2> QED BY <1>3, <2>4, SerialStores
<1>8. CASE Remove(r, sku)
  <2>1. PICK rest : rest = Cart(s) \ Matching(s, sku)
    OBVIOUS
  <2>2. /\ lines' = [lines EXCEPT ![r] = rest] /\ wanted' = [wanted EXCEPT ![sku] = 0]
        /\ session' = [session EXCEPT ![s].cart = r]
    BY <1>1, <1>8, <2>1 DEF Remove
  <2>3. /\ session'[s].cart = r
        /\ \A x \in Requests : session'[x].customer = session[x].customer
    <3>1. PICK x : x = [session[s] EXCEPT !.cart = r]
      OBVIOUS
    <3>2. x.cart = r /\ x.customer = session[s].customer
      BY <1>4, <3>1
    <3>3. session' = [session EXCEPT ![s] = x]
      BY <2>2, <3>1
    <3> QED BY <1>4, <3>2, <3>3
  <2>4. lines'[CurrentCart'] = rest
    BY <1>4, <1>6, <2>2, <2>3
  <2>5. /\ wanted'[sku] = 0 /\ \A k \in Skus : k # sku => wanted'[k] = wanted[k]
    BY <1>4, <2>2
  <2>6. /\ rest \subseteq Cart(s)
        /\ \A i \in Cart(s) : i \in rest <=> line[i].sku # sku
    BY <2>1 DEF Matching
  <2>7. \A i \in rest : line'[i].quantity = wanted'[line'[i].sku]
    BY <1>2, <1>5, <2>5, <2>6
  <2>8. ASSUME NEW k \in Skus, wanted'[k] > 0 PROVE \E i \in rest : line'[i].sku = k
    <3>1. k # sku /\ wanted[k] > 0
      BY <2>5, <2>8
    <3>2. PICK i \in Cart(s) : line[i].sku = k
      BY <1>5, <3>1
    <3> QED BY <1>2, <2>6, <3>1, <3>2
  <2>9. CartHolds'
    BY <1>6, <2>4, <2>7, <2>8, CartShown
  <2> QED BY <1>3, <2>9, SerialStores
<1> QED BY <1>7, <1>8

(* The browser drops its token while nothing is under way. *)
LEMMA SerialExpires ==
  ASSUME SerialInv, CookieExpires, \A q \in Requests : ~InFlight(q)
  PROVE  SerialInv'
<1>1. \A q \in Requests : ~InFlight(q)'
  BY DEF CookieExpires, InFlight
<1>2. CartHolds'
  BY DEF CookieExpires, CartHolds
<1> QED BY <1>1, <1>2 DEF SerialInv

LEMMA SerialStep ==
  StoreInv /\ StoreInv' /\ Flags /\ (Quiet => SerialInv) /\ [Next]_vars => (Quiet' => SerialInv')
<1> SUFFICES ASSUME StoreInv, StoreInv', Flags, Quiet => SerialInv, [Next]_vars, Quiet'
             PROVE  SerialInv'
  OBVIOUS
<1>q. ~overlapped' /\ ~disturbed'
  BY DEF Quiet
<1>1. CASE UNCHANGED vars
  <2>1. /\ UNCHANGED <<cookie, store, session, lines, line, req, order, wanted>>
        /\ UNCHANGED <<overlapped, disturbed>>
    BY <1>1 DEF vars, heap, services, history
  <2>2. SerialInv
    BY <1>q, <2>1 DEF Quiet
  <2>3. /\ CurrentCart' = CurrentCart /\ WantedLines' = WantedLines
        /\ \A q \in Requests : Loaded(q)' = Loaded(q) /\ InFlight(q)' = InFlight(q)
        /\ \A q \in Requests : Matching(req[q].session, req[q].sku)'
                                   = Matching(req[q].session, req[q].sku)
    BY <2>1 DEF CurrentCart, WantedLines, Loaded, InFlight, Matching, Cart
  <2>4. ASSUME NEW q \in Requests, InFlight(q)' PROVE Serving(q, req[q])'
    BY <2>1, <2>2, <2>3, <2>4 DEF SerialInv, Serving
  <2>5. CartHolds'
    BY <2>1, <2>2, <2>3 DEF SerialInv, CartHolds
  <2>6. \A p, q \in Requests : InFlight(p)' /\ InFlight(q)' => p = q
    BY <2>2, <2>3 DEF SerialInv
  <2> QED BY <2>4, <2>5, <2>6 DEF SerialInv
<1>2. ASSUME NEW r \in Requests, Start(r) PROVE SerialInv'
  <2>1. SerialInv
    <3>1. ~overlapped
      <4>1. ASSUME NEW h, Begin(r, h) PROVE ~overlapped
        BY <1>q, <4>1, SerialBegins
      <4> QED BY <1>2, <4>1 DEF Start, AddLoad, UpdateLoad, Remove, UpdateNothing, CheckoutLoad
    <3>2. ~disturbed
      BY <1>q, <1>2, Zenon DEF Start, AddLoad, UpdateLoad, Remove, UpdateNothing, CheckoutLoad
    <3> QED BY <3>1, <3>2 DEF Quiet
  <2>2. CASE (\E sku \in Skus, quantity \in Quantities :
                  AddLoad(r, sku, quantity) \/ UpdateLoad(r, sku, quantity)) \/ CheckoutLoad(r)
    BY <1>q, <2>1, <2>2, SerialStarts
  <2>3. CASE \E sku \in Skus : Remove(r, sku) \/ UpdateNothing(r, sku)
    BY <1>q, <2>1, <2>3, SerialRemoves
  <2> QED BY <1>2, <2>2, <2>3 DEF Start
<1>3. ASSUME NEW r \in Requests, Continue(r) PROVE SerialInv'
  <2>1. ~TimeOut(r)
    BY <1>q DEF TimeOut
  <2>2. ~overlapped /\ ~disturbed
    <3>1. CASE OrderFailed(r)
      BY <1>q, <3>1 DEF OrderFailed
    <3>2. CASE ~OrderFailed(r)
      <4>1. CASE AddUnpriced(r) \/ RegisterReturn(r) \/ LoginReturn(r) \/ AddressReturn(r)
        BY <1>q, <4>1 DEF AddUnpriced, RegisterReturn, LoginReturn, AddressReturn, history
      <4>2. CASE AddPriced(r) \/ UpdatePriced(r) \/ OrderConfirmed(r)
        BY <1>q, <4>2 DEF AddPriced, UpdatePriced, OrderConfirmed
      <4> QED BY <1>3, <2>1, <3>2, <4>1, <4>2 DEF Continue
    <3> QED BY <3>1, <3>2
  <2>3. SerialInv
    BY <2>2 DEF Quiet
  <2> QED BY <1>3, <2>1, <2>3, SerialAdd, SerialUpdate, SerialReturns, SerialConfirmed DEF Continue
<1>4. ASSUME NEW r \in Requests, OrderHandled(r) PROVE SerialInv'
  <2>1. SerialInv
    BY <1>q, <1>4 DEF OrderHandled, history, Quiet
  <2> QED BY <1>4, <2>1, SerialHandled
<1>5. CASE Restart
  BY <1>q, <1>5 DEF Restart
<1>6. CASE CookieExpires
  <2>1. UNCHANGED overlapped /\ disturbed' = (disturbed \/ \E q \in Requests : InFlight(q))
    BY <1>6 DEF CookieExpires
  <2>2. ~overlapped /\ ~disturbed /\ \A q \in Requests : ~InFlight(q)
    BY <1>q, <2>1, Zenon
  <2> QED BY <1>6, <2>2, SerialExpires DEF Quiet
<1> QED BY <1>1, <1>2, <1>3, <1>4, <1>5, <1>6 DEF Next

(* The two invariants of the storefront, along the whole front office.                         *)
LEMMA StoreServed == FrontOfficeSpec => [](StoreInv /\ Flags /\ (Quiet => SerialInv))
<1>1. FrontOfficeInit => StoreInv /\ Flags /\ (Quiet => SerialInv)
  BY StoreInit, SerialInit DEF FrontOfficeInit, Init, Flags
<1>2. StoreInv /\ Flags /\ [FrontOfficeNext]_frontOfficeVars => StoreInv' /\ Flags'
  BY StorefrontAlone, StoreStep, FlagsStep
<1>3. StoreInv /\ StoreInv' /\ Flags /\ (Quiet => SerialInv) /\ [FrontOfficeNext]_frontOfficeVars
          => (Quiet => SerialInv)'
  BY StorefrontAlone, SerialStep
<1> QED BY <1>1, <1>2, <1>3, PTL DEF FrontOfficeSpec

(* As long as the browser's requests do not overlap, no answer is lost and the process lives,  *)
(* the cart page shows of every SKU exactly what cart_add, cart_update and cart_remove told    *)
(* the customer, nothing once the cookie has expired (persist_session), and the order that      *)
(* checkout_submit posts is exactly that.                                                        *)
THEOREM CartStaysAsWanted == FrontOfficeSpec => []CartIsWhatWasWanted
<1>1. StoreInv /\ Flags /\ (Quiet => SerialInv) => CartIsWhatWasWanted
  <2> SUFFICES ASSUME StoreInv, SerialInv
               PROVE  /\ \A sku \in Skus :
                             Shown(sku) = IF wanted[sku] = 0 THEN {} ELSE {wanted[sku]}
                      /\ \A r \in Requests : req[r].stage = "ordering" =>
                             order[r].lines = WantedLines
    BY DEF CartIsWhatWasWanted, WantedLines, Quiet
  <2>1. CartHolds /\ wanted \in [Skus -> Nat] /\ None \notin Requests
    BY FreshRequest DEF SerialInv, StoreInv, StoreTypes
  <2>2. ASSUME NEW sku \in Skus
        PROVE  Shown(sku) = IF wanted[sku] = 0 THEN {} ELSE {wanted[sku]}
    <3>1. CASE cookie = None
      BY <2>1, <3>1 DEF Shown, CartHolds
    <3>2. CASE cookie # None
      <4>1. Shown(sku) = {line[i].quantity : i \in {j \in lines[CurrentCart] : line[j].sku = sku}}
        BY <2>1, <3>2 DEF Shown, Matching, Cart, CurrentCart, CartHolds
      <4>2. \A i \in lines[CurrentCart] : line[i].quantity = wanted[line[i].sku]
                                          /\ line[i].quantity >= 1
        BY <2>1, <3>2, CurrentFacts DEF CartHolds
      <4>3. wanted[sku] > 0 => \E i \in lines[CurrentCart] : line[i].sku = sku
        BY <2>1, <3>2 DEF CartHolds
      <4>4. \A x \in Shown(sku) : x = wanted[sku] /\ wanted[sku] # 0
        BY <2>1, <4>1, <4>2
      <4>5. wanted[sku] # 0 => wanted[sku] \in Shown(sku)
        BY <2>1, <4>1, <4>2, <4>3
      <4> QED BY <4>4, <4>5
    <3> QED BY <3>1, <3>2
  <2>3. ASSUME NEW r \in Requests, req[r].stage = "ordering" PROVE order[r].lines = WantedLines
    BY <2>3 DEF SerialInv, InFlight, Idle, Serving
  <2> QED BY <2>2, <2>3
<1> QED BY <1>1, StoreServed, PTL

-----------------------------------------------------------------------------
(* The storefront as long as requests do not overlap, whatever answers are lost and whatever    *)
(* sessions and tokens are gone.                                                                 *)

(* An order that the customer has not been told is lost.                                       *)
Confirmed(q) == req[q].stage = "done" /\ order[q].state \in {"sent", "placed"}

Spent(l) == \E q \in Requests : Confirmed(q) /\ order[q].list = l

(* What the only request under way knows, even if its token is gone.                           *)
Using(r, h) ==
    /\ h.stage \in CheckingOut => h.list = session[h.session].cart
    /\ h.stage \in {"registering", "logging_in"} => ~session[h.session].customer
    /\ h.stage = "addressing" =>
           session[h.session].customer /\ addresses + 1 <= Cardinality(Known)
    /\ h.stage = "ordering" => order[r].list = h.list

OrdersMade ==
    \A q \in Requests : order[q].state # "none" =>
        /\ req[q].stage \in {"ordering", "done", "failed"}
        /\ order[q].list \in Requests /\ req[order[q].list].stage = "done"

OnceInv ==
    /\ \A q, r \in Requests : InFlight(q) /\ InFlight(r) => q = r
    /\ \A r \in Requests : InFlight(r) =>
           Using(r, req[r]) /\ ~Spent(session[req[r].session].cart)
    /\ OrdersMade
    /\ cookie # None /\ store[cookie] # None => ~Spent(CurrentCart)
    /\ \A q, r \in Requests :
           Confirmed(q) /\ Confirmed(r) /\ order[q].list = order[r].list => q = r
    /\ IsFiniteSet(Known) /\ addresses <= Cardinality(Known)

LEMMA OnceInit == Init => OnceInv
<1> SUFFICES ASSUME Init PROVE OnceInv
  OBVIOUS
<1>1. /\ \A r \in Requests : ~InFlight(r)
      /\ cookie = None /\ addresses = 0 /\ \A r \in Requests : order[r].state = "none"
  BY FreshRequest DEF Init, InFlight, Idle
<1>2. Known = {}
  BY DEF Init, Known
<1> QED BY <1>1, <1>2, FS_EmptySet DEF OnceInv, OrdersMade, Confirmed

(* Orders that are confirmed stay what they are.                                               *)
LEMMA SpentStays ==
  ASSUME \A q \in Requests : Confirmed(q)' => Confirmed(q) /\ order'[q].list = order[q].list
  PROVE  /\ \A l : Spent(l)' => Spent(l)
         /\ (\A q, r \in Requests :
                Confirmed(q) /\ Confirmed(r) /\ order[q].list = order[r].list => q = r)
            => (\A q, r \in Requests :
                   Confirmed(q)' /\ Confirmed(r)' /\ order'[q].list = order'[r].list => q = r)
<1>1. ASSUME NEW l, Spent(l)' PROVE Spent(l)
  BY <1>1 DEF Spent
<1> QED BY <1>1

(* A list nobody has made yet, and the list that a request loads, are free.                    *)
LEMMA FreeLists ==
  ASSUME StoreInv, OnceInv, NEW r \in Requests, req[r].stage # "done"
  PROVE  /\ ~Spent(r) /\ \A q \in Requests : order[q].state # "none" => order[q].list # r
         /\ ~Spent(session[Loaded(r)].cart)
<1>1. \A q \in Requests : order[q].state # "none" => order[q].list # r
  BY DEF OnceInv, OrdersMade
<1>2. ~Spent(r)
  BY <1>1 DEF Spent, Confirmed
<1>3. CASE cookie # None /\ store[cookie] # None
  BY <1>1, <1>2, <1>3 DEF OnceInv, Loaded, CurrentCart
<1>4. CASE ~(cookie # None /\ store[cookie] # None)
  <2>1. Loaded(r) = r
    BY <1>4 DEF Loaded
  <2> QED BY <1>1, <1>2, <2>1 DEF StoreInv, Objects
<1> QED BY <1>1, <1>2, <1>3, <1>4

(* The request r moves on and stores nothing.                                                  *)
LEMMA OnceMoves ==
  ASSUME StoreInv, OnceInv, NEW r \in Requests, NEW h \in Request, req' = [req EXCEPT ![r] = h],
         req[r].stage \notin {"done", "failed"}, \A q \in Requests : q # r => ~InFlight(q),
         UNCHANGED <<cookie, store>>, \A s \in Requests : session'[s].cart = session[s].cart,
         h.stage \notin Idle =>
             Using(r, h)' /\ h.session \in Requests /\ ~Spent(session[h.session].cart),
         h.stage = "done" => order'[r].state \in {"none", "refused"},
         \A q \in Requests : q # r => order'[q] = order[q],
         order'[r].state # "none" =>
             /\ h.stage \in {"ordering", "done", "failed"}
             /\ order'[r].list \in Requests /\ req[order'[r].list].stage = "done",
         IsFiniteSet(Known'), addresses' <= Cardinality(Known')
  PROVE  OnceInv'
<1>1. /\ req'[r] = h /\ \A q \in Requests : q # r => req'[q] = req[q]
      /\ \A q \in Requests : req[q].stage = "done" => req'[q].stage = "done"
  BY DEF StoreInv, StoreTypes
<1>2. \A q \in Requests : Confirmed(q)' => Confirmed(q) /\ order'[q].list = order[q].list
  BY <1>1 DEF Confirmed
<1>3. /\ \A l : Spent(l)' => Spent(l)
      /\ \A q, p \in Requests :
             Confirmed(q)' /\ Confirmed(p)' /\ order'[q].list = order'[p].list => q = p
  BY <1>2, SpentStays DEF OnceInv
<1>4. ASSUME NEW q \in Requests, InFlight(q)'
      PROVE  q = r /\ Using(q, req[q])' /\ ~Spent(session[req[q].session].cart)'
  <2>1. q = r /\ h.stage \notin Idle
    BY <1>1, <1>4 DEF InFlight
  <2>2. PICK l : l = session[h.session].cart /\ l = session'[h.session].cart
    BY <2>1
  <2>3. ~Spent(l)'
    BY <1>3, <2>1, <2>2
  <2> QED BY <1>1, <2>1, <2>2, <2>3 DEF Using, Spent
<1>5. OrdersMade'
  <2>1. ASSUME NEW q \in Requests, order'[q].state # "none"
        PROVE  /\ req'[q].stage \in {"ordering", "done", "failed"}
               /\ order'[q].list \in Requests /\ req'[order'[q].list].stage = "done"
    <3>1. CASE q = r
      BY <1>1, <2>1, <3>1
    <3>2. CASE q # r
      BY <1>1, <2>1, <3>2 DEF OnceInv, OrdersMade
    <3> QED BY <3>1, <3>2
  <2> QED BY <2>1 DEF OrdersMade
<1>6. ASSUME cookie' # None, store'[cookie'] # None PROVE ~Spent(CurrentCart)'
  <2>1. store[cookie] \in Requests
    BY <1>6 DEF StoreInv, StoreTypes, Reference
  <2>2. PICK l : l = CurrentCart /\ l = CurrentCart'
    BY <2>1 DEF CurrentCart
  <2>3. ~Spent(l)
    BY <1>6, <2>2 DEF OnceInv
  <2>4. ~Spent(l)'
    BY <1>3, <2>3
  <2> QED BY <2>2, <2>4 DEF Spent
<1> QED BY <1>3, <1>4, <1>5, <1>6 DEF OnceInv

(* A request is done and stores its session, whose list is what it was or the request's own.   *)
LEMMA OnceStores ==
  ASSUME StoreInv, OnceInv, NEW r \in Requests, req[r].stage \notin {"done", "failed"},
         \A q \in Requests : q # r => ~InFlight(q), Finish(r, "done"),
         NEW token \in Reference, NEW s \in Requests, Persist(r, token, s),
         UNCHANGED <<addresses, order>>, session'[s].cart \in {session[s].cart, r},
         \A q \in Requests : session'[q].customer = session[q].customer,
         ~Spent(session[s].cart),
         order[r].state # "none" => order[r].list = session[s].cart /\ session'[s].cart = r
  PROVE  OnceInv'
<1>1. PICK h : h = [NoRequest EXCEPT !.stage = "done"]
  OBVIOUS
<1>2. h.stage = "done"
  BY <1>1, FreshRequest DEF Stage, Idle
<1>3. /\ req'[r] = h /\ \A q \in Requests : q # r => req'[q] = req[q]
  BY <1>1 DEF Finish, StoreInv, StoreTypes
<1>4. \A q \in Requests : ~InFlight(q)'
  BY <1>2, <1>3 DEF InFlight, Idle
<1>5. CurrentCart' = session'[s].cart
  <2>1. PICK used \in Requests : store' = [store EXCEPT ![used] = s] /\ cookie' = used
    BY PersistFacts
  <2>2. store'[cookie'] = s
    BY <2>1 DEF StoreInv, StoreTypes
  <2> QED BY <2>2 DEF CurrentCart
<1>6. OrdersMade'
  BY <1>2, <1>3 DEF OnceInv, OrdersMade
<1>7. /\ \A q \in Requests : q # r => (Confirmed(q)' <=> Confirmed(q))
      /\ \A q \in Requests : order[q].state # "none" => order[q].list # r
  BY <1>3, FreeLists DEF Confirmed
<1>8. ~Spent(CurrentCart)'
  <2> SUFFICES ASSUME NEW q \in Requests, Confirmed(q)', order[q].list = session'[s].cart
               PROVE  FALSE
    BY <1>5 DEF Spent
  <2>1. order[q].state # "none"
    BY DEF Confirmed
  <2>2. session'[s].cart = session[s].cart /\ q # r
    BY <1>7, <2>1
  <2> QED BY <1>7, <2>2 DEF Spent
<1>9. ASSUME NEW p \in Requests, NEW q \in Requests, Confirmed(p)', Confirmed(q)',
             order[p].list = order[q].list
      PROVE  p = q
  <2>1. order[p].state # "none" /\ order[q].state # "none"
    BY <1>9 DEF Confirmed
  <2>2. CASE p # r /\ q # r
    BY <1>7, <1>9, <2>2 DEF OnceInv
  <2>3. CASE p = r /\ q # r
    BY <1>7, <1>9, <2>1, <2>3 DEF Spent
  <2>4. CASE p # r /\ q = r
    BY <1>7, <1>9, <2>1, <2>4 DEF Spent
  <2> QED BY <2>2, <2>3, <2>4
<1>10. Known' = Known
  BY DEF Known
<1> QED BY <1>4, <1>6, <1>8, <1>9, <1>10 DEF OnceInv

(* What a request under way relies on.                                                         *)
LEMMA OnceAlone ==
  ASSUME StoreInv, OnceInv, NEW r \in Requests, InFlight(r)
  PROVE  /\ Using(r, req[r]) /\ ~Spent(session[req[r].session].cart)
         /\ \A q \in Requests : q # r => ~InFlight(q)
         /\ req[r].stage \notin Idle /\ req[r].stage \notin {"done", "failed"}
         /\ req[r] \in Request /\ HoldsOK(r, req[r])
         /\ req[r].session \in Requests /\ req[r].token \in Reference
         /\ order[r].state # "none" => req[r].stage = "ordering"
<1>1. req[r] \in Request /\ HoldsOK(r, req[r]) /\ req[r].stage \notin Idle
  BY DEF InFlight, StoreInv, StoreTypes
<1>2. req[r].stage \notin {"done", "failed"} /\ req[r].session \in Requests
      /\ req[r].token \in Reference
  BY <1>1 DEF Idle, HoldsOK, Request
<1> QED BY <1>1, <1>2 DEF OnceInv, OrdersMade

(* Requests that begin and read the cart.                                                      *)
LEMMA OnceStarts ==
  ASSUME StoreInv, StoreInv', OnceInv, NEW r \in Requests, ~overlapped',
         \/ \E sku \in Skus, quantity \in Quantities :
                AddLoad(r, sku, quantity) \/ UpdateLoad(r, sku, quantity)
         \/ CheckoutLoad(r)
  PROVE  OnceInv'
<1>1. /\ \E h : Begin(r, h)
      /\ UNCHANGED <<cookie, store, session, lines, line, account, addresses, wanted>>
  BY DEF AddLoad, UpdateLoad, CheckoutLoad, heap, services
<1>2. req[r].stage = "new" /\ \A q \in Requests : ~InFlight(q)
  BY <1>1, SerialBegins
<1>3. /\ order[r].state = "none" /\ Loaded(r) \in Requests
      /\ ~Spent(session[Loaded(r)].cart) /\ Known' = Known
      /\ session[Loaded(r)].cart \in Requests
  <2>1. ~Spent(session[Loaded(r)].cart) /\ Loaded(r) \in Requests
    BY <1>2, FreeLists, LoadedFacts
  <2>2. order[r].state = "none" /\ Known' = Known
    BY <1>1, <1>2 DEF OnceInv, OrdersMade, Known
  <2> QED BY <2>1, <2>2 DEF StoreInv, StoreTypes
<1>h. \A stage \in Stage : /\ Held(r, stage) \in Request /\ Held(r, stage).stage = stage
                           /\ Held(r, stage).session = Loaded(r)
  BY HeldFacts
<1>q. ASSUME NEW h, Begin(r, h), h.session = Loaded(r),
             h.stage \in {"pricing_add", "pricing_update", "registering", "ordering"},
             h.stage \in CheckingOut => h.list = session[Loaded(r)].cart,
             h.stage = "registering" => ~session[Loaded(r)].customer,
             \A q \in Requests : q # r => order'[q] = order[q],
             h.stage # "ordering" => order'[r] = order[r],
             h.stage = "ordering" => order'[r].list = h.list /\ req[h.list].stage = "done"
      PROVE  OnceInv'
  <2>1. req' = [req EXCEPT ![r] = h] /\ h \in Request
    <3>1. req' = [req EXCEPT ![r] = h]
      BY <1>q DEF Begin
    <3> QED BY <3>1 DEF StoreInv, StoreTypes
  <2>2. Using(r, h)'
    BY <1>1, <1>q DEF Using, CheckingOut
  <2>3. order'[r].state # "none" => h.stage = "ordering" /\ order'[r].list \in Requests
                                    /\ req[order'[r].list].stage = "done"
    BY <1>3, <1>q DEF CheckingOut
  <2>4. h.stage \notin {"done", "new", "failed"}
    BY <1>q
  <2>5. IsFiniteSet(Known') /\ addresses' <= Cardinality(Known')
    BY <1>1, <1>3 DEF OnceInv
  <2> QED BY <1>1, <1>2, <1>3, <1>q, <2>1, <2>2, <2>3, <2>4, <2>5, OnceMoves DEF Idle
<1>4. ASSUME NEW sku \in Skus, NEW quantity \in Quantities, AddLoad(r, sku, quantity)
      PROVE  OnceInv'
  <2>1. PICK h : h = [Held(r, "pricing_add") EXCEPT !.sku = sku, !.quantity = quantity]
    OBVIOUS
  <2>2. Begin(r, h) /\ UNCHANGED order
    BY <1>4, <2>1 DEF AddLoad, services
  <2>3. PICK g \in Request : /\ g = Held(r, "pricing_add") /\ g.stage = "pricing_add"
                             /\ g.session = Loaded(r)
    BY <1>h DEF Stage
  <2>4. h.stage = "pricing_add" /\ h.session = Loaded(r)
    BY <2>1, <2>3 DEF Request
  <2> QED BY <1>q, <2>2, <2>4 DEF CheckingOut
<1>5. ASSUME NEW sku \in Skus, NEW quantity \in Quantities, UpdateLoad(r, sku, quantity)
      PROVE  OnceInv'
  <2>1. PICK i : Begin(r, [Held(r, "pricing_update") EXCEPT !.line = i, !.sku = sku,
                                                            !.quantity = quantity])
    BY <1>5 DEF UpdateLoad
  <2>2. PICK h : h = [Held(r, "pricing_update") EXCEPT !.line = i, !.sku = sku,
                                                       !.quantity = quantity]
    OBVIOUS
  <2>3. Begin(r, h) /\ UNCHANGED order
    BY <1>5, <2>1, <2>2 DEF UpdateLoad, services
  <2>4. PICK g \in Request : /\ g = Held(r, "pricing_update") /\ g.stage = "pricing_update"
                             /\ g.session = Loaded(r)
    BY <1>h DEF Stage
  <2>5. h.stage = "pricing_update" /\ h.session = Loaded(r)
    BY <2>2, <2>4 DEF Request
  <2> QED BY <1>q, <2>3, <2>5 DEF CheckingOut
<1>6. CASE CheckoutLoad(r)
  <2>1. PICK s \in Requests, l \in Requests : s = Loaded(r) /\ l = session[s].cart
    BY <1>3
  <2>2. /\ lines[l] # {}
        /\ IF session[s].customer
           THEN Begin(r, [Held(r, "ordering") EXCEPT !.list = l]) /\ SendOrder(r, l)
           ELSE Begin(r, [Held(r, "registering") EXCEPT !.list = l]) /\ UNCHANGED order
    BY <1>6, <2>1 DEF CheckoutLoad, Cart
  <2>3. req[l].stage = "done"
    BY <2>2 DEF StoreInv, Objects
  <2>4. CASE session[s].customer
    <3>1. PICK h : h = [Held(r, "ordering") EXCEPT !.list = l]
      OBVIOUS
    <3>2. PICK g \in Request : /\ g = Held(r, "ordering") /\ g.stage = "ordering"
                               /\ g.session = Loaded(r)
      BY <1>h DEF Stage
    <3>3. h.stage = "ordering" /\ h.session = Loaded(r) /\ h.list = l
      BY <3>1, <3>2 DEF Request
    <3>4. Begin(r, h) /\ SendOrder(r, l)
      BY <2>2, <2>4, <3>1
    <3>5. account /\ account'
      BY <1>1, <2>1, <2>4 DEF StoreInv, CustomersKnown
    <3>6. order'[r].list = l /\ \A q \in Requests : q # r => order'[q] = order[q]
      BY <2>2, <3>4, <3>5, SentOrder
    <3> QED BY <1>q, <2>1, <2>3, <3>3, <3>4, <3>6
  <2>5. CASE ~session[s].customer
    <3>1. PICK h : h = [Held(r, "registering") EXCEPT !.list = l]
      OBVIOUS
    <3>2. PICK g \in Request : /\ g = Held(r, "registering") /\ g.stage = "registering"
                               /\ g.session = Loaded(r)
      BY <1>h DEF Stage
    <3>3. h.stage = "registering" /\ h.session = Loaded(r) /\ h.list = l
      BY <3>1, <3>2 DEF Request
    <3>4. Begin(r, h) /\ UNCHANGED order
      BY <2>2, <2>5, <3>1
    <3> QED BY <1>q, <2>1, <2>5, <3>3, <3>4
  <2> QED BY <2>2, <2>4, <2>5
<1> QED BY <1>4, <1>5, <1>6

(* A request ends and stores nothing.                                                          *)
LEMMA OnceEnds ==
  ASSUME StoreInv, OnceInv, NEW r \in Requests, InFlight(r),
         NEW final \in {"done", "failed"}, Finish(r, final),
         UNCHANGED <<cookie, store, session, order>>,
         final = "done" => order[r].state \in {"none", "refused"},
         addresses' <= Cardinality(Known)
  PROVE  OnceInv'
<1>1. PICK h \in Request : h = [NoRequest EXCEPT !.stage = final] /\ h.stage = final
  BY FreshRequest DEF Stage, Idle
<1>2. req' = [req EXCEPT ![r] = h]
  BY <1>1 DEF Finish
<1>3. /\ \A q \in Requests : q # r => ~InFlight(q)
      /\ req[r].stage \notin {"done", "failed"} /\ h.stage \in Idle
  BY <1>1, OnceAlone DEF Idle
<1>4. Known' = Known /\ IsFiniteSet(Known)
  BY DEF Known, OnceInv
<1>5. order'[r].state # "none" => order'[r].list \in Requests
                                  /\ req[order'[r].list].stage = "done"
  BY DEF OnceInv, OrdersMade
<1>6. \A s \in Requests : session'[s].cart = session[s].cart
  OBVIOUS
<1> QED BY <1>1, <1>2, <1>3, <1>4, <1>5, <1>6, OnceMoves

(* A checkout goes on to the stage that follows.                                               *)
LEMMA OnceAdvances ==
  ASSUME StoreInv, OnceInv, NEW r \in Requests, InFlight(r),
         NEW stage \in {"logging_in", "addressing", "ordering"}, Advance(r, stage),
         req[r].stage \in {"registering", "logging_in", "addressing"},
         UNCHANGED <<cookie, store, lines, line>>,
         \A s \in Requests : session'[s].cart = session[s].cart,
         stage = "logging_in" => UNCHANGED session /\ ~session[req[r].session].customer,
         stage = "addressing" => session'[req[r].session].customer
                                 /\ addresses' + 1 <= Cardinality(Known'),
         stage = "ordering" => SendOrder(r, req[r].list) /\ account /\ account',
         stage # "ordering" => UNCHANGED order,
         IsFiniteSet(Known'), addresses' <= Cardinality(Known')
  PROVE  OnceInv'
<1>a. /\ Using(r, req[r]) /\ ~Spent(session[req[r].session].cart)
      /\ \A q \in Requests : q # r => ~InFlight(q)
      /\ req[r].stage \notin {"done", "failed"} /\ req[r] \in Request /\ HoldsOK(r, req[r])
      /\ req[r].session \in Requests /\ order[r].state = "none"
  BY OnceAlone
<1>1. PICK old \in Request : old = req[r]
  BY <1>a
<1>2. PICK h : h = [old EXCEPT !.stage = stage]
  OBVIOUS
<1>3. /\ h \in Request /\ h.stage = stage /\ h.session = old.session /\ h.list = old.list
  BY <1>2 DEF Request, Stage
<1>4. req' = [req EXCEPT ![r] = h]
  <2>1. req' = [req EXCEPT ![r] = [req[r] EXCEPT !.stage = stage]]
    BY DEF Advance
  <2> QED BY <1>1, <1>2, <2>1
<1>5. /\ h.list \in Requests /\ lines[h.list] # {} /\ req[h.list].stage = "done"
      /\ h.list = session[h.session].cart
  <2>1. h.list \in Requests /\ lines[h.list] # {}
    BY <1>a, <1>1, <1>3 DEF HoldsOK, CheckingOut
  <2> QED BY <1>a, <1>1, <1>3, <2>1 DEF Using, CheckingOut, StoreInv, Objects
<1>6. /\ \A q \in Requests : q # r => order'[q] = order[q]
      /\ stage = "ordering" => order'[r].list = h.list
      /\ stage # "ordering" => order'[r] = order[r]
  <2>1. CASE stage = "ordering"
    <3>1. SendOrder(r, h.list) /\ account'
      BY <1>1, <1>3, <2>1
    <3> QED BY <1>5, <2>1, <3>1, SentOrder
  <2>2. CASE stage # "ordering"
    BY <2>2
  <2> QED BY <2>1, <2>2
<1>7. Using(r, h)'
  BY <1>a, <1>1, <1>3, <1>5, <1>6 DEF Using, CheckingOut
<1>8. order'[r].state # "none" => /\ h.stage = "ordering" /\ order'[r].list \in Requests
                                  /\ req[order'[r].list].stage = "done"
  BY <1>a, <1>3, <1>5, <1>6
<1> QED BY <1>a, <1>1, <1>3, <1>4, <1>6, <1>7, <1>8, OnceMoves

LEMMA KnownGrows ==
  ASSUME StoreInv, OnceInv, NEW r \in Requests, req[r].session \in Requests, KnowCustomer(r),
         ~session[req[r].session].customer
  PROVE  /\ session'[req[r].session].customer /\ IsFiniteSet(Known')
         /\ Cardinality(Known') = Cardinality(Known) + 1 /\ Cardinality(Known) \in Nat
         /\ \A s \in Requests : session'[s].cart = session[s].cart
<1>1. PICK s \in Requests : s = req[r].session
  OBVIOUS
<1>2. session' = [session EXCEPT ![s].customer = TRUE]
  BY <1>1 DEF KnowCustomer
<1>t. session \in [Requests -> [cart : Requests, customer : BOOLEAN]]
  BY DEF StoreInv, StoreTypes
<1>3. /\ session'[s].customer /\ \A q \in Requests : session'[q].cart = session[q].cart
      /\ \A q \in Requests : q # s => session'[q] = session[q]
  BY <1>2, <1>t
<1>4. Known' = Known \cup {s} /\ s \notin Known
  BY <1>1, <1>3 DEF Known
<1>5. IsFiniteSet(Known)
  BY DEF OnceInv
<1> QED BY <1>1, <1>3, <1>4, <1>5, FS_AddElement, FS_CardinalityType

LEMMA OnceReturns ==
  ASSUME StoreInv, OnceInv, NEW r \in Requests,
         \/ AddUnpriced(r) \/ RegisterReturn(r) \/ LoginReturn(r) \/ AddressReturn(r)
         \/ OrderFailed(r) \/ TimeOut(r)
  PROVE  OnceInv'
<1>1. InFlight(r)
  BY DEF AddUnpriced, RegisterReturn, LoginReturn, AddressReturn, OrderFailed, TimeOut, InFlight, Idle
<1>a. /\ Using(r, req[r]) /\ HoldsOK(r, req[r]) /\ req[r].session \in Requests
      /\ order[r].state # "none" => req[r].stage = "ordering"
  BY <1>1, OnceAlone
<1>u. UNCHANGED <<cookie, store, lines, line>>
  BY DEF AddUnpriced, RegisterReturn, LoginReturn, AddressReturn, OrderFailed, TimeOut, heap
<1>t. /\ addresses \in Nat /\ addresses <= Cardinality(Known) /\ IsFiniteSet(Known)
      /\ Cardinality(Known) \in Nat
  BY FS_CardinalityType DEF OnceInv, StoreInv, StoreTypes
<1>e. ASSUME NEW final \in {"done", "failed"}, Finish(r, final), UNCHANGED <<session, order>>,
             final = "done" => order[r].state \in {"none", "refused"},
             addresses' <= Cardinality(Known)
      PROVE  OnceInv'
  BY <1>1, <1>u, <1>e, OnceEnds
<1>d. ASSUME Finish(r, "done"), UNCHANGED <<session, order, addresses>>,
             req[r].stage \in {"pricing_add", "pricing_update", "registering", "logging_in"}
      PROVE  OnceInv'
  BY <1>a, <1>t, <1>d, <1>e
<1>k. ASSUME req[r].stage \in {"registering", "logging_in"}, KnowCustomer(r),
             Advance(r, "addressing"), UNCHANGED <<addresses, order>>
      PROVE  OnceInv'
  <2>1. ~session[req[r].session].customer
    BY <1>a, <1>k DEF Using
  <2>2. /\ session'[req[r].session].customer /\ IsFiniteSet(Known')
        /\ addresses' + 1 <= Cardinality(Known') /\ addresses' <= Cardinality(Known')
        /\ \A s \in Requests : session'[s].cart = session[s].cart
    BY <1>a, <1>k, <1>t, <2>1, KnownGrows
  <2> QED BY <1>1, <1>u, <1>k, <2>2, OnceAdvances
<1>2. CASE AddUnpriced(r)
  BY <1>d, <1>2 DEF AddUnpriced, heap, services
<1>3. CASE OrderFailed(r)
  <2>1. UNCHANGED <<session, order, addresses>>
    BY <1>3 DEF OrderFailed, heap, services
  <2>2. (Finish(r, "done") /\ order[r].state = "refused") \/ Finish(r, "failed")
    BY <1>3 DEF OrderFailed
  <2> QED BY <1>e, <1>t, <2>1, <2>2
<1>4. CASE RegisterReturn(r)
  <2>1. req[r].stage = "registering" /\ UNCHANGED <<addresses, order>>
    BY <1>4 DEF RegisterReturn
  <2>2. CASE KnowCustomer(r) /\ Advance(r, "addressing")
    BY <1>k, <2>1, <2>2
  <2>3. CASE Advance(r, "logging_in") /\ UNCHANGED session
    <3>1. ~session[req[r].session].customer
      BY <1>a, <2>1 DEF Using
    <3>2. Known' = Known
      BY <2>3 DEF Known
    <3> QED BY <1>1, <1>t, <1>u, <2>1, <2>3, <3>1, <3>2, OnceAdvances
  <2>4. CASE Finish(r, "done") /\ UNCHANGED session
    BY <1>d, <2>1, <2>4
  <2> QED BY <1>4, <2>2, <2>3, <2>4 DEF RegisterReturn
<1>5. CASE LoginReturn(r)
  <2>1. req[r].stage = "logging_in" /\ UNCHANGED <<addresses, order>>
    BY <1>5 DEF LoginReturn, services
  <2>2. CASE KnowCustomer(r) /\ Advance(r, "addressing")
    BY <1>k, <2>1, <2>2
  <2>3. CASE Finish(r, "done") /\ UNCHANGED session
    BY <1>d, <2>1, <2>3
  <2> QED BY <1>5, <2>2, <2>3 DEF LoginReturn
<1>6. CASE AddressReturn(r)
  <2>1. /\ req[r].stage = "addressing" /\ addresses' \in {addresses, addresses + 1}
        /\ SendOrder(r, req[r].list) /\ Advance(r, "ordering")
        /\ UNCHANGED <<session, account>>
    BY <1>6 DEF AddressReturn, heap
  <2>2. account /\ account' /\ addresses' <= Cardinality(Known)
    BY <1>a, <1>t, <2>1 DEF Using, HoldsOK
  <2>3. Known' = Known
    BY <2>1 DEF Known
  <2> QED BY <1>1, <1>t, <1>u, <2>1, <2>2, <2>3, OnceAdvances
<1>7. CASE TimeOut(r)
  <2>1. /\ addresses' \in {addresses, addresses + (IF req[r].stage = "addressing" THEN 1 ELSE 0)}
        /\ Finish(r, "failed") /\ UNCHANGED <<session, order>>
    BY <1>7 DEF TimeOut, heap
  <2>2. addresses' <= Cardinality(Known)
    BY <1>a, <1>t, <2>1 DEF Using
  <2> QED BY <1>e, <2>1, <2>2
<1> QED BY <1>2, <1>3, <1>4, <1>5, <1>6, <1>7

(* Requests that store the session.                                                            *)
LEMMA OnceSaves ==
  ASSUME StoreInv, OnceInv, NEW r \in Requests,
         AddPriced(r) \/ UpdatePriced(r) \/ OrderConfirmed(r)
  PROVE  OnceInv'
<1>1. InFlight(r)
  BY DEF AddPriced, UpdatePriced, OrderConfirmed, InFlight, Idle
<1>a. /\ Using(r, req[r]) /\ ~Spent(session[req[r].session].cart)
      /\ \A q \in Requests : q # r => ~InFlight(q)
      /\ req[r].stage \notin {"done", "failed"}
      /\ req[r].session \in Requests /\ req[r].token \in Reference
      /\ order[r].state # "none" => req[r].stage = "ordering"
  BY <1>1, OnceAlone
<1>2. PICK s \in Requests, token \in Reference : s = req[r].session /\ token = req[r].token
  BY <1>a
<1>3. Finish(r, "done") /\ Persist(r, token, s) /\ UNCHANGED <<addresses, order>>
  BY <1>2 DEF AddPriced, UpdatePriced, OrderConfirmed, services
<1>4. CASE AddPriced(r) \/ UpdatePriced(r)
  <2>1. UNCHANGED session /\ order[r].state = "none"
    BY <1>a, <1>4 DEF AddPriced, UpdatePriced
  <2>2. /\ session'[s].cart = session[s].cart
        /\ \A q \in Requests : session'[q].customer = session[q].customer
    BY <2>1
  <2> QED BY <1>a, <1>2, <1>3, <2>1, <2>2, OnceStores
<1>5. CASE OrderConfirmed(r)
  <2>1. session' = [session EXCEPT ![s].cart = r] /\ req[r].stage = "ordering"
    BY <1>2, <1>5 DEF OrderConfirmed
  <2>2. /\ session'[s].cart = r
        /\ \A q \in Requests : session'[q].customer = session[q].customer
    <3>1. PICK x : x = [session[s] EXCEPT !.cart = r]
      OBVIOUS
    <3>2. session \in [Requests -> [cart : Requests, customer : BOOLEAN]]
      BY DEF StoreInv, StoreTypes
    <3>3. x.cart = r /\ x.customer = session[s].customer
      BY <3>1, <3>2
    <3>4. session' = [session EXCEPT ![s] = x]
      BY <2>1, <3>1
    <3> QED BY <3>2, <3>3, <3>4
  <2>3. order[r].list = session[s].cart
    BY <1>a, <1>2, <2>1 DEF Using, CheckingOut
  <2> QED BY <1>a, <1>2, <1>3, <2>2, <2>3, OnceStores
<1> QED BY <1>4, <1>5

(* Requests that take something off the cart at once, or nothing.                              *)
LEMMA OnceRemoves ==
  ASSUME StoreInv, OnceInv, ~overlapped', NEW r \in Requests, NEW sku \in Skus,
         Remove(r, sku) \/ UpdateNothing(r, sku)
  PROVE  OnceInv'
<1>1. PICK s \in Requests, token \in Reference : s = Loaded(r) /\ token = cookie
  BY LoadedFacts DEF StoreInv, StoreTypes
<1>2. Begin(r, [NoRequest EXCEPT !.stage = "done"]) /\ Persist(r, token, s)
      /\ UNCHANGED <<addresses, order>>
  BY <1>1 DEF Remove, UpdateNothing, services
<1>3. req[r].stage = "new" /\ Finish(r, "done") /\ \A q \in Requests : ~InFlight(q)
  BY <1>2, SerialBegins DEF Finish
<1>4. ~Spent(session[s].cart) /\ order[r].state = "none"
  BY <1>1, <1>3, FreeLists DEF OnceInv, OrdersMade
<1>5. /\ session'[s].cart \in {session[s].cart, r}
      /\ \A q \in Requests : session'[q].customer = session[q].customer
  <2>1. CASE UNCHANGED session
    BY <2>1
  <2>2. CASE session' = [session EXCEPT ![s].cart = r]
    <3>1. PICK x : x = [session[s] EXCEPT !.cart = r]
      OBVIOUS
    <3>2. session \in [Requests -> [cart : Requests, customer : BOOLEAN]]
      BY DEF StoreInv, StoreTypes
    <3>3. x.cart = r /\ x.customer = session[s].customer
      BY <3>1, <3>2
    <3>4. session' = [session EXCEPT ![s] = x]
      BY <2>2, <3>1
    <3> QED BY <3>2, <3>3, <3>4
  <2> QED BY <1>1, <2>1, <2>2 DEF Remove, UpdateNothing, heap
<1> QED BY <1>2, <1>3, <1>4, <1>5, OnceStores

(* The order service answers.                                                                  *)
LEMMA OnceHandled ==
  ASSUME StoreInv, OnceInv, NEW r \in Requests, OrderHandled(r)
  PROVE  OnceInv'
<1>1. PICK outcome \in {"placed", "refused"} : order' = [order EXCEPT ![r].state = outcome]
  BY DEF OrderHandled
<1>2. /\ order[r].state = "sent" /\ order \in [Requests -> Order]
      /\ UNCHANGED <<cookie, store, session, req, addresses>>
  BY DEF OrderHandled, heap, StoreInv, StoreTypes
<1>3. /\ \A q \in Requests : order'[q].list = order[q].list
      /\ \A q \in Requests : order'[q].state \in {order[q].state, outcome}
      /\ \A q \in Requests : order'[q].state # order[q].state => order[q].state = "sent"
  <2>1. PICK o : o = [order[r] EXCEPT !.state = outcome]
    OBVIOUS
  <2>2. o.state = outcome /\ o.list = order[r].list
    BY <1>2, <2>1 DEF Order
  <2>3. order' = [order EXCEPT ![r] = o]
    BY <1>1, <2>1
  <2> QED BY <1>2, <2>2, <2>3
<1>4. \A q \in Requests : Confirmed(q)' => Confirmed(q) /\ order'[q].list = order[q].list
  BY <1>2, <1>3 DEF Confirmed
<1>5. /\ \A l : Spent(l)' => Spent(l)
      /\ \A q, p \in Requests :
             Confirmed(q)' /\ Confirmed(p)' /\ order'[q].list = order'[p].list => q = p
  BY <1>4, SpentStays DEF OnceInv
<1>6. CurrentCart' = CurrentCart /\ Known' = Known
  BY <1>2 DEF CurrentCart, Known
<1>7. ASSUME NEW q \in Requests, InFlight(q)'
      PROVE  Using(q, req[q])' /\ ~Spent(session[req[q].session].cart)'
  <2>1. Using(q, req[q]) /\ ~Spent(session[req[q].session].cart)
    BY <1>2, <1>7 DEF InFlight, OnceInv
  <2>2. PICK l : l = session[req[q].session].cart
    OBVIOUS
  <2>3. ~Spent(l)'
    BY <1>5, <2>1, <2>2
  <2> QED BY <1>2, <1>3, <1>6, <2>1, <2>2, <2>3 DEF Using, Spent
<1>8. OrdersMade'
  BY <1>2, <1>3 DEF OnceInv, OrdersMade
<1>9. ASSUME cookie' # None, store'[cookie'] # None PROVE ~Spent(CurrentCart)'
  <2>1. PICK l : l = CurrentCart /\ ~Spent(l)
    BY <1>2, <1>9 DEF OnceInv
  <2>2. ~Spent(l)'
    BY <1>5, <2>1
  <2> QED BY <1>6, <2>1, <2>2 DEF Spent
<1>10. \A p, q \in Requests : InFlight(p)' /\ InFlight(q)' => p = q
  BY <1>2 DEF OnceInv, InFlight
<1> QED BY <1>2, <1>5, <1>6, <1>7, <1>8, <1>9, <1>10 DEF OnceInv

(* Sessions or the token are gone; orders and customers are as they were.                      *)
LEMMA OnceForgets ==
  ASSUME StoreInv, OnceInv, Restart \/ CookieExpires
  PROVE  OnceInv'
<1>1. UNCHANGED <<session, order, addresses>>
  BY DEF Restart, CookieExpires, heap, services
<1>2. /\ \A q \in Requests : req'[q] = req[q] \/ (InFlight(q) /\ req'[q].stage = "failed")
      /\ cookie' # None => store'[cookie'] = None
  <2>1. CASE CookieExpires
    <3>1. cookie' = None /\ req' = req
      BY <2>1 DEF CookieExpires
    <3> QED BY <3>1
  <2>2. CASE Restart
    <3>1. PICK h : h = [NoRequest EXCEPT !.stage = "failed"]
      OBVIOUS
    <3>2. h.stage = "failed"
      BY <3>1, FreshRequest DEF Stage, Idle
    <3>3. req' = [q \in Requests |-> IF InFlight(q) THEN h ELSE req[q]]
      BY <2>2, <3>1 DEF Restart
    <3>4. cookie' # None => store'[cookie'] = None
      BY <2>2 DEF Restart, StoreInv, StoreTypes, Reference
    <3>5. ASSUME NEW q \in Requests
          PROVE  req'[q] = req[q] \/ (InFlight(q) /\ req'[q].stage = "failed")
      BY <3>2, <3>3
    <3> QED BY <3>4, <3>5
  <2> QED BY <2>1, <2>2
<1>3. /\ \A q \in Requests : InFlight(q)' => InFlight(q) /\ req'[q] = req[q]
      /\ \A q \in Requests : req[q].stage \in {"done", "failed"} => req'[q] = req[q]
      /\ \A q \in Requests : req'[q] # req[q] => req'[q].stage = "failed"
  BY <1>2 DEF InFlight, Idle
<1>4. \A q \in Requests : Confirmed(q)' => Confirmed(q) /\ order'[q].list = order[q].list
  BY <1>1, <1>3 DEF Confirmed
<1>5. /\ \A l : Spent(l)' => Spent(l)
      /\ \A q, p \in Requests :
             Confirmed(q)' /\ Confirmed(p)' /\ order'[q].list = order'[p].list => q = p
  BY <1>4, SpentStays DEF OnceInv
<1>6. Known' = Known
  BY <1>1 DEF Known
<1>7. ASSUME NEW q \in Requests, InFlight(q)'
      PROVE  Using(q, req[q])' /\ ~Spent(session[req[q].session].cart)'
  <2>1. /\ Using(q, req[q]) /\ ~Spent(session[req[q].session].cart) /\ req'[q] = req[q]
    BY <1>3, <1>7 DEF OnceInv
  <2>2. PICK l : l = session[req[q].session].cart
    OBVIOUS
  <2>3. ~Spent(l)'
    BY <1>5, <2>1, <2>2
  <2> QED BY <1>1, <1>6, <2>1, <2>2, <2>3 DEF Using, Spent
<1>8. OrdersMade'
  BY <1>1, <1>3 DEF OnceInv, OrdersMade
<1>9. \A p, q \in Requests : InFlight(p)' /\ InFlight(q)' => p = q
  BY <1>3 DEF OnceInv
<1> QED BY <1>1, <1>2, <1>5, <1>6, <1>7, <1>8, <1>9 DEF OnceInv

LEMMA OnceStep ==
  StoreInv /\ StoreInv' /\ (~overlapped => OnceInv) /\ [Next]_vars => (~overlapped' => OnceInv')
<1> SUFFICES ASSUME StoreInv, StoreInv', ~overlapped => OnceInv, [Next]_vars, ~overlapped'
             PROVE  OnceInv'
  OBVIOUS
<1>1. CASE UNCHANGED vars
  <2>1. UNCHANGED <<cookie, store, session, req, addresses, order, overlapped>>
    BY <1>1 DEF vars, heap, services, history
  <2>2. OnceInv
    BY <2>1
  <2>3. /\ CurrentCart' = CurrentCart /\ Known' = Known
        /\ \A q \in Requests : InFlight(q)' = InFlight(q) /\ Confirmed(q)' = Confirmed(q)
        /\ \A l : Spent(l)' = Spent(l)
    BY <2>1, Zenon DEF CurrentCart, Known, InFlight, Confirmed, Spent
  <2>4. ASSUME NEW q \in Requests, InFlight(q)'
        PROVE  Using(q, req[q])' /\ ~Spent(session[req[q].session].cart)'
    <3>1. Using(q, req[q]) /\ ~Spent(session[req[q].session].cart)
      BY <2>2, <2>3, <2>4 DEF OnceInv
    <3>2. PICK l : l = session[req[q].session].cart
      OBVIOUS
    <3>3. ~Spent(l)'
      BY <2>3, <3>1, <3>2
    <3> QED BY <2>1, <2>3, <3>1, <3>2, <3>3 DEF Using, Spent
  <2>5. OrdersMade'
    BY <2>1, <2>2 DEF OnceInv, OrdersMade
  <2>6. ASSUME cookie' # None, store'[cookie'] # None PROVE ~Spent(CurrentCart)'
    <3>1. PICK l : l = CurrentCart /\ ~Spent(l)
      BY <2>1, <2>2, <2>6 DEF OnceInv
    <3>2. ~Spent(l)'
      BY <2>3, <3>1
    <3> QED BY <2>3, <3>1, <3>2 DEF Spent
  <2>7. /\ \A p, q \in Requests : InFlight(p)' /\ InFlight(q)' => p = q
        /\ \A q, p \in Requests :
               Confirmed(q)' /\ Confirmed(p)' /\ order'[q].list = order'[p].list => q = p
    BY <2>1, <2>2, <2>3 DEF OnceInv
  <2> QED BY <2>1, <2>2, <2>3, <2>4, <2>5, <2>6, <2>7 DEF OnceInv
<1>2. ASSUME NEW r \in Requests, Start(r) PROVE OnceInv'
  <2>1. ~overlapped
    <3>1. ASSUME NEW h, Begin(r, h) PROVE ~overlapped
      BY <3>1, SerialBegins
    <3> QED BY <1>2, <3>1 DEF Start, AddLoad, UpdateLoad, Remove, UpdateNothing, CheckoutLoad
  <2>2. CASE (\E sku \in Skus, quantity \in Quantities :
                  AddLoad(r, sku, quantity) \/ UpdateLoad(r, sku, quantity)) \/ CheckoutLoad(r)
    BY <2>1, <2>2, OnceStarts
  <2>3. CASE \E sku \in Skus : Remove(r, sku) \/ UpdateNothing(r, sku)
    BY <2>1, <2>3, OnceRemoves
  <2> QED BY <1>2, <2>2, <2>3 DEF Start
<1>3. ASSUME NEW r \in Requests, Continue(r) PROVE OnceInv'
  <2>1. OnceInv
    BY <1>3, Zenon DEF Continue, AddPriced, AddUnpriced, UpdatePriced, RegisterReturn,
       LoginReturn, AddressReturn, OrderConfirmed, OrderFailed, TimeOut, history
  <2> QED BY <1>3, <2>1, OnceReturns, OnceSaves DEF Continue
<1>4. ASSUME NEW r \in Requests, OrderHandled(r) PROVE OnceInv'
  <2>1. OnceInv
    BY <1>4 DEF OrderHandled, history
  <2> QED BY <1>4, <2>1, OnceHandled
<1>5. CASE Restart \/ CookieExpires
  <2>1. OnceInv
    BY <1>5 DEF Restart, CookieExpires
  <2> QED BY <1>5, <2>1, OnceForgets
<1> QED BY <1>1, <1>2, <1>3, <1>4, <1>5 DEF Next

(* As long as the browser's requests do not overlap, but whatever answers are lost, cookies    *)
(* expire (persist_session) and processes die: of two orders that checkout_submit placed of      *)
(* one cart, at least one was reported to the customer as failed, and a session, which            *)
(* remembers its customer, adds at most one address.                                               *)
THEOREM OrderedOnlyOnce == FrontOfficeSpec => []OrderedOnce
<1>1. FrontOfficeInit => StoreInv /\ (~overlapped => OnceInv)
  BY StoreInit, OnceInit DEF FrontOfficeInit
<1>2. StoreInv /\ [FrontOfficeNext]_frontOfficeVars => StoreInv'
  BY StorefrontAlone, StoreStep
<1>3. StoreInv /\ StoreInv' /\ (~overlapped => OnceInv) /\ [FrontOfficeNext]_frontOfficeVars
          => (~overlapped => OnceInv)'
  BY StorefrontAlone, OnceStep
<1>4. StoreInv /\ (~overlapped => OnceInv) => OrderedOnce
  <2> SUFFICES ASSUME StoreInv, OnceInv, NEW q \in Requests, NEW r \in Requests, q # r,
                      order[q].list = order[r].list,
                      order[q].state = "placed", order[r].state = "placed",
                      req[q].stage # "failed", req[r].stage # "failed"
               PROVE  FALSE
    BY DEF OrderedOnce, OnceInv
  <2>1. /\ req[q].stage = "ordering" \/ Confirmed(q)
        /\ req[r].stage = "ordering" \/ Confirmed(r)
    BY DEF OnceInv, OrdersMade, Confirmed
  <2>2. ASSUME NEW x \in Requests, NEW y \in Requests, req[x].stage = "ordering", Confirmed(y),
               order[x].list = order[y].list
        PROVE  FALSE
    <3>1. InFlight(x)
      BY <2>2 DEF InFlight, Idle
    <3>2. order[x].list = session[req[x].session].cart /\ ~Spent(session[req[x].session].cart)
      BY <2>2, <3>1 DEF OnceInv, Using, CheckingOut
    <3> QED BY <2>2, <3>2 DEF Spent
  <2>3. ~(req[q].stage = "ordering" /\ req[r].stage = "ordering")
    BY DEF OnceInv, InFlight, Idle
  <2> QED BY <2>1, <2>2, <2>3 DEF OnceInv
<1> QED BY <1>1, <1>2, <1>3, <1>4, PTL DEF FrontOfficeSpec
=============================================================================
