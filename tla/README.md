# Verification of General Logistics Co

TLA+ models, TLC runs and TLAPS proofs about the services under `src/`: what their state may become when HTTP requests
overlap, die half-way or arrive in an unusual order, when messages are lost, and when containers and stores fail.
`PROJECT.json` lists every component, run, mutant, source line, hazard and theorem; this file explains them.

## 1. Inventory: the system's parts

Every service is a FastAPI application over SQLAlchemy's async session and its own PostgreSQL schema (READ COMMITTED,
no `SELECT ... FOR UPDATE`, no version columns); some keep documents in MongoDB; most share one Redis for cache keys,
counters, queues and pub/sub. A request handler runs on the event loop, opens one session, and is interrupted at every
`await`. Three facts of the stack shape every model:

- `expire_on_commit=False`: an object keeps the values the handler gave it; only `refresh` rereads it.
- a flush sends an UPDATE of the columns that changed in memory, with the literal values computed there; nothing is
  decremented in the database.
- an insert that collides with a unique index waits for the other transaction and then fails.

| component | state | operations | hard behaviour |
|---|---|---|---|
| order_service | order rows, `order_events`, cached status, `orders.*` messages | place, change status, cancel, return, read status | two commits in one handler, cache filled after invalidation, transitions decided from unlocked rows |
| inventory_service | `sku_stock`, reservations, movement ledger, Redis counters | adjust, reserve, release, reorder point | oversold units, lost updates, counter set before the commit |
| supplier_service | suppliers, purchase orders, goods receipts, supplier invoices | create, change status, ship (receipt + invoice), match | numbers from `count + 1`, statuses derived from stale collections |
| supplier_simulator | the batch it fetched, two counters | acknowledge and ship pending orders | an HTTP error between two calls: acknowledged orders are never tried again |
| payment_service | transactions | authorize, capture, refund | refunds checked against an unlocked figure |
| accounting_service | accounts with balances, journal entries | create account, post entry | balances added up in memory, locks taken line by line |
| tax_service | rates, ledger rows | calculate, remit | two remittances of one liability |
| hr_payroll_service | employees, departments, payroll runs | hire, run payroll | period paid twice, rounding |
| customer_service | customers, addresses, payment methods, tickets; preferences, messages and the activity log in MongoDB | register, log in, tag, prefer, defaults, tickets | exactly one default, rows without their documents, choices overwritten |
| fulfillment_service | jobs, a Redis list | create, update status | row committed before the list and the message |
| shipping_service | labels | rates, label, track | an event made up for the answer only |
| product_service | products and variants (MongoDB), prices, tiers, promotions, coupons (PostgreSQL), two kinds of cache keys | create, update, price, quote | sweeps that race fills, writes without a transaction, quotes from several queries |
| website | sessions (cart, customer) in the process's memory, or in Redis if configured | cart, checkout | session objects shared by overlapping requests; five calls per checkout; timeouts after which an order may exist |
| api_gateway | rate-limit counters | route, limit, forward | INCR and EXPIRE are two commands; a 502 for a request that was carried out |
| public_demo_service | sockets, activity history, seen-set | listen, poll, broadcast | three loops and a history copied at connect; a seen-set that is trimmed |
| notification_service | log of messages | subscribe, log | at-most-once delivery |
| reporting_service | summaries in Redis, snapshots in MongoDB | summarise | an older summary stored after a newer one |
| customer_simulator | catalog, customers, counters | register, order, advance orders | pages that shift while it reads them, lost answers |
| scripts, `customer_simulator/seed.py` | none of their own | fill an empty system | cut off and repeated |
| company_terminal | last snapshot, log stream | collect, tail logs | worker threads that finish out of order; a stop flag and a process shared by threads |
| deployment (`docker-compose.yml`, `entrypoint.sh`, Alembic) | schemas with their revision, containers | start, migrate, restart, downgrade | failures in the middle of a migration or of a start |

How they interact: the website, the simulators and the terminal call the services through the gateway;
`notification_service` and `public_demo_service` hear the `orders.*` messages of `order_service` through Redis, and
`public_demo_service` also polls. `order_service` asks `customer_service` whether a customer exists before it places
an order, `inventory_service` and `reporting_service` read names, prices and figures of others. No service changes
another one's state: stock, payment, tax, ledger and fulfilment are driven by whoever calls their endpoints. The
models are therefore one service each, with its callers as nondeterministic requests, and whoever only calls services
(simulators, hub, website) sees them from outside, free to answer anything the code allows; the one composition in
which two modelled parts really step together is the supplier simulator with the supplier service.

What makes each part correct:

- **order_service**: an order walks the state machine and never leaves a terminal status; its events replay to its
  row; status, payment and `closed_at` agree; a cached or announced status is not older than the last commit for ever;
  nothing ships unpaid.
- **inventory_service**: units are not promised twice; nothing is negative; the ledger and the counter agree with the
  rows.
- **supplier_service**: numbers are unique; one invoice per order; receipt status and discrepancies follow the
  receipts.
- **supplier_simulator**: ships nothing twice, loses an order only where its code gives it up, counts no more than
  happened.
- **payment_service**: no money beyond the authorization, none returned that was not taken, and the status says so.
- **website**: the cart is what the customer asked for and is ordered once.
- **accounting / tax / payroll**: debits equal credits and balances equal the sum of the entries; a liability is
  remitted once and to whoever it was reported to; payroll adds up to the cent; a period is paid once.
- **customer_service**: at most one default address and payment method; a row has its documents; an ended ticket has a
  date; what a customer chose is kept.
- **product_service**: the cache becomes current; no variant without product; names stay with their owners; a quote is
  in range.
- **fulfillment, shipping**: a job follows its state machine, is in the list once, and its news are right; rates
  follow the weight.
- **api_gateway**: no client gets more requests per window than allowed, or is locked out for ever; a request is sent
  once.
- **public demo / notification / reporting / terminal**: nothing is shown twice, out of order or from a stray source,
  and missed messages are made up for where there is a poller.
- **customer_simulator / scripts**: what was ordered is closed in the end; counters are right; a repeated seed
  completes a cut-off one.
- **deployment**: a committed schema is what its revision says; everything comes up after any failure.

## 2. Modules

| module | models | refines / extends |
|---|---|---|
| `OrderLifecycle` | what the order service promises of one order | |
| `Orders` | order_service: `routes/orders.py`, `services/order_service.py` | implements `OrderLifecycle` |
| `StockBook` | what the inventory service promises: units and a book of reservations | |
| `Inventory` | inventory_service: `routes/inventory.py`, `services/inventory_service.py` | implements `StockBook` |
| `OneAtATime` | both of them, requests one at a time | extends `Inventory`, instantiates `Orders` |
| `Procurement` | supplier_service: suppliers, purchase orders, receipts, invoices | |
| `SupplyChain` | supplier_simulator stepping with the supplier service | extends `Procurement` |
| `Payments` | payment_service | |
| `Ledger`, `Tax`, `Payroll`, `Customers` | accounting_service, tax_service, hr_payroll_service, customer_service | |
| `BackOffice` | the five services that keep money and people, side by side | extends `Payments`, instantiates the four above |
| `Storefront` | website: `routes/storefront.py`, `services/session.py`, `dependencies.py`, with the customer and order services as the website sees them | |
| `Catalog` | product_service | |
| `Dispatch` | fulfillment_service and shipping_service | |
| `FrontOffice` | these three side by side | extends `Storefront`, instantiates `Catalog`, `Dispatch` |
| `EventHub` | public_demo_service: `events.py` | |
| `Gateway` | api_gateway: `routes/proxy.py` | |
| `Schemas`, `Startup` | migrations, containers, health endpoints of all services | `Startup` extends `Schemas` |
| `Observers` | orders with the hub, the gateway and the deployment | extends `Orders`, instantiates the three above |
| `CustomerSimulator`, `Seeding` | customer_simulator; `seed.py`, `seed_all.py` | |
| `Notification`, `Reporting` | notification_service, reporting_service | |
| `Dashboard`, `LogTail` | company_terminal: snapshots and order rate; log view | |
| `Periphery` | the inventory with these six | extends `Inventory`, instantiates them |
| `MC*` | instances for TLC: symmetry and the small sets | extend the module they name |
| `SumFacts` | nothing of the code: lemmas on sums over finite sets, which the proofs cite | |
| `*Proofs` | theorems and their proofs (section 4) | extend the module they are about |

*Side by side.* In `BackOffice`, `FrontOffice`, `Observers`, `Periphery` and `OneAtATime` the parts neither call one
another nor share state that their models keep, so a behaviour of the composing module is a behaviour of one part,
picked in `Init` (`service`, `part`); interleaving them would multiply states and add nothing. Their properties are
conjunctions of the parts', and `XAssumption` of each part is assumed by the composing module. Only in `SupplyChain`
do two programs step together.

### Conventions shared by the models

*Requests.* An element of `Requests` is one HTTP request, issued at most once. `req[r].stage` is `"new"`, one of the
handler's steps, `"done"` or `"failed"`, and `req[r]` holds what the handler keeps in local variables: the row it
read, the number it computed. An action is the code between two awaits that matter: a SELECT, a commit, a Redis
command, a gateway call. A handler that answers with an error before it changed anything ends at once or is a disabled
action. A first SELECT is where a handler starts; its HTTP 404, 409 and 422 guards are conjuncts of that action.

*Transactions.* READ COMMITTED: a read sees what is committed at that step. Nothing is visible before the commit, so
the commit is where tables change, in one step. An UPDATE writes the columns that changed in the session's memory with
the values computed there: `Written` (inventory), `RowAfter` (orders), and the `IF target # seen` forms say which. The
time an UPDATE waits for a row lock only makes its commit later, except in `Ledger`, where a flush in the middle of
the loop locks rows and is modelled (`CanFlush`). Unique indexes are modelled where numbers, SKUs, slugs or codes are
allocated: an insert is enabled while nobody holds the number, waits while an uncommitted transaction holds it, and
ends the request (`Collide`) once it is taken.

*Failure.* `Fail` ends any request between two steps: the process dies, or Redis, MongoDB or PostgreSQL refuses. Open
transactions are rolled back, Redis and MongoDB keep what was written.

*Overlap.* Nothing in the code stops two requests from interleaving. Some properties survive that, others are true
only while requests come one at a time. `Overlap = FALSE` (the runs of `OneAtATime` and two findings) or a history
variable that notes the first overlap or failure (`overlapped` in payments, `shared` in ledger, tax and payroll,
`alone[r]` in customers, `overlapped` and `disturbed` in the storefront, `stirred` in catalog and dispatch,
`overtaken` and `unsaved` in reporting, `muddled` in the dashboard, `hasty` in the log view, `cut` and `refused` in
seeding, `died` in the gateway) states which is which; a property of the second sort that the documentation promises
without that proviso is a finding.

*Bounds.* Finite sets of one-shot requests, runs, streams and sockets bound nearly everything; `Budget`, `Handlings`,
`Faults`, `Restarts`, `Messages`, `Arrivals`, `Total`, `Days`, `LastDay` and `Pulses` cap the rest in guards. The
requests run out and the system stops, hence `CHECK_DEADLOCK FALSE`; in the code there is always another request.

### Orders

`rows[o]` is the `orders` row cut down to status, payment_status and whether `closed_at` is set; `events[o]` the
`order_events`; `cache[o]` the key `order:status:{id}`; `announced[o]` the last message. `create_order` is four steps
(`CreateInsert`, `CreateConfirm`, `CreatePublish`, `CreateFillCache`) because it commits twice before it publishes and
fills the cache, and keeps using the object it built. `update_order_status` and `cancel_order` are
`TransitionRead/Commit/Invalidate/Publish`; `get_order_status` is `StatusCacheHit`, or
`StatusCacheMiss/Load/FillCache`; `initiate_return` is `ReturnRead/Commit/Publish`; `Expire` is the TTL. Line items,
prices, customer checks and lists are left out: they neither read nor write what the properties are about.

### Inventory

`stock[k]` is a `sku_stock` row, `mem[r][k]` the same row in the session of request `r` (as loaded and as it will be
written), `resv[r]` the reservation inserted by `r`, `counter[k]` the Redis key. A release of an order selects its
active reservations and walks them one row at a time (`ReleaseOne`, `SetCounter`), as the loop does; the counter is
set before the commit, as `sync_stock_counter` is called before it.

### Procurement and SupplyChain

`ship_po` is the long handler: load the order with its receipts, count receipts, insert, look for an invoice, count
invoices, insert, commit; status and discrepancies are computed from the receipts that were *loaded*. An order
gives each SKU a sequence of lines (`Orderings`), since nothing forbids two lines of one SKU. A shipment is a list of
untyped objects: for each SKU it says nothing, or an integer under `quantity_shipped` or under `quantity` (`Item`).
`Asked` is what the handler makes of it: a 0 under `quantity_shipped` counts as not said, and not said is the whole
line; a negative number is taken as it is. `Taken` is what the receipt notes: never more than the line, as little as
was said. The status compares each line with all that was received of its SKU, as the code does. The notes text of
orders is left out. So is the row lock an early autoflush of an order's row may take: without it the model has more
interleavings than the code, so what holds in the model holds there.

The supplier simulator names 95 to 100 % of the quantity of a SKU's last line. It issues the very requests of
`Procurement` (`UpdatePORead`, `ShipLoad`) and waits for them to end. `round` is the list it polled with the order it
works on. `HttpError` ends the round whatever becomes of the request: it may be carried out all the same. `passedOver`
(history) notes the orders that `process_cycle` gave up: three in ten on purpose, others because of an error. In a
behaviour either the simulator ships or the clients do (`simulated`), so that the runs of `Procurement` alone are
among the behaviours.

### Payments, Ledger, Tax, Payroll, Customers

`Payments`: `txn[t]` is the row; `taken` and `returned` are history variables that add up what the committed requests
were granted, which the row does not keep. `Ledger`: `accounts[a]` is the row, `posting[r].held[a]` the account in the
session of request `r`. `PostLine` is one turn of the loop: the lookup flushes the balances changed so far, which
locks their rows, and reads the next account, which no lock protects. Opposite orders deadlock, and `Fail` is also
PostgreSQL's choice of a victim. The schema of a line takes any decimal, so the ledger's amounts are in a unit of
which `Cent` make a cent: the check that an entry balances and the additions in memory use them as they are, and what
a column receives is `Rounded` to whole cents. `rough` (history) marks the lines whose amounts were not whole cents.
`Tax`: `collected` are the ledger rows, `reported[r]` (history) what a remittance told the tax office. `RemitSelect`
and `RemitCommit` are the SELECT and the UPDATE by ids. `NewDay` is the calendar. In the other services amounts are in
cents; rates are in ten-thousandths of a percent. `Payroll`: a lookup by a key that is spelled otherwise than it is
stored misses (`Found`), and the unique index decides. `HalfEven` is the rounding of `Decimal.quantize`. `Customers`:
addresses and payment methods are `cards` of two kinds, named by the request that made them. A request computes which
defaults it clears when it starts and applies that with its own row at the commit. Documents in MongoDB are written
after the commit (`RegisterDocument`, `OpenDocument`, `Log`); `preferences` are none, the defaults of a registration,
or what the customer chose, and a registration whose customer has chosen meanwhile is refused by the unique index and
answers 500 although it registered the customer. `TagCustomer` sets or clears some tags of the document it read.

### Storefront

One browser, several tabs. Sessions are Python objects: `store` maps a token to a session, a session has a list of
lines, a list has lines, and handlers keep references to any of them while they wait for the gateway, so `h.line` may
be changed after it has left the cart. Objects are named by the request that made them. What is behind the
gateway is seen from the website (`account`, `addresses`, `order`, `OrderHandled`): it answers well, answers with an
error, or answers after the website has stopped waiting (`OrderFailed`, `TimeOut`). `Restart` loses the sessions;
`CookieExpires` is the `max_age` of the session cookie: the browser drops the token, at any moment, and the next page
is that of a new session. `wanted` is what the pages told the customer; with the cookie it becomes nothing.
`overlapped` notes that two handlers were under way, `disturbed` that an answer was lost, the process died, or the
cookie expired under a handler. Prices and the Redis session store are left out.

### Catalog and Dispatch

`Catalog`: products are named by the request that inserted them; `details[p]` and `found` are the two kinds of keys
`products:*`. Every write ends with a sweep in two phases, SCAN (`ScanStart`) and one DEL per key (`ScanDelete`); a
read that missed collects its document in three queries (`GetDocument`, `GetVariants`, `GetPricing`) and then fills
its key. `create_product` is two writes without a transaction; its payload is a sequence of SKUs that may name one
twice. A PATCH of a price or a promotion gives any set of columns (`Patches`); the session writes those whose values
differ from the row it read (`Dirty`, `Written`). A quote reads the price, the tiers and the coupon in three queries
(`QuotePrice`, `QuoteTier`, `QuoteCoupon`), whose rules are the operators `UnitPrice`, `Discounts`, `CouponDiscount`
and `Total` over integers: cents, whole percents, ten-thousandths of a cent. `Dispatch`: a job is committed, pushed on
the list (`Enqueue`), announced (`AnnounceJob`), three steps. A status update decides from the row it read and commits
later. `Rate` is the price of a parcel with the rounding of `Decimal`, of a weight in thousandths of an ounce as the
request states it (the column keeps hundredths, which nothing reads again); `Track` makes up an event for a fresh
label and leaves no trace but its `answers`.

### EventHub, Gateway, Notification, Reporting

`EventHub` is one asyncio process with three loops (`Tasks`: listener, poller, extras). A broadcast puts the activity
in the history and fixes its audience in one step, then sends to one socket at a time (`Send`), while sockets connect
and go. `Trimmed` keeps any `SeenKept` elements, as the slice of a set does. Of the order service it has what it
hears: `Place`, `Publish` or no message. `ListenerDies` is for good, as in the code. `Gateway` is the counter of one
address, and the forwarding: `Execute` and `Answer` belong to the service behind, `TimeOut` to the gateway.
`Notification` numbers the messages in their order; `excused` (history) are those that came while nobody was
subscribed, or whose insert raised (it may have been carried out all the same). `Reporting` has one summary,
represented by a number that grows at its owner.

### CustomerSimulator, Seeding, Dashboard, LogTail

`CustomerSimulator` is one loop whose requests may be carried out without an answer; `FetchPage` counts pages from the
newest order of the *current* list, and other clients place, patch and cancel orders meanwhile. `Seeding` has the two
scripts as sequences of requests that may be cut off anywhere, and overlap with one another; `seed_catalog` skips
everything if the list it reads is long enough, and reads a refused list as empty. `Dashboard`: workers collect
snapshots and post them in any order; `LogTail`: `Stop` and `Start` are the user interface's, `Open`, `Attach`,
`Read`, `Show`, `LeaveThread` the thread's; `stop` and `process` are shared without a lock, and `Show` waits for the
user interface, which may be waiting in `stop()`. A selection by keyboard starts the view twice in a row (directly and
through `Select.Changed`): two `Start`s, nearly always `hasty`. Without a `docker` command the thread ends
(`OpenFails`).

### Schemas and Startup

`Schemas` holds, as data, the statements of all Alembic revisions (types, tables with what they refer to, rows that
are inserted), the stores each health endpoint asks, and `depends_on`. `Startup` executes them: `Execute` and
`Refused` are PostgreSQL's rules (a table needs its types, a drop needs that nothing refers to the object, a stamp
needs `alembic_version`). `CreateNamespace` is `entrypoint.sh`'s own transaction; `BeginUpgrade`, `Upgrade`, `Commit`
one transaction of `alembic upgrade head`; `Serve` the start of the application; `Ask` and `Answer` a health request,
store by store. `Die`, `GoAway` and `Downgrade` may come at any moment. Columns and indexes of tables are left out.

## 3. Runs

| run | instance | what it shows |
|---|---|---|
| `one_at_a_time` | orders: 1 order; inventory: 2 rows; 6 requests one at a time, deaths | `RowIsExplained` (`AuditTrailReplays`, `ColumnsAgree`), `LagOnlyAfterFailure` (`StaleOnlyAfterFailure`, `SubscribersUpToDate`), `ReservedOnHand`, `NothingOversold`, `StockIsExplained` (`LedgerExplainsStock`, `CounterOffOnlyAfterFailure`), and both refinements: `ImplementsLifecycle`, `ImplementsBook` |
| `observers` | orders: 1 order, 3 requests, overlap, deaths, fairness | `HistoryHasNoGap`, `NothingInvented`; liveness `OrdersSettle` (`StaleCacheHeals`, `PendingIsLeft`) |
| | hub: 2 orders, 1 socket, history of 2, seen-set of 1 | `HubIsSound` (`EveryActivityOnce`, `AnnouncedOnce`); liveness `RecentAreAnnounced` |
| | gateway: 3 calls, limit 2 | `ProxyIsSound` (`LimitHolds`, `CarriedOutOnce`); liveness `ShutOutIsTemporary` |
| | deployment: ten sets of services, 2 faults | `StartupIsSound` (`SchemaFollowsRevision`, `DependenciesCameFirst`); liveness `EverythingComesUp` |
| `periphery` | inventory: 1 row, 4 requests, overlap, deaths | `NeverNegative` |
| | simulator: 2 orders, pages of 1, 2 goods, other clients | `BuyerIsSound` (`CountsWhatItDid`, `EndsOfSmallCatalog`); liveness `OrdersAreClosed` |
| | seeding: 2 runs, 2 products, 1 center, 1 employee | `SeedsAreWhole` (`ProductsArePriced`, `StaffIsAssigned`) |
| | log: 4 messages, 2 starts; reports: 3 readers, figures up to 2 | `LogFollowsMessages`; `ReportsAreSound` (`ReportsGoForward`, `ShownIsKept`) |
| | terminal: 3 workers, 2 orders, first page of 1; 2 selections | `TerminalIsSound` (`NoOrderCountedTwice`, `NoStrayStreams`) |
| `supply_chain` | 1 supplier, 2 orders of 1 SKU on one line or two, 4 requests of which 3 the simulator's, overlap, deaths, HTTP errors | `NumbersDense`, `OneInvoicePerOrder`, `ReceivedIsCovered`; `SimulatorIsSound` (`NothingShippedTwice`, `CountersAreBacked`, `AcknowledgedIsShipped`) |
| `back_office` | 4 requests, deaths; payments: 1 transaction, amounts 1 to 3 | `WithinAuthorization` always, `MoneyAccounted` until handlers overlap |
| | ledger: 3 accounts, 5 entries, two of them with half cents | `LedgerIsSound`: `BalancesAreWholeEntries` always, `BooksBalance` until handlers overlap; both exact for whole cents, else as far as rounding may move lines |
| | tax: 2 rates, 2 baskets, 2 days | `RemittancesAreSound`: `RemittedIsReported` always, `RemittedOnce` until handlers overlap |
| | payroll: 2 employees, 3 contracts | `PayrollAddsUp` |
| | customers: 1 person, who may have registered before, 3 requests | `CustomersAreSound`: `DocumentsFollowRows`, `EndedIsDated` always, `LoneDefaultWins` and `ChoicesStick` as action properties |
| `front_office` | storefront: 2 SKUs, quantity 100, 4 requests, timeouts, restarts, expiring cookies | `CartsAreSound` (`OneLinePerSku`, `OrdersAreSound`) always; `CartIsWhatWasWanted` until handlers overlap or are disturbed; `OrderedOnce`, whatever is lost, until handlers overlap |
| | catalog: 2 SKUs, 1 slug, 1 code, 3 requests | `CatalogIsSound` (`VariantsHaveProducts`, `QuotesInRange`), `NamesStick` always; `CacheFollowsCatalog` until handlers overlap |
| | dispatch: 2 weights, 3 requests | `DispatchIsSound` (`QueueHoldsJobs`, `RatesFollowWeight` always, `NewsFollowJobs` until handlers overlap), `JobsMoveForward` |
| `orders_resurrected` | 1 order, 3 overlapping requests | violates `TerminalIsFinal` |
| `orders_unpaid` | 4 requests one at a time, deaths | violates `ShippedIsPaid` |
| `inventory_oversold` | 1 row, 3 overlapping requests | violates `NothingOversold` |
| `procurement_unmatched` | 1 order, 3 requests one at a time | violates `MatchIsThreeWay` |
| `payroll_unlocked` | 1 employee, 3 requests | violates `RunsAreLocked` |
| `dispatch_untracked` | 3 requests | violates `TrackingIsAnswered` |

The part's `TypeOK` is a conjunct of each composed property (`SimulatorTypeOK` in `SupplyChain`); those of orders,
inventory, procurement and payments are not checked by a run: they are theorems.

*Why the bounds are enough.* Orders, transactions, carts and addresses of the gateway do not influence each other, so
one of each is enough; what matters is how many requests meet on it. The races found need two or three requests after
the one that creates the row, so four cover a creation and three requests racing on its result; six serial requests
take an order from placement to `closed`. With requests one at a time inventory has two rows so that one release walks
two of them, and adjustments {-1, 2} and reservations {1, 2} reach both sides of every comparison. Procurement has two
orders so that their receipts compete for the same number, and orders three units on one line or on two; a shipment
says one unit, two, a negative number, or a 0 that is not heard and means everything, so that an order is completed at
once, in several parts, not at all, or taken apart again. A customer's 100 is more than one add puts into a cart (99),
two adds exceed that and an update may ask for it, so the limit shows; the proofs cover every integer. Amounts 1 to 3
allow a capture in two parts with a refund between. The journal entries go both ways between two accounts, two touch
an account twice, two name half cents (of which one leaves the books out by rounding), and one does not balance; the
rates include a category that falls back to `general` on the first day; the contracts are a salary whose 26th part is
not whole, an hourly rate, and none. The hub's limits are cut so that the seen-set is trimmed by the second order and
the history overflows with the third activity; the simulator's page holds one order, so that a round reads several and
they shift, and the terminal's first page holds one, so that an order leaves it. In the catalog a sale is dearer than
the list price and ends on the first day, and the promotions exceed what they are taken from; a PATCH of a price moves
the end of the sale with or without the sale's price, one of a promotion changes kind and value, or switches it on or
off. Of the weights one is exactly a pound, and one is not even a whole number of hundredths of an ounce. The
deployments hold, between them, every service that migrates a schema, several with one that waits for them; other
services are taken to be up, which is all that `depends_on` asks of them. Two faults fit in one start: a store goes
away while a container dies, or an operator downgrades and the container dies after it. Requests are interchangeable
(symmetry) everywhere except where liveness is checked, and so are the purchase orders and, in `front_office`, the
SKUs.

*Fairness.*
- `Orders`: weak fairness of `Continue(r)`, since the event loop resumes a handler whose await has completed, and of
  `Expire(o)`, since every `cache_set` has a TTL. Nothing is assumed of clients (`Start`) or of `Fail`, and a request
  that died is not resumed: `PendingIsLeft` exempts it by name.
- `EventHub`: strong fairness of `Poll`: the loop polls every 2.5 s and the gateway answers it now and then; weak
  fairness of its next steps. Nothing of the listener.
- `Gateway`: weak fairness of `Expire(c)` and `WindowEnds`; a handler that dies before EXPIRE leaves the key for ever,
  which `ShutOutIsTemporary` exempts (`died`).
- `CustomerSimulator`: weak fairness of the loop, strong fairness of reading each page and of patching each order:
  neither fails every time.
- `Startup`: weak fairness of every container's progress (Docker restarts it), of a store's return, and of the
  statements of an operator's command. Nothing of faults, which are finitely many.

*Findings.* Six runs end in a counterexample to something the repository's documentation says:

1. `orders_resurrected`: README:186 and `VALID_TRANSITIONS` make CLOSED and CANCELLED final. `create_order` commits the
   order PENDING; another request reads it, cancels it and commits CANCELLED / REFUNDED; then `create_order`, which
   looks at no status, commits CONFIRMED / CAPTURED in its second transaction. (Two overlapping status changes can do
   the like, since `transition_order` decides from an unlocked row; TLC shows the shorter way.)
2. `orders_unpaid`: README:30 says the payment is captured when an order is placed. `create_order` commits PENDING /
   AUTHORIZED first; if it dies there, `PATCH .../status` walks the order to SHIPPED and no step captures.
3. `inventory_oversold`: README:430 promises an atomic decrement on reservation. The check and the write are in Python
   on an unlocked row; two reservations of the last unit both succeed.
4. `procurement_unmatched`: README:284 promises a three-way match. The first invoice's discrepancies are computed from
   receipts loaded before the shipment's own was inserted, so a complete delivery is stored as not received (until
   someone matches the invoice).
5. `payroll_unlocked`: README:434 lists a payroll run lock among the uses of Redis. `run_payroll` takes none and
   compares no periods.
6. `dispatch_untracked`: README:231 offers tracking. For a label without carrier events `get_tracking` answers with an
   event that was never flushed: its id is None, which the response model refuses, so the request fails.

What the models also reach, and no run asserts because no document promises the contrary: overlapping adjustments lose
an update (`LedgerExplainsStock` holds serially only); overlapping refunds return more than was captured, although the
row never shows it (`MoneyAccounted` holds until overlap only); a supplier is retired while an order is being created
for it; a shipment with a negative quantity leaves an order `received` that its receipts no longer cover; the lines of
an order that names a SKU twice are each compared with all that was received of the SKU; a client's PATCH and a
shipment overwrite each other's purchase-order status; a lost answer at checkout leads to a second order; a customer
who comes back after the session cookie expired has an empty cart and gets a second address; overlapping entries leave
the books out of balance, and so does, by up to half a cent for each such line, an entry that balances before its
amounts are rounded to whole cents; two remittances report the same tax; two overlapping requests leave a customer
with two defaults; a registration answers 500 if preferences were chosen between its commit and its document; a cache
fill that was collected before a write and stored after its sweep stays until it expires; `max_uses` of a coupon is
never counted; three quick selections in the terminal leave a stray log process; an acknowledged order whose shipment
failed is never shipped; `alembic downgrade base` never succeeds, because it drops the schema with `alembic_version`
in it before Alembic records the revision; a degraded `/health` answers 200, so a container whose stores are away
counts as healthy.

## 4. Proofs

All proofs are for every value of the constants, under the named assumptions of each module (`OrdersAssumption`,
`InventoryAssumption`, ...): distinguished values are not members of the sets they stand out from; deltas, what a
shipment says it ships and the quantities a customer types are any integers; units ordered or reserved are positive
naturals; the amounts of journal entries any naturals and a cent (`Cent`) any positive number of their unit; orders
that are numbered are finitely many, a rate of the tax service is a natural, the owner behind a report has at least
one figure to give, the smallest catalog a wholesale cart can be drawn from has at least one item (`FewGoods`, 4 in
the code). `Requests` may be infinite (where a property counts requests, they are finitely many): no bound on
concurrency.

| module | about | theorems |
|---|---|---|
| `SumFacts` | sums over finite sets | lemmas only |
| `OrdersProofs` | `Orders` | types, history, the serial properties, `ImplementsLifecycle` |
| `OneAtATimeProofs` | `Inventory`, `OneAtATime` | types, figures, the serial properties, `ImplementsBook`; those of the orders carried over |
| `ProcurementProofs` | `Procurement`, `SupplyChain` | numbers, invoices, receipts; the simulator |
| `BackOfficeProofs` | `Payments`, `BackOffice` | payments, ledger, tax, payroll, customers |
| `ObserversProofs` | `Observers` | gateway, hub, start of the deployment |
| `FrontOfficeProofs` | `FrontOffice` | storefront, catalog, dispatch |
| `PeripheryProofs` | `Periphery` | notification log, reports, terminal, seeding, simulated buyer |

Every invariant and every action property of a passing run is stated by a theorem; what stays with TLC is liveness.
A theorem about `Spec` is about a part on its own; those about `OneSpec`, `ChainSpec`, `BackOfficeSpec`,
`ObserversSpec`, `FrontOfficeSpec` and `PeripherySpec` are about the composed specification that the runs check. There
the invariant of a module is that of the part that was picked, and the initial state of the others, which stand still.

*Sums.* A property of stock, receipts or money is about a sum over a set, and the prover cannot instantiate the
library's induction theorems, which take an operator. `SumFacts` states induction with a *set* of good cases instead:
a set of subsets of a finite set that has the empty set and grows by any element has every subset
(`SubsetInduction`), because among its bad cases one would be smallest. From it follow that `SumFunctionOnSet` counts
each element once (`SumPutsIn`, `SumTakesOut`), and sums of unions, images, equal terms, one changed term and groups.

*Orders.* `HistoryInv` = `TypeOK` ∧ `HistoryHasNoGap` ∧ `NothingInvented` ∧ `HandlersWitnessed` ∧ `UnknownIsBlank`.
`HistoryHasNoGap` is not inductive: a commit records an event from the status the handler saw some steps ago.
`HandlersWitnessed` says that what a handler in flight has seen was entered by some event, and events are only
appended, so it still is at the commit. For requests one at a time (the hypothesis `~Overlap`, a constant that says
how clients behave, and the value of the run `one_at_a_time`), `SerialInv` adds that one handler is in flight, that
what it remembers is current, and that cache and subscribers lag only behind it. Then `AuditTrailReplays`,
`ColumnsAgree`, `StaleOnlyAfterFailure` and `SubscribersUpToDate` follow, and every commit is one step of
`OrderLifecycle` (`LifecycleImplemented`). Dead requests are covered: a handler may fail at any of its steps.

*Inventory.* `FiguresInv` = `TypeOK` ∧ `NeverNegative` ∧ `HeldFiguresLegal` ∧ `ReferencesOK`, under any interleaving:
a commit mixes columns from memory and from the table, so both must be non-negative. One at a time, `SerialInv` adds
that the row in memory is the stored one, changed by its holder only; `ExplainedInv` that stored figures are the sums
of the movements and of the active reservations, and that what a running release has given back in memory is just the
part of its batch it is through with; hence its clamp at zero is never reached. `CounterInv` relates the counter in
Redis to the figures that the running request will store. Theorems `StockStaysExplained`, `NeverOversold`, and
`StockBookImplemented`, where the book's reservations are those that are active. `OneAtATime` instantiates `Orders`:
`RowStaysExplained`, `LagsOnlyIfDied` and `LifecycleRefined` say for its behaviours what `OrdersProofs` says of
`Orders`; the instances of `Orders` are shown to take the same steps.

*Procurement.* `ProcurementInv` = `TypeOK` ∧ `TablesFinite` ∧ `NumbersDense` ∧ `NumbersUnique` ∧ `OneInvoicePerOrder`
∧ `SoleHolders` ∧ `HandlerOK`. The point is `SoleHolders`: because numbers are dense, a handler that counted and then
inserted without a collision holds the number count + 1, and only one handler can; therefore at most one shipment at a
time is between its receipt's insert and its commit, and the unguarded check for an existing invoice cannot race.
`OneInvoicePerOrder` rests on that accident, not on an index. `CoverInv` adds that what a shipment loaded is still
there: receipts are only added, so an order that is `received` is covered by some of its receipts, whatever integers
the shipments name; all of them cover it as long as none has a negative quantity (`ReceivedWhenCovered`). `SimulatorInv` adds the simulator's round: orders it has yet to look at are fresh, at most
one shipment is meant for an order, each count is backed by a receipt, and an acknowledged order without receipts was
passed over or is being worked on. `SimulatorKeepsPromises` has the hypothesis `Patches ∩ {submitted, acknowledged} =
{}`, with which the run `supply_chain` is configured too: a person who puts an order back under the simulator makes it
ship a second time.

*Payments.* `PaymentsInv` = `TypeOK` ∧ `Bounded` rows ∧ `HandlerBounded` ∧ (`~overlapped` ⇒ `Exact`). A handler's view
bounds what it will write although the row has moved on, because the authorized amount never changes; `Exact` adds
that without overlap the view *is* the row.

*Ledger.* `LedgerInv`: the balance a session holds of an account is a sum of whole entries plus the lines of its own
entry that it has added so far (`HeldOK`, `Share`), so what it commits is again a sum of whole entries, whatever was
committed meanwhile. A sum may differ from a balance by what rounding moved: nothing if the lines named whole cents,
else at most a cent for each line that did not (`Doubt`, `FollowsFrom`); an update rounds the sum in memory, and the
rounded line differs from what it moved in memory by less than a cent, while balances themselves are whole cents
(`Whole`). Without overlap the sum leaves no entry out (`UpToDate`), and as every entry balances before it is rounded,
so do the books, but for half a cent for each such line: the sum over accounts is the sum over entries, taken by
groups.

*Tax.* `TaxInv`: names of entries are unique and only stored entries are selected, so what is reported under a name is
the entry of that name; without overlap a remittance's selection is still unreported when it commits.

*Payroll.* `PayrollInv`: who is hired stays hired under the same contract, so a stub that was right when it was
computed stays right, and the totals of a run are sums over finitely many stubs.

*Customers.* `CustomersInv`: what a handler knows of the rows (`ServiceKnows`) stays so although rows change beside
it, and a document that lags behind its row is one the handler under way will write. What a lone handler has seen of
defaults and tags (`AloneKnows`) is still so, from which the two action properties follow (`CustomersStaySound`).

*Gateway.* `GatewayInv`: the handler that made the key is alone in giving it an expiry and the key cannot expire under
it, so whoever is let through was counted by the key that is there now: their number is at most `count`, and so at
most the limit. *Hub.* `HubInv`: an activity is sent by one loop (`Loops`); a socket that is registered and open has
received each activity of the history, or is in the audience of the loop that sends it (`NoneMissed`, `NoneTwice`); an
order that was announced is in the seen-set or was forgotten (`Remembered`).

*Start of a deployment.* `StartupInv`, for every set of services that `Deployments` offers and any number of faults. A
migration is a draft in memory and a script of what is left: `Upgrading` says that the two together are the whole
schema and that the newest revision is the last that will be recorded, which holds after every statement because the
objects of a service have different names, so that a statement is skipped only if its object is there. What an
operator takes back is either `Doomed` (the script still drops the schema and then records `base`, or the schema is
gone and recording it will be refused) or `Returning` to the first of the two revisions of supplier_service: what that
one created is untouched, and everything else is still to be dropped. So only a whole revision is ever committed, none
but the initial one is `base`, and a container's dependencies, which had a schema when it was started, keep one. The
facts about the revisions themselves (`OrdersSane`, ..., `InvoicesSane`) are proved from `Schemas` service by service,
and `FlattenSeq`, which strings revisions together, for the lengths 0 to 2 that occur.

*Storefront.* `StoreInv`: sessions, lists and lines are named by the request that made them, and nobody finds them
before it is done. Without overlap the one request under way uses the current session and a list that was not ordered;
an order whose customer saw it confirmed leaves its list for good, and a session adds an address once, when it comes
to know its customer. None of that needs answers to arrive, processes to live or cookies to last (`OnceInv`,
`OrderedOnlyOnce`). If nothing is disturbed either, what the request holds is what the customer was told, and after
the cookie expired both are nothing (`SerialInv`, `CartStaysAsWanted`). *Catalog.* `CatalogInv`: `RowTypes`,
references and quotes under any interleaving, whichever columns a PATCH writes over a row that has moved on; until
handlers overlap or die (`~stirred`), every cached document is fresh except while the one handler under way is
writing, and the keys it has yet to sweep cover what it made stale (`CacheKeepsUp`). *Dispatch.* `DispatchInv`: a job
nobody was told about is known to the handler under way (`NewsPending`); what `Rate` rounds is within half a cent of
the weight's share and never cheaper for a heavier parcel. `NothingGoesBack` proves the action properties `NamesStick`
and `JobsMoveForward` from the types and from what a handler has read of its job.

*Notification log.* `LogInv`: what is logged was published before what is being logged, and that before what waits in
the subscription, so appending keeps the order; and every message is in one of the three or excused (`LogIsInOrder`).
*Reports.* `ReportsInv`: a figure that may be shown is saved or in the hands of a handler about to save it; until one
handler overtakes another there is at most one fetching, and its figure is not older than any that is saved or about
to be (`ReportsStaySound`, an invariant and an action property).
*Terminal.* `BoardInv`: until a refresh is muddled, the count kept is the first page of the truth at the last answer
that was counted. `LogViewInv`: unless selections were hasty, only the selected stream may still open its process, and
what runs is what the attribute refers to, so that `stop()` leaves nothing behind (`TerminalStaysSound`).
*Seeding.* `SeedInv`: a run holds a product exactly while it has yet to price it, and, unless it was refused, the
department exists when the list is asked for and is known when employees are hired (`SeedsStayWhole`).
*Simulated buyer.* `BuyerInv`: what the simulator placed is among the orders at the order service (`Market`), its
counters are at most what exists and exactly that while every answer arrived, and it knows no goods before its first
refresh, so that only a small catalog ends the loop (`BuyerStaysSound`).

*Only model-checked.*
- Liveness, and with it fairness and ENABLED: outside the prover's temporal fragment.
- The six properties that runs refute.

## 5. Not modelled, and the plan

Not modelled:

- the Redis session store of the website (an option that is off by default), its admin pages, listings, texts, and the
  rendering of pages;
- the terminal's rendered views and the figures in a snapshot about which it keeps no state; the terminal's keyboard
  handling;
- the public demo's statistics, animations and static topology: they leave nothing behind;
- fulfillment centers, product categories and the procurement view of a SKU: rows that are inserted and listed,
  nothing decides from them;
- read-only listings, statistics and searches of all services (a search of the catalog is modelled because it is
  cached);
- `scripts/seed_procurement.py`: the same kind of loop as the two scripts that are modelled, with requests
  `Procurement` has;
- rows whose own values make a later answer fail: a PATCH that sets a product's name to null, say, is accepted and
  then refused by the response model whenever the product is read;
- request and response schemas (except where they let through what the models must take: any integer, any decimal, any
  object in a shipment), configuration, logging, free text, columns and indexes of migrations.

The plan left, in this order:

1. The Redis session store as a second implementation of the website's sessions: its objects are copies, so that
   overlapping requests lose updates instead of sharing lines.
