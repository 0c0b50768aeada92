------------------------------- MODULE Orders -------------------------------
(***************************************************************************)
(* The order service (order_service): one PostgreSQL row and an            *)
(* append-only event list per order, the Redis cache of the order status,  *)
(* and the Redis channels orders.*.  Every HTTP handler is a sequence of   *)
(* steps cut at its awaits: a statement that reads the row, a commit, a    *)
(* Redis command.  Between two steps of one request the event loop runs    *)
(* the others, and no row is locked: a transition commits what it decided  *)
(* from the row it read.                                                   *)
(***************************************************************************)
EXTENDS Naturals, Sequences

CONSTANTS
    OrderIds,   \* orders that may be placed
    Requests,   \* HTTP requests; each is issued at most once
    NoOrder,    \* the order of a request that has not started
    Overlap,    \* TRUE: requests interleave; FALSE: one at a time
    MayFail     \* TRUE: a request may die between two of its steps

ASSUME OrdersAssumption ==
    /\ NoOrder \notin OrderIds
    /\ Overlap \in BOOLEAN
    /\ MayFail \in BOOLEAN

VARIABLES
    rows,       \* rows[o]: status, payment_status and whether closed_at is set
    events,     \* events[o]: the order_events rows, in commit order
    cache,      \* cache[o]: the Redis key order:status:{o}, or Miss
    announced,  \* announced[o]: the last orders.* message about the order
    req         \* req[r]: how far the handler of request r has come

vars == <<rows, events, cache, announced, req>>

Status == {"pending", "confirmed", "in_fulfillment", "shipped", "delivered",
           "closed", "cancelled"}

Payment == {"authorized", "captured", "refunded"}

NoRow == [status |-> "absent", payment |-> "none", closed |-> FALSE]

Row == [status : Status \cup {"absent"}, payment : Payment \cup {"none"},
        closed : BOOLEAN]

Event == [from : Status \cup {"absent"}, to : Status \cup {"absent"}]

VALID_TRANSITIONS ==
    { <<"pending", "confirmed">>, <<"pending", "cancelled">>,
      <<"confirmed", "in_fulfillment">>, <<"confirmed", "cancelled">>,
      <<"in_fulfillment", "shipped">>, <<"in_fulfillment", "cancelled">>,
      <<"shipped", "delivered">>, <<"delivered", "closed">> }

Terminal == {"closed", "cancelled"}

Returnable == {"delivered", "shipped", "closed"}

(* The status document that is cached: the row without closed_at. *)
StatusDoc == [status : Status \cup {"absent"}, payment : Payment \cup {"none"}]

Miss == [status |-> "absent", payment |-> "none"]

StatusOut(row) == [status |-> row.status, payment |-> row.payment]

Idle == {"new", "done", "failed"}

Stage == Idle \cup {"inserted", "confirmed", "published",
                    "read", "committed", "invalidated",
                    "missed", "loaded", "returning", "returned"}

NoRequest == [stage |-> "new", order |-> NoOrder, target |-> "absent", seen |-> NoRow]

Closed(final) == [NoRequest EXCEPT !.stage = final]

Channel == Status \cup {"created", "return_initiated"}

TablesOK ==
    /\ rows \in [OrderIds -> Row]
    /\ events \in [OrderIds -> Seq(Event)]
    /\ cache \in [OrderIds -> StatusDoc]
    /\ announced \in [OrderIds -> Channel \cup {"absent"}]

Request == [stage : Stage, order : OrderIds \cup {NoOrder},
            target : Status \cup {"absent"}, seen : Row]

RequestsOK ==
    /\ req \in [Requests -> Request]
    /\ \A r \in Requests : req[r].stage \notin Idle => req[r].order \in OrderIds

TypeOK == TablesOK /\ RequestsOK

Init ==
    /\ rows = [o \in OrderIds |-> NoRow]
    /\ events = [o \in OrderIds |-> << >>]
    /\ cache = [o \in OrderIds |-> Miss]
    /\ announced = [o \in OrderIds |-> "absent"]
    /\ req = [r \in Requests |-> NoRequest]

-----------------------------------------------------------------------------
(* How a handler moves from step to step. *)

MayStart(r) ==
    /\ req[r].stage = "new"
    /\ Overlap \/ \A q \in Requests : req[q].stage \in Idle

Advance(r, stage) == req' = [req EXCEPT ![r].stage = stage]

Finish(r) == req' = [req EXCEPT ![r] = Closed("done")]

Known(o) == rows[o].status # "absent"

RecordEvent(o, from, to) ==
    events' = [events EXCEPT ![o] = Append(@, [from |-> from, to |-> to])]

-----------------------------------------------------------------------------
(* create_order.  The order is committed PENDING / AUTHORIZED with its      *)
(* first event, and only then confirmed by a second transaction of the     *)
(* same handler; the object in memory is the one the handler built, so     *)
(* neither the second commit nor the cached document sees what another     *)
(* request did to the row meanwhile.                                        *)

CreateInsert(r, o) ==
    /\ MayStart(r)
    /\ ~Known(o)
    /\ rows' = [rows EXCEPT ![o] = [status |-> "pending", payment |-> "authorized",
                                    closed |-> FALSE]]
    /\ RecordEvent(o, "absent", "pending")
    /\ req' = [req EXCEPT ![r] = [NoRequest EXCEPT !.stage = "inserted", !.order = o]]
    /\ UNCHANGED <<cache, announced>>

(* A plausible slip: the confirmation is committed without its event. *)
CreateConfirmSilently(r) ==
    LET o == req[r].order IN
    /\ req[r].stage = "inserted"
    /\ rows' = [rows EXCEPT ![o].status = "confirmed", ![o].payment = "captured"]
    /\ Advance(r, "confirmed")
    /\ UNCHANGED <<events, cache, announced>>

(* A plausible slip: the handler forgets the second transaction. *)
CreateConfirmSkipped(r) ==
    /\ req[r].stage = "inserted"
    /\ Advance(r, "confirmed")
    /\ UNCHANGED <<rows, events, cache, announced>>

CreateConfirm(r) ==
    LET o == req[r].order IN
    /\ req[r].stage = "inserted"
    /\ rows' = [rows EXCEPT ![o].status = "confirmed", ![o].payment = "captured"]
    /\ RecordEvent(o, "pending", "confirmed")
    /\ Advance(r, "confirmed")
    /\ UNCHANGED <<cache, announced>>

CreatePublish(r) ==
    /\ req[r].stage = "confirmed"
    /\ announced' = [announced EXCEPT ![req[r].order] = "created"]
    /\ Advance(r, "published")
    /\ UNCHANGED <<rows, events, cache>>

CreateFillCache(r) ==
    /\ req[r].stage = "published"
    /\ cache' = [cache EXCEPT ![req[r].order] =
                    [status |-> "confirmed", payment |-> "captured"]]
    /\ Finish(r)
    /\ UNCHANGED <<rows, events, announced>>

-----------------------------------------------------------------------------
(* update_order_status and cancel_order: get_order_or_404, then            *)
(* transition_order.  Cancelling is the transition to "cancelled": what    *)
(* cancel_order rejects beforehand, VALID_TRANSITIONS would reject too.     *)

(* A plausible slip: any change of status is accepted. *)
AnyChange(current, target) == current # target

AssertTransition(current, target) == <<current, target>> \in VALID_TRANSITIONS

TransitionRead(r, o, target) ==
    /\ MayStart(r)
    /\ Known(o)
    /\ AssertTransition(rows[o].status, target)
    /\ req' = [req EXCEPT ![r] = [stage |-> "read", order |-> o, target |-> target,
                                  seen |-> rows[o]]]
    /\ UNCHANGED <<rows, events, cache, announced>>

TransitionRejected(r, o, target) ==
    /\ MayStart(r)
    /\ Known(o)
    /\ ~AssertTransition(rows[o].status, target)
    /\ Finish(r)
    /\ UNCHANGED <<rows, events, cache, announced>>

(* A plausible slip: every transition sets closed_at. *)
RowAfterAlwaysClosed(row, seen, target) ==
    [status |-> target,
     closed |-> TRUE,
     payment |-> IF target = "cancelled" THEN "refunded" ELSE row.payment]

(* The UPDATE writes the columns the handler changed in memory: the status,  *)
(* closed_at on a terminal status, and payment_status on a cancellation      *)
(* unless the row it read was refunded already.                              *)
RowAfter(row, seen, target) ==
    [status |-> target,
     closed |-> row.closed \/ target \in Terminal,
     payment |-> IF target = "cancelled" /\ seen.payment # "refunded"
                 THEN "refunded" ELSE row.payment]

TransitionCommit(r) ==
    LET o == req[r].order
        target == req[r].target IN
    /\ req[r].stage = "read"
    /\ rows' = [rows EXCEPT ![o] = RowAfter(@, req[r].seen, target)]
    /\ RecordEvent(o, req[r].seen.status, target)
    /\ Advance(r, "committed")
    /\ UNCHANGED <<cache, announced>>

TransitionInvalidate(r) ==
    /\ req[r].stage = "committed"
    /\ cache' = [cache EXCEPT ![req[r].order] = Miss]
    /\ Advance(r, "invalidated")
    /\ UNCHANGED <<rows, events, announced>>

(* A plausible slip: the message carries the status the order had before. *)
TransitionPublishOld(r) ==
    /\ req[r].stage = "invalidated"
    /\ announced' = [announced EXCEPT ![req[r].order] = req[r].seen.status]
    /\ Finish(r)
    /\ UNCHANGED <<rows, events, cache>>

TransitionPublish(r) ==
    /\ req[r].stage = "invalidated"
    /\ announced' = [announced EXCEPT ![req[r].order] = req[r].target]
    /\ Finish(r)
    /\ UNCHANGED <<rows, events, cache>>

-----------------------------------------------------------------------------
(* get_order_status: the cached document, or the row, which is then cached. *)

StatusCacheHit(r, o) ==
    /\ MayStart(r)
    /\ cache[o] # Miss
    /\ Finish(r)
    /\ UNCHANGED <<rows, events, cache, announced>>

StatusCacheMiss(r, o) ==
    /\ MayStart(r)
    /\ Known(o)
    /\ cache[o] = Miss
    /\ req' = [req EXCEPT ![r] = [NoRequest EXCEPT !.stage = "missed", !.order = o]]
    /\ UNCHANGED <<rows, events, cache, announced>>

StatusLoad(r) ==
    /\ req[r].stage = "missed"
    /\ req' = [req EXCEPT ![r].stage = "loaded", ![r].seen = rows[req[r].order]]
    /\ UNCHANGED <<rows, events, cache, announced>>

StatusFillCache(r) ==
    /\ req[r].stage = "loaded"
    /\ cache' = [cache EXCEPT ![req[r].order] = StatusOut(req[r].seen)]
    /\ Finish(r)
    /\ UNCHANGED <<rows, events, announced>>

(* Redis drops the key cache_ttl_seconds after it was set. *)
Expire(o) ==
    /\ cache[o] # Miss
    /\ cache' = [cache EXCEPT ![o] = Miss]
    /\ UNCHANGED <<rows, events, announced, req>>

-----------------------------------------------------------------------------
(* initiate_return: an event and a message; the row is not changed.         *)

ReturnRead(r, o) ==
    /\ MayStart(r)
    /\ rows[o].status \in Returnable
    /\ req' = [req EXCEPT ![r] = [NoRequest EXCEPT !.stage = "returning", !.order = o,
                                                   !.seen = rows[o]]]
    /\ UNCHANGED <<rows, events, cache, announced>>

ReturnCommit(r) ==
    LET seen == req[r].seen.status IN
    /\ req[r].stage = "returning"
    /\ RecordEvent(req[r].order, seen, seen)
    /\ Advance(r, "returned")
    /\ UNCHANGED <<rows, cache, announced>>

ReturnPublish(r) ==
    /\ req[r].stage = "returned"
    /\ announced' = [announced EXCEPT ![req[r].order] = "return_initiated"]
    /\ Finish(r)
    /\ UNCHANGED <<rows, events, cache>>

-----------------------------------------------------------------------------
(* The process dies, or Redis or PostgreSQL refuses the next command: the    *)
(* handler stops where it is and nothing resumes it.                         *)
Fail(r) ==
    /\ MayFail
    /\ req[r].stage \notin Idle
    /\ req' = [req EXCEPT ![r] = Closed("failed")]
    /\ UNCHANGED <<rows, events, cache, announced>>

Start(r) ==
    \E o \in OrderIds :
        \/ CreateInsert(r, o)
        \/ \E target \in Status : TransitionRead(r, o, target)
        \/ \E target \in Status : TransitionRejected(r, o, target)
        \/ StatusCacheHit(r, o)
        \/ StatusCacheMiss(r, o)
        \/ ReturnRead(r, o)

Continue(r) ==
    \/ CreateConfirm(r)
    \/ CreatePublish(r)
    \/ CreateFillCache(r)
    \/ TransitionCommit(r)
    \/ TransitionInvalidate(r)
    \/ TransitionPublish(r)
    \/ StatusLoad(r)
    \/ StatusFillCache(r)
    \/ ReturnCommit(r)
    \/ ReturnPublish(r)

Next ==
    \/ \E r \in Requests : Start(r) \/ Continue(r) \/ Fail(r)
    \/ \E o \in OrderIds : Expire(o)

Spec == Init /\ [][Next]_vars

(* The event loop resumes a handler whose await has completed, and Redis    *)
(* expires keys; clients need not send anything and nothing need fail.      *)
Fairness ==
    /\ \A r \in Requests : WF_vars(Continue(r))
    /\ \A o \in OrderIds : WF_vars(Expire(o))

-----------------------------------------------------------------------------
(* Properties. *)

Reached(o, s) == \E i \in DOMAIN events[o] : events[o][i].to = s

(* However requests interleave and fail, an order's recorded history never    *)
(* has a gap: every event leaves a status an earlier event entered, along an   *)
(* edge of VALID_TRANSITIONS (a return stays where it is), so an order that    *)
(* was delivered was recorded as shipped, fulfilled and confirmed before.      *)
HistoryHasNoGap ==
    \A o \in OrderIds : \A i \in DOMAIN events[o] :
        LET e == events[o][i] IN
        IF e.from = "absent" THEN i = 1 /\ e.to = "pending"
        ELSE /\ \E j \in 1..(i - 1) : events[o][j].to = e.from
             /\ \/ <<e.from, e.to>> \in VALID_TRANSITIONS
                \/ e.from = e.to /\ e.to \in Returnable

(* Whatever is stored or cached about an order was once committed: the row    *)
(* and the cached document show a status the history entered, and money is     *)
(* marked refunded only if a cancellation was recorded.  A cache filled from    *)
(* a stale read may be old but never shows a status the order never had.        *)
NothingInvented ==
    \A o \in OrderIds :
        /\ Known(o) => Reached(o, rows[o].status)
        /\ cache[o] # Miss => Reached(o, cache[o].status)
        /\ "refunded" \in {rows[o].payment, cache[o].payment} => Reached(o, "cancelled")
        /\ rows[o].closed => Reached(o, "closed") \/ Reached(o, "cancelled")

(* A transition is recorded from the status the order really had and the      *)
(* last event entered the status the row shows, so replaying order_events      *)
(* rebuilds the row.  Needs requests that do not overlap.                       *)
AuditTrailReplays ==
    \A o \in OrderIds :
        /\ \A i \in DOMAIN events[o] \ {1} : events[o][i].from = events[o][i - 1].to
        /\ Known(o) => events[o][Len(events[o])].to = rows[o].status

(* An order is refunded exactly when it is cancelled and is marked closed      *)
(* exactly in a terminal status: status, payment_status and closed_at are       *)
(* separate columns written by separate statements and transactions.            *)
ColumnsAgree ==
    \A o \in OrderIds :
        /\ rows[o].payment = "refunded" <=> rows[o].status = "cancelled"
        /\ rows[o].status = "pending" => rows[o].payment = "authorized"
        /\ rows[o].closed <=> rows[o].status \in Terminal

(* With requests one at a time, a cached document that differs from the row    *)
(* while nothing runs is left by a request that died between its commit and     *)
(* its DEL: invalidation itself loses no update.                                *)
StaleOnlyAfterFailure ==
    \A o \in OrderIds :
        \/ cache[o] \in {Miss, StatusOut(rows[o])}
        \/ \E r \in Requests : req[r].stage \notin {"new", "done"}

(* With requests one at a time, and unless one died, the last message on the   *)
(* orders.* channels tells subscribers the status the row has: "created" stands  *)
(* for the confirmation, a return changes nothing.                               *)
SubscribersUpToDate ==
    \A o \in OrderIds :
        \/ announced[o] = rows[o].status
        \/ announced[o] = "created" /\ rows[o].status = "confirmed"
        \/ announced[o] = "return_initiated" /\ rows[o].status \in Returnable
        \/ \E r \in Requests : req[r].stage \notin {"new", "done"}

(* Without overlap the service implements the abstract order lifecycle.        *)
Lifecycle ==
    INSTANCE OrderLifecycle WITH
        Edges <- VALID_TRANSITIONS,
        status <- [o \in OrderIds |-> rows[o].status],
        payment <- [o \in OrderIds |-> rows[o].payment]

(* Every commit of the service is one legal step of the promised order          *)
(* lifecycle, status and payment moving together.                               *)
ImplementsLifecycle == Lifecycle!Spec

(* What has been shipped has been paid for: the payment is captured when the     *)
(* order is placed, before it can leave the warehouse.                            *)
ShippedIsPaid ==
    \A o \in OrderIds :
        rows[o].status \in {"shipped", "delivered", "closed"} => rows[o].payment = "captured"

(* Once an order is closed or cancelled its status never changes again          *)
(* (VALID_TRANSITIONS maps both to the empty set).                              *)
TerminalIsFinal ==
    [][\A o \in OrderIds :
        rows[o].status \in Terminal => rows'[o].status = rows[o].status]_vars

(* A cached status that differs from the row does not stay for ever: whoever    *)
(* filled the cache late, and whoever died before deleting the key, the expiry  *)
(* removes it.                                                                  *)
StaleCacheHeals ==
    \A o \in OrderIds : <>[](cache[o] \in {Miss, StatusOut(rows[o])})

(* An order does not stay pending unless a request died: the handler that       *)
(* placed it confirms it, or another request cancelled it first.                *)
PendingIsLeft ==
    \A o \in OrderIds :
        rows[o].status = "pending" ~>
            \/ rows[o].status # "pending"
            \/ \E r \in Requests : req[r].stage = "failed"
=============================================================================
