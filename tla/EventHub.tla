------------------------------ MODULE EventHub -------------------------------
(***************************************************************************)
(* The event hub of the public demo (public_demo_service/app/events.py): one *)
(* asyncio process in which a Redis listener, an order poller and a loop for  *)
(* extras each broadcast to the connected WebSockets.  A step is what one of   *)
(* them does between two awaits.  A broadcast of an activity enters the        *)
(* history and fixes its audience in one step, then sends to one client at a   *)
(* time.  The lock of the hub is never held across an await, so it never        *)
(* waits.  The statistics, and the two animations that follow an activity,       *)
(* leave nothing behind in the hub but the last statistics, and are left out.    *)
(*                                                                           *)
(* The order service is seen from outside: orders are created, and messages    *)
(* about them are published or lost.                                           *)
(***************************************************************************)
EXTENDS Naturals, FiniteSetsExt, SequencesExt

CONSTANTS
    Sales,          \* identities of orders
    Clients,        \* WebSockets; each connects at most once
    History,        \* activity_history_limit
    Recent,         \* how many of the newest orders a poll looks at (30)
    SeenLimit,      \* how many identities make _trim_seen cut the set (4000)
    SeenKept,       \* how many it keeps (2000)
    Pulses,         \* a supplier activity is among the first so many broadcasts
    None            \* no order

EventHubAssumption ==
    /\ {History, Recent, SeenKept, Pulses} \subseteq Nat /\ SeenLimit \in Nat
    /\ SeenLimit - SeenKept >= Recent
    /\ None \notin Sales

VARIABLES
    orders,     \* the orders of the order service, newest first
    published,  \* the orders a message was published about
    inbox,      \* messages in the subscription of the listener, oldest first
    task,       \* task[t]: where a loop is, and the broadcast it is sending
    socket,     \* socket[c]: "new", "open" or, once the other end has gone, "closed"
    clients,    \* _clients
    activity,   \* _activity: the broadcasts in the history, newest first
    seen,       \* _seen_orders
    emitted,    \* history: how many activities were broadcast; it numbers them
    told,       \* history: told[o], how many were about order o, None for a pulse
    received,   \* history: received[c], the activities client c was sent
    doubled,    \* history: the clients that were sent an activity twice
    forgotten   \* history: the orders that trimming dropped from the set

vars == <<orders, published, inbox, task, socket, clients, activity, seen, emitted, told,
          received, doubled, forgotten>>

log == <<emitted, told, received, doubled, forgotten>>

hub == <<clients, activity, seen, log>>

Tasks == {"listener", "poller", "extras"}

Stage == {"starting", "waiting", "fetching", "emitting", "sending", "dead"}

(* number: the activity that is broadcast; to: its audience that is still to be   *)
(* served; dead: the sockets that failed; page: the orders to look at next.         *)
NoTask == [stage |-> "waiting", page |-> <<>>, number |-> 0, to |-> {}, dead |-> {}]

TypeOK ==
    /\ \A t \in Tasks : task[t].stage \in Stage /\ task[t].number <= emitted
    /\ IsInjective(orders) /\ ToSet(orders) \subseteq Sales /\ published \subseteq Sales
    /\ socket \in [Clients -> {"new", "open", "closed"}] /\ clients \subseteq Clients
    /\ Len(activity) <= History /\ ToSet(activity) \subseteq 1..emitted
    /\ Cardinality(seen) <= SeenLimit
    /\ told \in [Sales \cup {None} -> Nat] /\ doubled \subseteq Clients
    /\ \A c \in Clients : received[c] \subseteq 1..emitted

Init ==
    /\ orders = <<>> /\ published = {} /\ inbox = <<>>
    /\ task = [t \in Tasks |->
          IF t = "listener" THEN [NoTask EXCEPT !.stage = "starting"] ELSE NoTask]
    /\ socket = [c \in Clients |-> "new"] /\ clients = {} /\ activity = <<>> /\ seen = {}
    /\ emitted = 0 /\ told = [o \in Sales \cup {None} |-> 0]
    /\ received = [c \in Clients |-> {}] /\ doubled = {} /\ forgotten = {}

-----------------------------------------------------------------------------
(* The order service. *)
Place(o) ==
    /\ o \notin ToSet(orders)
    /\ orders' = <<o>> \o orders
    /\ UNCHANGED <<published, inbox, task, socket, hub>>

(* publish_event on a channel orders.*: Redis hands it to whoever is subscribed.   *)
Publish(o) ==
    /\ o \in ToSet(orders) \ published
    /\ published' = published \cup {o}
    /\ inbox' = IF task["listener"].stage \in {"starting", "dead"} THEN inbox
                ELSE Append(inbox, o)
    /\ UNCHANGED <<orders, task, socket, hub>>

-----------------------------------------------------------------------------
(* WebSockets. *)

(* connect: the client is added and the history is copied without an await in      *)
(* between, and the copy is the first thing the socket is sent.                     *)
Connect(c) ==
    /\ socket[c] = "new"
    /\ socket' = [socket EXCEPT ![c] = "open"]
    /\ clients' = clients \cup {c}
    /\ received' = [received EXCEPT ![c] = ToSet(activity)]
    /\ UNCHANGED <<orders, published, inbox, task, activity, seen, emitted, told, doubled,
                   forgotten>>

(* The other end goes away; the hub learns of it later.                              *)
Leave(c) ==
    /\ socket[c] = "open"
    /\ socket' = [socket EXCEPT ![c] = "closed"]
    /\ UNCHANGED <<orders, published, inbox, task, hub>>

(* disconnect, after receive_text raised WebSocketDisconnect.                          *)
Disconnect(c) ==
    /\ c \in clients /\ socket[c] = "closed"
    /\ clients' = clients \ {c}
    /\ UNCHANGED <<orders, published, inbox, task, socket, activity, seen, log>>

-----------------------------------------------------------------------------
(* broadcast *)

Shortened(s, n) == SubSeq(s, 1, Min({n, Len(s)}))

(* An activity about an order or a pulse. *)
Broadcast(t, o, page) ==
    /\ emitted' = emitted + 1
    /\ told' = [told EXCEPT ![o] = @ + 1]
    /\ activity' = Shortened(<<emitted + 1>> \o activity, History)
    /\ task' = [task EXCEPT ![t] =
          [stage |-> "sending", page |-> page, number |-> emitted + 1, to |-> clients,
           dead |-> {}]]

(* send_json to one client of the audience; a closed socket raises.                    *)
Send(t, c) ==
    /\ task[t].stage = "sending" /\ c \in task[t].to
    /\ IF socket[c] = "open"
       THEN /\ received' = [received EXCEPT ![c] = @ \cup {task[t].number}]
            /\ doubled' = IF task[t].number \in received[c] THEN doubled \cup {c} ELSE doubled
            /\ task' = [task EXCEPT ![t].to = @ \ {c}]
       ELSE /\ task' = [task EXCEPT ![t].to = @ \ {c}, ![t].dead = @ \cup {c}]
            /\ UNCHANGED <<received, doubled>>
    /\ UNCHANGED <<orders, published, inbox, socket, clients, activity, seen, emitted, told,
                   forgotten>>

(* The sockets that failed are dropped, and the loop goes on.                            *)
Sent(t) ==
    /\ task[t].stage = "sending" /\ task[t].to = {}
    /\ clients' = clients \ task[t].dead
    /\ task' = [task EXCEPT ![t] =
          [NoTask EXCEPT !.stage = IF t = "poller" THEN "emitting" ELSE "waiting",
                         !.page = task[t].page]]
    /\ UNCHANGED <<orders, published, inbox, socket, activity, seen, log>>

-----------------------------------------------------------------------------
(* emit_order *)

(* A plausible slip: orders are announced without a look at the set. *)
UnseenAll(o) == TRUE

Unseen(o) == o \notin seen

(* _trim_seen: what may be left of a set that grew too large is an arbitrary part of it. *)
Trimmed(known) ==
    IF Cardinality(known) > SeenLimit THEN kSubset(SeenKept, known) ELSE {known}

(* The order is remembered and its activity begins in one step.                          *)
Announce(t, o, page) ==
    LET known == seen \cup {o} IN
    /\ \E kept \in Trimmed(known) :
           /\ seen' = kept
           /\ forgotten' = forgotten \cup (known \ kept)
    /\ Broadcast(t, o, page)
    /\ UNCHANGED <<orders, published, socket, clients, received, doubled>>

-----------------------------------------------------------------------------
(* redis_listener and handle_redis_message *)

Subscribe ==
    /\ task["listener"].stage = "starting"
    /\ task' = [task EXCEPT !["listener"].stage = "waiting"]
    /\ UNCHANGED <<orders, published, inbox, socket, hub>>

TakeMessage ==
    /\ task["listener"].stage = "waiting" /\ inbox # <<>>
    /\ task' = [task EXCEPT !["listener"] = [NoTask EXCEPT !.stage = "fetching",
                                                           !.page = <<Head(inbox)>>]]
    /\ inbox' = Tail(inbox)
    /\ UNCHANGED <<orders, published, socket, hub>>

(* The gateway answered with the order, or did not and the message stands for it.       *)
Fetched ==
    LET o == Head(task["listener"].page) IN
    /\ task["listener"].stage = "fetching"
    /\ UNCHANGED inbox
    /\ IF Unseen(o) THEN Announce("listener", o, <<>>)
       ELSE /\ task' = [task EXCEPT !["listener"] = NoTask]
            /\ UNCHANGED <<orders, published, socket, hub>>

(* Any other exception is logged, and the message is gone.                               *)
FetchFails ==
    /\ task["listener"].stage = "fetching"
    /\ task' = [task EXCEPT !["listener"] = NoTask]
    /\ UNCHANGED <<orders, published, inbox, socket, hub>>

(* Redis closes the connection: the task ends, and nothing starts another.               *)
ListenerDies ==
    /\ task["listener"].stage \in {"starting", "waiting"}
    /\ task' = [task EXCEPT !["listener"].stage = "dead"]
    /\ inbox' = <<>>
    /\ UNCHANGED <<orders, published, socket, hub>>

-----------------------------------------------------------------------------
(* poll_orders_loop *)

Poll ==
    /\ task["poller"].stage = "waiting" /\ orders # <<>>
    /\ task' = [task EXCEPT !["poller"] = [NoTask EXCEPT !.stage = "emitting",
                                               !.page = Shortened(orders, Recent)]]
    /\ UNCHANGED <<orders, published, inbox, socket, hub>>

(* A plausible slip: an HTTP error ends the loop. *)
PollFailsForGood ==
    /\ task["poller"].stage = "waiting"
    /\ task' = [task EXCEPT !["poller"].stage = "dead"]
    /\ UNCHANGED <<orders, published, inbox, socket, hub>>

(* An HTTP error or a status other than 200 leaves the loop as it is.                     *)
PollFails ==
    /\ task["poller"].stage = "waiting"
    /\ UNCHANGED vars

(* The orders of the page up to the first that was not seen.                              *)
EmitPolled ==
    LET page == task["poller"].page
        fresh == {i \in 1..Len(page) : Unseen(page[i])} IN
    /\ task["poller"].stage = "emitting"
    /\ UNCHANGED inbox
    /\ IF fresh # {}
       THEN Announce("poller", page[Min(fresh)], SubSeq(page, Min(fresh) + 1, Len(page)))
       ELSE /\ task' = [task EXCEPT !["poller"] = NoTask]
            /\ UNCHANGED <<orders, published, socket, hub>>

-----------------------------------------------------------------------------
(* poll_extras_loop: emit_supplier_flow every eighth round, whatever the gateway said.     *)
Pulse ==
    /\ task["extras"].stage = "waiting"
    /\ emitted < Pulses
    /\ Broadcast("extras", None, <<>>)
    /\ UNCHANGED <<orders, published, inbox, socket, clients, seen, received, doubled, forgotten>>

Advance(t) ==
    \/ Sent(t) \/ \E c \in Clients : Send(t, c)

Next ==
    \/ \E o \in Sales : Place(o) \/ Publish(o)
    \/ \E c \in Clients : Connect(c) \/ Leave(c) \/ Disconnect(c)
    \/ \E t \in Tasks : Advance(t)
    \/ Subscribe \/ TakeMessage \/ Fetched \/ FetchFails \/ ListenerDies
    \/ Poll \/ PollFails \/ EmitPolled
    \/ Pulse

(* The poller comes round every 2.5 seconds whatever happened before, and the gateway     *)
(* answers it now and then; a send ends because uvicorn drops a socket that does not       *)
(* answer its pings.                                                                        *)
Fairness ==
    /\ SF_vars(Poll)
    /\ WF_vars(EmitPolled)
    /\ WF_vars(Advance("poller"))

-----------------------------------------------------------------------------
(* Properties. *)

(* The loops that have yet to send activity n to client c. *)
Owed(c, n) ==
    {t \in Tasks : task[t].number = n /\ c \in task[t].to}

(* However three loops broadcast while sockets come and go, a connected client gets    *)
(* every activity of the history exactly once, with the copy it was sent at first or    *)
(* live, and none twice (connect and broadcast in events.py).                            *)
EveryActivityOnce ==
    \A c \in {d \in clients : socket[d] = "open"}, n \in 1..emitted :
        /\ c \notin doubled /\ (n \in received[c] => Owed(c, n) = {})
        /\ n \in ToSet(activity) => n \in received[c] \/ Owed(c, n) # {}

(* The listener and the poller find the same orders, and an order is announced a second *)
(* time only if the set of seen orders had dropped it in between (emit_order).            *)
AnnouncedOnce ==
    \A o \in Sales : told[o] > 1 => o \in forgotten

(* An order that stays among the newest is announced in the end, although its message    *)
(* may be lost, the listener may be dead and polls may fail (poll_orders_loop).            *)
RecentAreAnnounced ==
    \A o \in Sales : <>[](o \in ToSet(Shortened(orders, Recent))) => <>(told[o] > 0)
=============================================================================
