------------------------------ MODULE Observers ------------------------------
(***************************************************************************)
(* What goes on around an order without anybody's request: orders expire from *)
(* the cache and stuck ones move on, the gateway counts and forgets requests,   *)
(* the public demo announces orders to those who watch it, and the containers    *)
(* come up.  The four meet only in what the model of each leaves open, so one at  *)
(* a time is enough: a behaviour of this module is a behaviour of one part,        *)
(* picked in the initial state.                                                     *)
(***************************************************************************)
EXTENDS Orders

CONSTANTS
    None,                                                           \* no order
    Sales, Clients, History, Recent, SeenLimit, SeenKept, Pulses,   \* of EventHub
    Calls, Limit,                                                   \* of Gateway
    Deployments, Faults                                             \* of Startup

VARIABLES
    part,
    orders, published, inbox, task, socket, clients, activity, seen, emitted, told, received,
    doubled, forgotten,
    count, expires, call, executed, passed, died,
    deployment, up, faults, schema, container, operator

Hub == INSTANCE EventHub
Proxy == INSTANCE Gateway
Startup == INSTANCE Startup

ASSUME ObserversAssumption ==
    Hub!EventHubAssumption /\ Proxy!GatewayAssumption /\ Startup!StartupAssumption

hubVars == <<orders, published, inbox, task, socket, clients, activity, seen, emitted, told,
             received, doubled, forgotten>>

proxyVars == <<count, expires, call, executed, passed, died>>

startupVars == <<deployment, up, faults, schema, container, operator>>

observersVars == <<part, vars, hubVars, proxyVars, startupVars>>

ObserversInit ==
    /\ part \in {"orders", "hub", "proxy", "startup"}
    /\ Init /\ Hub!Init /\ Proxy!Init /\ Startup!Init
    /\ part # "startup" => deployment = CHOOSE d \in Deployments : TRUE

ObserversNext ==
    /\ UNCHANGED part
    /\ \/ part = "orders" /\ Next /\ UNCHANGED <<hubVars, proxyVars, startupVars>>
       \/ part = "hub" /\ Hub!Next /\ UNCHANGED <<vars, proxyVars, startupVars>>
       \/ part = "proxy" /\ Proxy!Next /\ UNCHANGED <<vars, hubVars, startupVars>>
       \/ part = "startup" /\ Startup!Next /\ UNCHANGED <<vars, hubVars, proxyVars>>

(* Docker restarts containers and asks for their health, a container goes on while   *)
(* what it needs is there, and stores come back.                                       *)
StartupFairness ==
    /\ \A s \in Startup!Services :
        WF_startupVars(part = "startup" /\ s \in deployment /\ Startup!Progress(s))
    /\ \A d \in Startup!Stores : WF_startupVars(part = "startup" /\ Startup!ComeBack(d))
    /\ WF_startupVars(part = "startup" /\ Startup!Command)

ObserversSpec ==
    /\ ObserversInit /\ [][ObserversNext]_observersVars
    /\ Fairness /\ Hub!Fairness /\ Proxy!Fairness /\ StartupFairness

-----------------------------------------------------------------------------
(* A stale status is dropped in the end, and a pending order is left (create_order,   *)
(* order:status:{id}).                                                                  *)
OrdersSettle == StaleCacheHeals /\ PendingIsLeft

(* A client of the public demo gets each activity once, and an order is announced once,  *)
(* as long as it is remembered (broadcast, emit_order).                                    *)
HubIsSound == Hub!TypeOK /\ Hub!EveryActivityOnce /\ Hub!AnnouncedOnce

(* An order that stays among the newest is announced (poll_orders_loop). *)
RecentAreAnnounced == Hub!RecentAreAnnounced

(* No more requests than the limit pass while the counter lives, and each is carried out   *)
(* at most once (_rate_limit, proxy_request).                                                *)
ProxyIsSound == Proxy!TypeOK /\ Proxy!LimitHolds /\ Proxy!CarriedOutOnce

(* A client is not shut out for good (_rate_limit). *)
ShutOutIsTemporary == Proxy!ShutOutIsTemporary

(* Committed schemas are what their revisions create, and whoever serves finds those it     *)
(* depends on (env.py, docker-compose.yml).                                                   *)
StartupIsSound ==
    part = "startup" =>
        Startup!TypeOK /\ Startup!SchemaFollowsRevision /\ Startup!DependenciesCameFirst

(* Everything comes up and reports ok in the end (entrypoint.sh, GET /health). *)
EverythingComesUp == part = "startup" => Startup!EverythingComesUp
=============================================================================
