------------------------------- MODULE Gateway -------------------------------
(***************************************************************************)
(* The API gateway (api_gateway/app/routes/proxy.py), for one client address: *)
(* the Redis counter that limits its requests, and the forwarding of a         *)
(* request to the service its path belongs to.  INCR and EXPIRE are two         *)
(* commands.  A request that is forwarded is sent once; a service may carry it   *)
(* out although its answer comes too late.                                       *)
(***************************************************************************)
EXTENDS Naturals, FiniteSets

CONSTANTS
    Calls,      \* requests that arrive at the gateway; each once
    Limit       \* rate_limit_requests (600)

GatewayAssumption == Limit \in Nat \ {0} /\ IsFiniteSet(Calls)

VARIABLES
    count,      \* gateway:rate:{ip}, 0 when there is no such key
    expires,    \* the key has an expiry
    call,       \* call[c]: how far the handler of request c has come
    executed,   \* history: executed[c], how often the service carried c out
    passed,     \* history: the requests let through since the key appeared
    died        \* history: a handler ended between INCR and EXPIRE

vars == <<count, expires, call, executed, passed, died>>

Stage == {"new", "routed", "first", "forwarding", "answered", "not_found",
          "refused", "unavailable", "failed"}

TypeOK ==
    /\ count \in Nat /\ expires \in BOOLEAN /\ died \in BOOLEAN
    /\ call \in [Calls -> Stage] /\ executed \in [Calls -> Nat] /\ passed \subseteq Calls

Init ==
    /\ count = 0 /\ expires = FALSE /\ call = [c \in Calls |-> "new"]
    /\ executed = [c \in Calls |-> 0] /\ passed = {} /\ died = FALSE

Move(c, stage) == call' = [call EXCEPT ![c] = stage]

(* resolve_service comes first: a path that belongs to nobody is not counted.       *)
Route(c) ==
    /\ call[c] = "new"
    /\ Move(c, "routed") \/ Move(c, "not_found")
    /\ UNCHANGED <<count, expires, executed, passed, died>>

LetThrough(c) == Move(c, "forwarding") /\ passed' = passed \cup {c}

(* A plausible slip: the limit is compared before the request is counted. *)
AllowsOneMore(n) == n <= Limit + 1

Allows(n) == n <= Limit

Incr(c) ==
    /\ call[c] = "routed"
    /\ count' = count + 1
    /\ IF count = 0 THEN Move(c, "first") /\ UNCHANGED passed
       ELSE IF Allows(count + 1) THEN LetThrough(c)
       ELSE Move(c, "refused") /\ UNCHANGED passed
    /\ UNCHANGED <<expires, executed, died>>

(* A plausible slip: the expiry is set when the limit is reached. *)
ExpireWhenFull(c) ==
    /\ call[c] = "first"
    /\ expires' = (count = Limit)
    /\ LetThrough(c)
    /\ UNCHANGED <<count, executed, died>>

(* The request that made the key gives it an expiry.                                  *)
Expire(c) ==
    /\ call[c] = "first"
    /\ expires' = TRUE
    /\ LetThrough(c)
    /\ UNCHANGED <<count, executed, died>>

(* The gateway dies, or loses Redis, between the two commands.                          *)
Die(c) ==
    /\ call[c] = "first"
    /\ Move(c, "failed") /\ died' = TRUE
    /\ UNCHANGED <<count, expires, executed, passed>>

(* rate_limit_window_seconds are over.                                                   *)
WindowEnds ==
    /\ expires
    /\ count' = 0 /\ expires' = FALSE /\ passed' = {}
    /\ UNCHANGED <<call, executed, died>>

(* The service carries the request out, perhaps after the gateway gave up.               *)
Execute(c) ==
    /\ call[c] \in {"forwarding", "unavailable"} /\ executed[c] = 0
    /\ executed' = [executed EXCEPT ![c] = @ + 1]
    /\ UNCHANGED <<count, expires, call, passed, died>>

Answer(c) ==
    /\ call[c] = "forwarding" /\ executed[c] = 1
    /\ Move(c, "answered")
    /\ UNCHANGED <<count, expires, executed, passed, died>>

(* No connection, or no answer within 30 seconds: 502, and no second attempt.             *)
TimeOut(c) ==
    /\ call[c] = "forwarding"
    /\ Move(c, "unavailable")
    /\ UNCHANGED <<count, expires, executed, passed, died>>

Next ==
    \/ \E c \in Calls : Route(c) \/ Incr(c) \/ Expire(c) \/ Die(c) \/ Execute(c) \/ Answer(c)
                        \/ TimeOut(c)
    \/ WindowEnds

(* Handlers go on unless they die, and Redis drops a key whose time is over.               *)
Fairness ==
    /\ \A c \in Calls : WF_vars(Expire(c))
    /\ WF_vars(WindowEnds)

-----------------------------------------------------------------------------
(* From the moment the counter appears to the moment it expires, no more requests than   *)
(* the limit get through, however the handlers of concurrent requests interleave           *)
(* (_rate_limit).                                                                           *)
LimitHolds == Cardinality(passed) <= Limit

(* The counter that shuts a client out goes away again, unless a handler ended between     *)
(* INCR and EXPIRE (_rate_limit).                                                           *)
ShutOutIsTemporary == (count > Limit) ~> (count = 0 \/ died)

(* A request is carried out at most once, exactly once if it was answered, and not at all  *)
(* if it was refused; after a 502 nobody knows (proxy_request).                              *)
CarriedOutOnce ==
    \A c \in Calls :
        /\ executed[c] <= 1
        /\ call[c] = "answered" => executed[c] = 1
        /\ call[c] \notin {"forwarding", "answered", "unavailable"} => executed[c] = 0
=============================================================================
