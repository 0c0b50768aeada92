---------------------------- MODULE Notification -----------------------------
(***************************************************************************)
(* The notification service (notification_service): a Redis subscriber that  *)
(* writes every message on orders.* to a MongoDB collection.  Pub/sub keeps   *)
(* nothing for a subscriber that is away.  Messages are numbered in the order  *)
(* in which they are published.                                                *)
(***************************************************************************)
EXTENDS Naturals, SequencesExt

CONSTANTS
    Messages,   \* how many messages are published
    Restarts    \* how many times the service starts

NotificationAssumption == Messages \in Nat /\ Restarts \in Nat

VARIABLES
    sent,       \* how many messages were published
    starts,     \* how many times the service has started
    loop,       \* the subscriber: "down", "starting", "listening", "logging" or "dead"
    pending,    \* messages in its subscription, oldest first
    message,    \* the message that it writes, or 0
    logged,     \* notification_log, oldest first
    excused     \* history: messages that came while nobody listened, or failed, or were cut off

vars == <<sent, starts, loop, pending, message, logged, excused>>

TypeOK ==
    /\ sent \in 0..Messages /\ starts \in 0..Restarts /\ message \in 0..sent
    /\ loop \in {"down", "starting", "listening", "logging", "dead"}
    /\ ToSet(pending) \cup ToSet(logged) \cup excused \subseteq 1..sent

Init ==
    /\ sent = 0 /\ starts = 0 /\ loop = "down" /\ pending = <<>> /\ message = 0
    /\ logged = <<>> /\ excused = {}

Subscribed == loop \in {"listening", "logging"}

Publish ==
    /\ sent < Messages
    /\ sent' = sent + 1
    /\ IF Subscribed THEN pending' = Append(pending, sent + 1) /\ UNCHANGED excused
       ELSE excused' = excused \cup {sent + 1} /\ UNCHANGED pending
    /\ UNCHANGED <<starts, loop, message, logged>>

(* lifespan: the indexes are ensured, then the loop is a task of its own.          *)
Start ==
    /\ loop = "down" /\ starts < Restarts
    /\ starts' = starts + 1 /\ loop' = "starting"
    /\ UNCHANGED <<sent, pending, message, logged, excused>>

Subscribe ==
    /\ loop = "starting"
    /\ loop' = "listening"
    /\ UNCHANGED <<sent, starts, pending, message, logged, excused>>

(* A plausible slip: the newest message is taken first. *)
TakeNewest ==
    /\ loop = "listening" /\ pending # <<>>
    /\ loop' = "logging" /\ message' = Last(pending) /\ pending' = Front(pending)
    /\ UNCHANGED <<sent, starts, logged, excused>>

(* A message that is not JSON is kept as it came: there is nothing to skip.          *)
Take ==
    /\ loop = "listening" /\ pending # <<>>
    /\ loop' = "logging" /\ message' = Head(pending) /\ pending' = Tail(pending)
    /\ UNCHANGED <<sent, starts, logged, excused>>

Log ==
    /\ loop = "logging"
    /\ loop' = "listening" /\ logged' = Append(logged, message) /\ message' = 0
    /\ UNCHANGED <<sent, starts, pending, excused>>

(* The insert fails, or is carried out and its answer lost: the exception is logged,  *)
(* and the message not tried again.                                                    *)
LogFails ==
    /\ loop = "logging"
    /\ loop' = "listening" /\ excused' = excused \cup {message} /\ message' = 0
    /\ logged' \in {logged, Append(logged, message)}
    /\ UNCHANGED <<sent, starts, pending>>

CutOff == excused' = excused \cup ToSet(pending) \cup ({message} \ {0})

(* Redis closes the connection: the task ends, and the service goes on without it.    *)
Disconnected ==
    /\ loop \in {"starting", "listening"}
    /\ loop' = "dead" /\ CutOff /\ pending' = <<>> /\ message' = 0
    /\ UNCHANGED <<sent, starts, logged>>

(* Shutdown cancels the task, also in the middle of an insert, which may be done.     *)
Stop ==
    /\ loop # "down"
    /\ loop' = "down" /\ CutOff /\ pending' = <<>> /\ message' = 0
    /\ logged' \in {logged} \cup (IF message = 0 THEN {} ELSE {Append(logged, message)})
    /\ UNCHANGED <<sent, starts>>

Next ==
    Publish \/ Start \/ Subscribe \/ Take \/ Log \/ LogFails \/ Disconnected \/ Stop

-----------------------------------------------------------------------------
(* Through restarts, failures and a connection that breaks, the log holds messages in   *)
(* the order in which they were published, none twice, and only those are missing that  *)
(* came while nobody listened or that failed (redis_subscriber_loop).                    *)
LogFollowsMessages ==
    /\ \A i, j \in DOMAIN logged : i < j => logged[i] < logged[j]
    /\ 1..sent = ToSet(logged) \cup ToSet(pending) \cup excused \cup ({message} \ {0})
=============================================================================
