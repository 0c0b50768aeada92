------------------------------ MODULE Dispatch -------------------------------
(***************************************************************************)
(* The fulfillment service (fulfillment_service) and the shipping service    *)
(* (shipping_service).  A job is committed with its pick list, then pushed    *)
(* on the Redis list of jobs, then announced: three steps.  A change of its    *)
(* status is decided from an unlocked row, committed, and announced.  A label  *)
(* is one transaction; tracking it adds an event to the answer that is never   *)
(* stored.  Jobs and shipments are named by the request that made them.        *)
(***************************************************************************)
EXTENDS Integers, Sequences, FiniteSets

CONSTANTS
    Weights,    \* weights of parcels, in thousandths of an ounce
    Stated,     \* shipping costs that clients state, in cents
    Requests,   \* HTTP requests; each is issued at most once
    Budget,     \* how many of them are issued at most
    None        \* no request

DispatchAssumption ==
    /\ Budget \in Nat /\ None \notin Requests
    /\ Weights \subseteq Nat \ {0} /\ Stated \subseteq Int

VARIABLES
    jobs,       \* jobs[r]: status of the fulfillment_jobs row that r inserted
    queue,      \* the Redis list of jobs, newest first
    told,       \* told[j]: the last fulfillment.job.* message about the job
    shipments,  \* shipments[r]: the shipment that r inserted
    answers,    \* history: answers[s], how the last tracking of a shipment ended
    working,    \* working[r]: how far the handler of request r has come
    stirred     \* history: handlers have overlapped, or one has died

vars == <<jobs, queue, told, shipments, answers, working, stirred>>

Idle == {"new", "done", "failed"}

JobStatus == {"queued", "pick", "pack", "ready_to_ship", "completed", "cancelled"}

VALID_TRANSITIONS ==
    { <<"queued", "pick">>, <<"queued", "cancelled">>, <<"pick", "pack">>,
      <<"pick", "cancelled">>, <<"pack", "ready_to_ship">>, <<"pack", "cancelled">>,
      <<"ready_to_ship", "completed">> }

(* MOCK_CARRIERS: the base cost of each service level, in cents.                     *)
Base == [ground |-> 899, express |-> 1499, overnight |-> 2499]

(* What a parcel costs, by rate or as stated; its events, each stored or not.  The      *)
(* weight is the client's: the column rounds it to a hundredth, but the rate has been     *)
(* worked out, and nothing but an answer reads the column.                                  *)
NoShipment == [level |-> "none", weight |-> 0, cost |-> 0, stated |-> FALSE, events |-> {}]

LabelCreated == [type |-> "label_created", stored |-> TRUE]

NoWork == [stage |-> "new", job |-> None, seen |-> "absent", target |-> "absent"]

TypeOK ==
    /\ jobs \in [Requests -> JobStatus \cup {"absent"}]
    /\ queue \in Seq(Requests)
    /\ told \in [Requests -> JobStatus \cup {"absent"}]
    /\ \A r \in Requests : shipments[r].cost \in Int
    /\ answers \in [Requests -> {"none", "tracked", "error"}]
    /\ \A r \in Requests :
           working[r].stage \in Idle \cup {"creating", "committed", "pushed", "read", "updated"}
    /\ stirred \in BOOLEAN

Init ==
    /\ jobs = [r \in Requests |-> "absent"] /\ told = jobs
    /\ queue = << >>
    /\ shipments = [r \in Requests |-> NoShipment]
    /\ answers = [r \in Requests |-> "none"]
    /\ working = [r \in Requests |-> NoWork]
    /\ stirred = FALSE

-----------------------------------------------------------------------------
Busy(r) == working[r].stage \notin Idle

Begin(r, h) ==
    /\ working[r].stage = "new"
    /\ Cardinality({q \in Requests : working[q].stage # "new"}) < Budget
    /\ working' = [working EXCEPT ![r] = h]
    /\ stirred' = (stirred \/ \E q \in Requests : Busy(q))

Advance(r, stage) == working' = [working EXCEPT ![r].stage = stage] /\ UNCHANGED stirred

Finish(r, final) ==
    /\ working' = [working EXCEPT ![r] = [NoWork EXCEPT !.stage = final]]
    /\ UNCHANGED stirred

-----------------------------------------------------------------------------
(* create_fulfillment_job *)
CreateJob(r) ==
    /\ Begin(r, [NoWork EXCEPT !.stage = "creating"])
    /\ UNCHANGED <<jobs, queue, told, shipments, answers>>

CreateCommit(r) ==
    /\ working[r].stage = "creating"
    /\ jobs' = [jobs EXCEPT ![r] = "queued"]
    /\ Advance(r, "committed")
    /\ UNCHANGED <<queue, told, shipments, answers>>

(* enqueue_job *)
Enqueue(r) ==
    /\ working[r].stage = "committed"
    /\ queue' = <<r>> \o queue
    /\ Advance(r, "pushed")
    /\ UNCHANGED <<jobs, told, shipments, answers>>

AnnounceJob(r) ==
    /\ working[r].stage = "pushed"
    /\ told' = [told EXCEPT ![r] = "queued"]
    /\ Finish(r, "done")
    /\ UNCHANGED <<jobs, queue, shipments, answers>>

Allowed(seen, target) == <<seen, target>> \in VALID_TRANSITIONS

(* update_job_status *)
UpdateRead(r, j, target) ==
    /\ jobs[j] # "absent"
    /\ Begin(r, IF Allowed(jobs[j], target)
                THEN [stage |-> "read", job |-> j, seen |-> jobs[j], target |-> target]
                ELSE [NoWork EXCEPT !.stage = "done"])
    /\ UNCHANGED <<jobs, queue, told, shipments, answers>>

UpdateCommit(r) ==
    /\ working[r].stage = "read"
    /\ jobs' = [jobs EXCEPT ![working[r].job] = working[r].target]
    /\ Advance(r, "updated")
    /\ UNCHANGED <<queue, told, shipments, answers>>

(* A plausible slip: the message carries the status before the change. *)
AnnounceOld(r) ==
    /\ working[r].stage = "updated"
    /\ told' = [told EXCEPT ![working[r].job] = working[r].seen]
    /\ Finish(r, "done")
    /\ UNCHANGED <<jobs, queue, shipments, answers>>

AnnounceStatus(r) ==
    /\ working[r].stage = "updated"
    /\ told' = [told EXCEPT ![working[r].job] = working[r].target]
    /\ Finish(r, "done")
    /\ UNCHANGED <<jobs, queue, shipments, answers>>

-----------------------------------------------------------------------------
(* calculate_rates: the base cost, or its multiple for more than 16 ounces, rounded   *)
(* half to even to a cent.                                                              *)
Rate(level, weight) ==
    LET exact == Base[level] * weight
        floor == exact \div 16000
        rest == exact % 16000 IN
    IF weight <= 16000 THEN Base[level]
    ELSE IF rest > 8000 \/ (rest = 8000 /\ floor % 2 = 1) THEN floor + 1
    ELSE floor

Label(level, weight, cost, stated) ==
    [level |-> level, weight |-> weight, cost |-> cost, stated |-> stated,
     events |-> {LabelCreated}]

(* create_label: the cost that the client states is taken as it is, for any service     *)
(* level; without one the level must be one of the carriers'.  The shipment and its      *)
(* first event are one transaction.                                                        *)
CreateLabel(r, level, weight) ==
    /\ Begin(r, [NoWork EXCEPT !.stage = "done"])
    /\ \/ /\ level \in DOMAIN Base
          /\ shipments' = [shipments EXCEPT ![r] = Label(level, weight, Rate(level, weight), FALSE)]
       \/ \E cost \in Stated :
              shipments' = [shipments EXCEPT ![r] = Label(level, weight, cost, TRUE)]
    /\ UNCHANGED <<jobs, queue, told, answers>>

(* get_tracking: a shipment with its label only is shown in transit, by an event that   *)
(* is in no table and has no id.                                                          *)
Shown(s) ==
    IF shipments[s].events = {LabelCreated}
    THEN {LabelCreated, [type |-> "in_transit", stored |-> FALSE]}
    ELSE shipments[s].events

(* track_shipment: an event without an id is not a TrackingEventOut.                      *)
Track(r, s) ==
    /\ shipments[s].level # "none"
    /\ Begin(r, [NoWork EXCEPT !.stage = "done"])
    /\ answers' = [answers EXCEPT ![s] =
                      IF \A e \in Shown(s) : e.stored THEN "tracked" ELSE "error"]
    /\ UNCHANGED <<jobs, queue, told, shipments>>

(* The process dies, or Redis or PostgreSQL refuses: what was done stays.                  *)
Fail(r) ==
    /\ Busy(r)
    /\ working' = [working EXCEPT ![r] = [NoWork EXCEPT !.stage = "failed"]]
    /\ stirred' = TRUE
    /\ UNCHANGED <<jobs, queue, told, shipments, answers>>

Next ==
    \E r \in Requests :
        \/ CreateJob(r) \/ CreateCommit(r) \/ Enqueue(r) \/ AnnounceJob(r)
        \/ \E j \in Requests, target \in JobStatus : UpdateRead(r, j, target)
        \/ UpdateCommit(r) \/ AnnounceStatus(r)
        \/ \E level \in DOMAIN Base \cup {"other"}, weight \in Weights : CreateLabel(r, level, weight)
        \/ \E s \in Requests : Track(r, s)
        \/ Fail(r)

Spec == Init /\ [][Next]_vars

-----------------------------------------------------------------------------
(* Properties. *)

(* Whoever takes a job from the list finds it in the database: nothing is pushed          *)
(* before it is committed, or twice.  A job that no list holds is on its way there or      *)
(* was left behind by a request that died.                                                  *)
QueueHoldsJobs ==
    /\ \A i \in DOMAIN queue : jobs[queue[i]] # "absent"
    /\ \A i, j \in DOMAIN queue : queue[i] = queue[j] => i = j
    /\ \A r \in Requests : jobs[r] # "absent" =>
           \/ \E i \in DOMAIN queue : queue[i] = r
           \/ working[r].stage \in {"committed", "failed"}

(* Until handlers overlap or die, the last message about a job tells its status once     *)
(* the handler that changed it is done.                                                     *)
NewsFollowJobs ==
    (~stirred /\ ~\E r \in Requests : Busy(r)) => told = jobs

(* Until handlers overlap, a job only moves along VALID_TRANSITIONS: completed and        *)
(* cancelled jobs stay what they are.                                                        *)
JobsMoveForward ==
    [][~stirred => \A j \in Requests :
           jobs'[j] # jobs[j] =>
               \/ jobs[j] = "absent" /\ jobs'[j] = "queued"
               \/ <<jobs[j], jobs'[j]>> \in VALID_TRANSITIONS]_vars

NearShare(s) ==
    s.weight >= 16000 =>
        /\ 16000 * s.cost - Base[s.level] * s.weight <= 8000
        /\ Base[s.level] * s.weight - 16000 * s.cost <= 8000

(* A label whose cost nobody stated costs its level's base at least, is within half a     *)
(* cent of its weight's share, and a heavier parcel is never cheaper.                       *)
RatesFollowWeight ==
    \A r, s \in Requests :
        LET a == shipments[r]
            b == shipments[s] IN
        (a.level # "none" /\ ~a.stated /\ b.level = a.level /\ ~b.stated) =>
            /\ a.cost >= Base[a.level]
            /\ NearShare(a)
            /\ a.weight <= b.weight => a.cost <= b.cost

(* "Carrier integration for rate shopping, label generation, and tracking" (README.md):    *)
(* whoever tracks a shipment gets an answer (get_tracking, track_shipment).                 *)
TrackingIsAnswered == \A s \in Requests : answers[s] # "error"
=============================================================================
