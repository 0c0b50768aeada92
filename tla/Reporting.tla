------------------------------ MODULE Reporting ------------------------------
(***************************************************************************)
(* The reporting service (reporting_service): a summary is read from Redis,  *)
(* or, when its key is missing, fetched from the service that owns the        *)
(* numbers, put into Redis with an expiry and saved as a snapshot in MongoDB.  *)
(* Both summaries work alike; a number stands for the one that is asked for,   *)
(* and the owner's number only grows.                                          *)
(***************************************************************************)
EXTENDS Naturals

CONSTANTS
    Readers,    \* requests for the summary; each once
    Total       \* how far the number grows

ReportingAssumption == Total \in Nat \ {0}

VARIABLES
    total,      \* the number at its owner, /orders/stats or /products
    report,     \* report:{type} in Redis, 0 when there is no such key
    snapshots,  \* report_snapshots
    reader,     \* reader[r]: the stage of its handler and the number it holds
    overtaken,  \* history: two handlers have fetched at a time
    unsaved         \* history: a handler died before it saved its snapshot

vars == <<total, report, snapshots, reader, overtaken, unsaved>>

TypeOK ==
    /\ {total, report} \subseteq 0..Total /\ snapshots \subseteq 1..Total
    /\ \A r \in Readers :
          /\ reader[r].stage \in {"new", "missed", "fetched", "cached", "done", "failed"}
          /\ reader[r].number \in 0..Total

Init ==
    /\ total = 1 /\ report = 0 /\ snapshots = {}
    /\ reader = [r \in Readers |-> [stage |-> "new", number |-> 0]]
    /\ overtaken = FALSE /\ unsaved = FALSE

Grow == total < Total /\ total' = total + 1 /\ UNCHANGED <<report, snapshots, reader, overtaken, unsaved>>

Expires == report # 0 /\ report' = 0 /\ UNCHANGED <<total, snapshots, reader, overtaken, unsaved>>

Move(r, stage, number) == reader' = [reader EXCEPT ![r] = [stage |-> stage, number |-> number]]

Fetching == {r \in Readers : reader[r].stage \in {"missed", "fetched"}}

Look(r) ==
    /\ reader[r].stage = "new"
    /\ IF report # 0 THEN Move(r, "done", report) /\ UNCHANGED overtaken
       ELSE Move(r, "missed", 0) /\ overtaken' = (overtaken \/ Fetching # {})
    /\ UNCHANGED <<total, report, snapshots, unsaved>>

Fetch(r) ==
    /\ reader[r].stage = "missed"
    /\ Move(r, "fetched", total)
    /\ UNCHANGED <<total, report, snapshots, overtaken, unsaved>>

(* A plausible slip: a summary of the past stands in for one that cannot be had. *)
FetchFailsSoftly(r) ==
    /\ reader[r].stage = "missed"
    /\ IF snapshots = {} THEN Move(r, "failed", 0)
       ELSE \E n \in snapshots : Move(r, "fetched", n)
    /\ UNCHANGED <<total, report, snapshots, overtaken, unsaved>>

(* The owner does not answer: 502, and nothing is stored.                             *)
FetchFails(r) ==
    /\ reader[r].stage = "missed"
    /\ Move(r, "failed", 0)
    /\ UNCHANGED <<total, report, snapshots, overtaken, unsaved>>

Cache(r) ==
    /\ reader[r].stage = "fetched"
    /\ report' = reader[r].number
    /\ Move(r, "cached", reader[r].number)
    /\ UNCHANGED <<total, snapshots, overtaken, unsaved>>

Save(r) ==
    /\ reader[r].stage = "cached"
    /\ snapshots' = snapshots \cup {reader[r].number}
    /\ Move(r, "done", reader[r].number)
    /\ UNCHANGED <<total, report, overtaken, unsaved>>

Die(r) ==
    /\ reader[r].stage \in {"missed", "fetched", "cached"}
    /\ Move(r, "failed", reader[r].number)
    /\ unsaved' = (unsaved \/ reader[r].stage = "cached")
    /\ UNCHANGED <<total, report, snapshots, overtaken>>

Next ==
    \/ Grow \/ Expires
    \/ \E r \in Readers : Look(r) \/ Fetch(r) \/ FetchFails(r) \/ Cache(r) \/ Save(r) \/ Die(r)

-----------------------------------------------------------------------------
(* A summary in Redis never gives way to an older one, unless two handlers missed it at   *)
(* the same time: the slower of them may store what it fetched first (get_sales_summary).   *)
ReportsGoForward ==
    [][(report' # 0 /\ ~overtaken') => \A n \in snapshots : report' >= n]_vars

(* What the dashboards were shown is kept as a snapshot, or a handler is about to save      *)
(* it, unless one died on the way: Redis has it before MongoDB (_save_snapshot).             *)
ShownIsKept ==
    unsaved \/ \A r \in Readers :
        reader[r].stage = "done" =>
            \/ reader[r].number \in snapshots
            \/ \E q \in Readers : /\ reader[q].stage = "cached"
                                  /\ reader[q].number = reader[r].number
=============================================================================
