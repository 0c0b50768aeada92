------------------------------ MODULE Dashboard ------------------------------
(***************************************************************************)
(* The snapshots of the company terminal (company_terminal/glc): a worker     *)
(* thread collects them from the gateway and hands them to the user interface,  *)
(* which works out how many orders came in.  A newer worker makes an older one   *)
(* cancelled, which a thread does not notice: it hands over its snapshot too.     *)
(* Only the part of a snapshot that the user interface keeps state about is        *)
(* modelled, the number of orders; the rest is displayed and forgotten.              *)
(***************************************************************************)
EXTENDS Integers, FiniteSetsExt

CONSTANTS
    Workers,    \* worker threads; each collects once
    Arrivals,   \* how many orders are placed
    Page        \* how many orders GET /orders returns at most (100)

DashboardAssumption == {Arrivals, Page} \subseteq Nat

VARIABLES
    arrived,    \* how many orders there are
    worker,     \* worker[w]: its stage, the count in its snapshot, and the orders there were
    counted,    \* _last_order_count
    rise,       \* the orders that the last rate was worked out from
    truth,      \* history: the orders there were when the counted snapshot was collected
    newer,      \* history: the orders that really came between the last two
    muddled     \* history: a snapshot had no orders in it, or came out of order

vars == <<arrived, worker, counted, rise, truth, newer, muddled>>

TypeOK ==
    /\ {arrived, truth} \subseteq 0..Arrivals /\ {counted, rise} \subseteq 0..Page
    /\ \A w \in Workers : /\ worker[w].stage \in {"new", "pinging", "fetching", "posting", "done"}
                          /\ worker[w].count \in 0..Page

Init ==
    /\ arrived = 0 /\ counted = 0 /\ rise = 0 /\ truth = 0 /\ newer = 0 /\ muddled = FALSE
    /\ worker = [w \in Workers |-> [stage |-> "new", count |-> 0, at |-> 0, answered |-> FALSE]]

Arrive ==
    /\ arrived < Arrivals /\ arrived' = arrived + 1
    /\ UNCHANGED <<worker, counted, rise, truth, newer, muddled>>

(* refresh_data: by the timer, by a key, or when the terminal starts.                *)
Refresh(w) ==
    /\ worker[w].stage = "new"
    /\ worker' = [worker EXCEPT ![w].stage = "pinging"]
    /\ UNCHANGED <<arrived, counted, rise, truth, newer, muddled>>

(* collect: nothing more is asked of a gateway that does not answer its health check.  *)
Ping(w) ==
    /\ worker[w].stage = "pinging"
    /\ \E stage \in {"fetching", "posting"} : worker' = [worker EXCEPT ![w].stage = stage]
    /\ UNCHANGED <<arrived, counted, rise, truth, newer, muddled>>

(* _fetch_gateway_data: the orders are counted by the length of the list, which has       *)
(* one page; without an answer the count stays 0.                                           *)
Fetch(w) ==
    /\ worker[w].stage = "fetching"
    /\ \E ok \in BOOLEAN :
           worker' = [worker EXCEPT ![w] = [stage |-> "posting", at |-> arrived, answered |-> ok,
                                            count |-> IF ok THEN Min({arrived, Page}) ELSE 0]]
    /\ UNCHANGED <<arrived, counted, rise, truth, newer, muddled>>

Rise(count) == Max({count - counted, 0})

(* _after_refresh and _update_rate: at least a second after the last count, the rise is     *)
(* worked out, never below zero, and the count is kept.                                       *)
Post(w) ==
    /\ worker[w].stage = "posting"
    /\ worker' = [worker EXCEPT ![w].stage = "done"]
    /\ \/ /\ rise' = Rise(worker[w].count)
          /\ counted' = worker[w].count
          /\ newer' = worker[w].at - truth /\ truth' = worker[w].at
          /\ muddled' = (muddled \/ ~worker[w].answered \/ worker[w].at < truth)
       \/ UNCHANGED <<counted, rise, newer, truth, muddled>>
    /\ UNCHANGED arrived

Next == Arrive \/ \E w \in Workers : Refresh(w) \/ Ping(w) \/ Fetch(w) \/ Post(w)

-----------------------------------------------------------------------------
(* The rate is worked out from no more orders than came in, until a snapshot lacks its      *)
(* orders (the next one counts them all again) or two come out of order (_update_rate).      *)
NoOrderCountedTwice == muddled \/ rise <= newer
=============================================================================
