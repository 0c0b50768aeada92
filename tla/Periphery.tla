------------------------------ MODULE Periphery ------------------------------
(***************************************************************************)
(* The inventory and those who live off it or off the other services without  *)
(* being one of them: the customer simulator, the scripts that fill an empty    *)
(* system, the notification log, the reports, and the terminal with its log      *)
(* view.  They meet only in what the model of each leaves open, so one at a time  *)
(* is enough: a behaviour of this module is a behaviour of one part, picked in     *)
(* the initial state.                                                                *)
(***************************************************************************)
EXTENDS Inventory

CONSTANTS
    None,                                       \* no item, stream or process
    Goods, Purchases, PageSize, FewGoods, People,   \* of CustomerSimulator
    Centers, Staff, Seeders,                    \* of Seeding
    Messages, Restarts,                         \* of Notification
    Readers, Total,                             \* of Reporting
    Workers, Arrivals, Page,                    \* of Dashboard
    Streams                                     \* of LogTail

VARIABLES
    part,
    status, listing, mine, sim, skus, customers, registered, placed, unanswered,
    products, prices, centers, stocked, department, staff, seeder, cut, refused,
    sent, starts, loop, pending, message, logged, excused,
    total, report, snapshots, reader, overtaken, unsaved,
    arrived, worker, counted, rise, truth, newer, muddled,
    selected, stopping, stop, process, alive, thread, hasty

Buyer == INSTANCE CustomerSimulator
Seed == INSTANCE Seeding
Notices == INSTANCE Notification
Reports == INSTANCE Reporting
Board == INSTANCE Dashboard
LogView == INSTANCE LogTail

ASSUME PeripheryAssumption ==
    /\ Buyer!CustomerSimulatorAssumption /\ Seed!SeedingAssumption
    /\ Notices!NotificationAssumption /\ Reports!ReportingAssumption
    /\ Board!DashboardAssumption /\ LogView!LogTailAssumption

buyerVars == <<status, listing, mine, sim, skus, customers, registered, placed, unanswered>>

seedVars == <<products, prices, centers, stocked, department, staff, seeder, cut, refused>>

noticesVars == <<sent, starts, loop, pending, message, logged, excused>>

reportsVars == <<total, report, snapshots, reader, overtaken, unsaved>>

boardVars == <<arrived, worker, counted, rise, truth, newer, muddled>>

logViewVars == <<selected, stopping, stop, process, alive, thread, hasty>>

peripheryVars == <<part, vars, buyerVars, seedVars, noticesVars, reportsVars, boardVars,
                   logViewVars>>

Part == {"inventory", "simulator", "seed", "log", "reports", "board", "tail"}

PeripheryInit ==
    /\ part \in Part
    /\ Init /\ Buyer!Init /\ Seed!Init /\ Notices!Init /\ Reports!Init /\ Board!Init
    /\ LogView!Init

(* The parts that were not picked stay as they began. *)
Others ==
    /\ UNCHANGED part
    /\ part # "inventory" => UNCHANGED vars
    /\ part # "simulator" => UNCHANGED buyerVars
    /\ part # "seed" => UNCHANGED seedVars
    /\ part # "log" => UNCHANGED noticesVars
    /\ part # "reports" => UNCHANGED reportsVars
    /\ part # "board" => UNCHANGED boardVars
    /\ part # "tail" => UNCHANGED logViewVars

PeripheryNext ==
    /\ Others
    /\ \/ part = "inventory" /\ Next
       \/ part = "simulator" /\ Buyer!Next
       \/ part = "seed" /\ Seed!Next
       \/ part = "log" /\ Notices!Next
       \/ part = "reports" /\ Reports!Next
       \/ part = "board" /\ Board!Next
       \/ part = "tail" /\ LogView!Next

PeripherySpec == PeripheryInit /\ [][PeripheryNext]_peripheryVars /\ Buyer!Fairness

-----------------------------------------------------------------------------
(* The customer simulator counts what it did, and nothing but a small catalog ends it     *)
(* (place_order, run_loop).                                                                 *)
BuyerIsSound == Buyer!TypeOK /\ Buyer!CountsWhatItDid /\ Buyer!EndsOfSmallCatalog

(* Confirmed orders are closed or cancelled while the simulator runs (advance_orders).      *)
OrdersAreClosed == Buyer!OrdersAreClosed

(* Seeded products are priced, unless a run was cut off, and seeded employees have their    *)
(* department, unless it was refused (seed_catalog, seed_departments).                        *)
SeedsAreWhole == Seed!TypeOK /\ Seed!ProductsArePriced /\ Seed!StaffIsAssigned

(* The notification log holds the messages in order, and what it lacks is explained          *)
(* (redis_subscriber_loop).                                                                    *)
LogFollowsMessages == Notices!TypeOK /\ Notices!LogFollowsMessages

(* Reports that were shown are kept, and do not go back in time until two handlers overlap   *)
(* (_save_snapshot, get_sales_summary).                                                        *)
ReportsAreSound == [](Reports!TypeOK /\ Reports!ShownIsKept) /\ Reports!ReportsGoForward

(* The order rate of the terminal counts no order twice until it is muddled, and only the    *)
(* selected service's log process runs, unless selections were hasty (_update_rate, stop).     *)
TerminalIsSound ==
    /\ Board!TypeOK /\ Board!NoOrderCountedTwice
    /\ LogView!TypeOK /\ LogView!NoStrayStreams
=============================================================================
