------------------------------- MODULE Seeding -------------------------------
(***************************************************************************)
(* The seed scripts: customer_simulator/seed.py, which the simulator runs when *)
(* it starts and which may be run by hand meanwhile, and scripts/seed_all.py.    *)
(* Each is a sequence of requests, some built from the answers to earlier ones,   *)
(* and may be cut off between any two.  A product has one SKU, and all staff is    *)
(* in one department; accounts and centers are seeded alike.                         *)
(***************************************************************************)
EXTENDS Naturals, FiniteSets

CONSTANTS
    Goods,      \* products of the catalog
    Centers,    \* fulfillment centers
    Staff,      \* employees
    Seeders,    \* runs of a script; each happens once
    None     \* no item

SeedingAssumption == IsFiniteSet(Goods) /\ None \notin Goods \cup Centers \cup Staff

VARIABLES
    products, prices,   \* what the product service has
    centers,            \* what the inventory service has
    stocked,              \* stocked[c][g]: how often DEFAULT_STOCK_QTY was received
    department,         \* the department exists
    staff,              \* staff[e]: "absent", "assigned" or "unassigned" to the department
    seeder,             \* seeder[s]: the stage of a run and what it knows
    cut,                \* history: a run of seed.py ended early
    refused             \* history: seed_all.py was refused a department or its list

vars == <<products, prices, centers, stocked, department, staff, seeder, cut, refused>>

services == <<products, prices, centers, stocked, department, staff>>

(* todo: the items of the current list that are left; item: the product whose price   *)
(* comes next; knows: the department's identity was in an answer.                       *)
Run(stage, todo) == [stage |-> stage, todo |-> todo, item |-> None, knows |-> FALSE]

Stage == {"new", "catalog", "pricing", "centers", "department", "listing", "staff", "stock",
          "done", "cut"}

TypeOK ==
    /\ products \subseteq Goods /\ prices \subseteq Goods /\ centers \subseteq Centers
    /\ stocked \in [Centers -> [Goods -> Nat]] /\ department \in BOOLEAN
    /\ staff \in [Staff -> {"absent", "assigned", "unassigned"}]
    /\ \A s \in Seeders : seeder[s].stage \in Stage

Init ==
    /\ products = {} /\ prices = {} /\ centers = {} /\ department = FALSE
    /\ stocked = [c \in Centers |-> [g \in Goods |-> 0]]
    /\ staff = [e \in Staff |-> "absent"]
    /\ seeder = [s \in Seeders |-> Run("new", {})]
    /\ cut = FALSE /\ refused = FALSE

Set(s, run) == seeder' = [seeder EXCEPT ![s] = run]

Done(s, item) == [seeder[s] EXCEPT !.todo = @ \ {item}]

-----------------------------------------------------------------------------
(* seed.py: products that were listed are skipped with their prices; none is if the list *)
(* is refused, which reads as empty, and all are if it is long enough, with products of    *)
(* any kind.                                                                                *)
SeedCatalog(s) ==
    /\ seeder[s].stage = "new"
    /\ \/ \E listed \in {products, {}} : Set(s, Run("catalog", Goods \ listed))
       \/ Set(s, Run("done", {}))
    /\ UNCHANGED <<services, cut, refused>>

(* Created, or 409 because another run was faster.                                          *)
CreateProduct(s, g) ==
    /\ seeder[s].stage = "catalog" /\ g \in seeder[s].todo
    /\ products' = products \cup {g}
    /\ Set(s, [Done(s, g) EXCEPT !.stage = "pricing", !.item = g])
    /\ UNCHANGED <<prices, centers, stocked, department, staff, cut, refused>>

CreatePricing(s) ==
    /\ seeder[s].stage = "pricing"
    /\ prices' = prices \cup {seeder[s].item}
    /\ Set(s, [seeder[s] EXCEPT !.stage = "catalog", !.item = None])
    /\ UNCHANGED <<products, centers, stocked, department, staff, cut, refused>>

(* A plausible slip: a price that is refused is left for later. *)
CatalogSkips(s) ==
    /\ seeder[s].stage \in {"catalog", "pricing"}
    /\ Set(s, [seeder[s] EXCEPT !.stage = "catalog", !.item = None])
    /\ UNCHANGED <<services, cut, refused>>

(* Any other status is raised, and the script ends; so it does when it is killed.             *)
CatalogCut(s) ==
    /\ seeder[s].stage \in {"catalog", "pricing"}
    /\ Set(s, Run("cut", {}))
    /\ cut' = TRUE
    /\ UNCHANGED <<services, refused>>

CatalogDone(s) ==
    /\ seeder[s].stage = "catalog" /\ seeder[s].todo = {}
    /\ Set(s, Run("done", {}))
    /\ UNCHANGED <<services, cut, refused>>

-----------------------------------------------------------------------------
(* seed_all.py: post_or_skip goes on whatever the answer is. *)
SeedAll(s) ==
    /\ seeder[s].stage = "new"
    /\ Set(s, Run("centers", Centers))
    /\ UNCHANGED <<services, cut, refused>>

SeedCenter(s, c) ==
    /\ seeder[s].stage = "centers" /\ c \in seeder[s].todo
    /\ centers' \in {centers, centers \cup {c}}
    /\ Set(s, Done(s, c))
    /\ UNCHANGED <<products, prices, stocked, department, staff, cut, refused>>

(* seed_departments: the identity is in the answer only if the department is new ...            *)
SeedDepartment(s) ==
    /\ seeder[s].stage = "centers" /\ seeder[s].todo = {}
    /\ \/ /\ department' = TRUE
          /\ Set(s, [Run("listing", {}) EXCEPT !.knows = ~department])
          /\ UNCHANGED refused
       \/ /\ Set(s, Run("listing", {}))
          /\ refused' = (refused \/ ~department)
          /\ UNCHANGED department
    /\ UNCHANGED <<products, prices, centers, stocked, staff, cut>>

(* ... so all of them are listed, unless the list is refused.                                    *)
ListDepartments(s) ==
    /\ seeder[s].stage = "listing"
    /\ \/ /\ Set(s, [seeder[s] EXCEPT !.stage = "staff", !.todo = Staff,
                                      !.knows = @ \/ department])
          /\ UNCHANGED refused
       \/ /\ Set(s, [seeder[s] EXCEPT !.stage = "staff", !.todo = Staff])
          /\ refused' = TRUE
    /\ UNCHANGED <<services, cut>>

(* seed_employees: hired without a department if its identity is not known; 409 if the email     *)
(* is taken.                                                                                        *)
SeedEmployee(s, e) ==
    /\ seeder[s].stage = "staff" /\ e \in seeder[s].todo
    /\ staff' \in {staff} \cup
          (IF staff[e] # "absent" THEN {}
           ELSE {[staff EXCEPT ![e] = IF seeder[s].knows THEN "assigned" ELSE "unassigned"]})
    /\ Set(s, Done(s, e))
    /\ UNCHANGED <<products, prices, centers, stocked, department, cut, refused>>

(* seed_inventory_stock: every SKU that is listed, in every center that is listed.               *)
ListStock(s) ==
    /\ seeder[s].stage = "staff" /\ seeder[s].todo = {}
    /\ Set(s, Run("stock", centers \X products))
    /\ UNCHANGED <<services, cut, refused>>

SeedStock(s, c, g) ==
    /\ seeder[s].stage = "stock" /\ <<c, g>> \in seeder[s].todo
    /\ stocked' \in {stocked, [stocked EXCEPT ![c][g] = @ + 1]}
    /\ Set(s, Done(s, <<c, g>>))
    /\ UNCHANGED <<products, prices, centers, department, staff, cut, refused>>

SeedAllDone(s) ==
    /\ seeder[s].stage = "stock" /\ seeder[s].todo = {}
    /\ Set(s, Run("done", {}))
    /\ UNCHANGED <<services, cut, refused>>

(* An HTTP error or a kill ends the script; it can be run again.                                   *)
SeedAllCut(s) ==
    /\ seeder[s].stage \in {"centers", "listing", "staff", "stock"}
    /\ Set(s, Run("cut", {}))
    /\ UNCHANGED <<services, cut, refused>>

Next == \E s \in Seeders :
    \/ SeedCatalog(s) \/ CreatePricing(s) \/ CatalogCut(s) \/ CatalogDone(s)
    \/ \E g \in Goods : CreateProduct(s, g)
    \/ SeedAll(s) \/ SeedDepartment(s) \/ ListDepartments(s) \/ ListStock(s)
    \/ SeedAllDone(s) \/ SeedAllCut(s)
    \/ \E c \in Centers : SeedCenter(s, c) \/ \E g \in Goods : SeedStock(s, c, g)
    \/ \E e \in Staff : SeedEmployee(s, e)

-----------------------------------------------------------------------------
(* A product has a price, or a run is about to add it, unless a run was cut off: later runs   *)
(* skip the product and never add its price (seed_catalog).                                     *)
ProductsArePriced ==
    cut \/ \A g \in products \ prices : \E s \in Seeders : seeder[s].item = g

(* Employees are assigned to their department although runs are cut off and repeated, and       *)
(* overlap, unless the department or its list was refused (seed_departments).                     *)
StaffIsAssigned == refused \/ \A e \in Staff : staff[e] # "unassigned"
=============================================================================
