----------------------------- MODULE FrontOffice -----------------------------
(***************************************************************************)
(* What customers and the warehouse see: the website's cart and checkout,    *)
(* the catalog with its prices, fulfillment and shipping.  The website       *)
(* reaches the others through the gateway only, and its model lets them       *)
(* answer anything, so one of them at a time is enough: a behaviour of this   *)
(* module is a behaviour of one part, picked in the initial state.            *)
(***************************************************************************)
EXTENDS Storefront

CONSTANTS
    Budget,     \* how many requests the product, fulfillment and shipping services get
    Slugs, Prices, Tiers, Promotions, Patches, Codes, Units, LastDay,
    Weights, Stated

VARIABLES
    part,
    products, variants, pricing, tiers, promotions, coupons, details, found, day, asking,
    quotes,
    jobs, queue, told, shipments, answers, working,
    stirred

catalogVars == <<products, variants, pricing, tiers, promotions, coupons, details, found, day,
                 asking, quotes>>
dispatchVars == <<jobs, queue, told, shipments, answers, working>>

Catalog == INSTANCE Catalog
Dispatch == INSTANCE Dispatch

ASSUME FrontOfficeAssumption == Catalog!CatalogAssumption /\ Dispatch!DispatchAssumption

FrontOfficeInit ==
    /\ part \in {"storefront", "catalog", "dispatch"}
    /\ Init /\ Catalog!Init /\ Dispatch!Init
    /\ part # "catalog" => Catalog!Empty

FrontOfficeNext ==
    /\ UNCHANGED part
    /\ \/ /\ part = "storefront" /\ Next
          /\ UNCHANGED <<catalogVars, dispatchVars, stirred>>
       \/ /\ part = "catalog" /\ Catalog!Next
          /\ UNCHANGED <<vars, dispatchVars>>
       \/ /\ part = "dispatch" /\ Dispatch!Next
          /\ UNCHANGED <<vars, catalogVars>>

frontOfficeVars == <<part, vars, catalogVars, dispatchVars, stirred>>

FrontOfficeSpec == FrontOfficeInit /\ [][FrontOfficeNext]_frontOfficeVars

-----------------------------------------------------------------------------
(* Carts and orders are well formed, and no cart has two lines of one SKU (cart_add,       *)
(* checkout_submit).                                                                         *)
CartsAreSound == TypeOK /\ OneLinePerSku /\ OrdersAreSound

(* Cached products and searches are what the databases hold, until disturbed                 *)
(* (cache_delete_pattern).                                                                     *)
CacheFollowsCatalog == Catalog!CacheFollowsCatalog

(* No variant lacks its product, no product its variants unless one failed, and no quote is   *)
(* negative or above its subtotal (create_product, calculate_price).                           *)
CatalogIsSound == Catalog!TypeOK /\ Catalog!VariantsHaveProducts /\ Catalog!QuotesInRange

(* SKUs, coupon codes and slugs keep their owners (ensure_mongo_indexes), and until handlers   *)
(* overlap a job only moves along VALID_TRANSITIONS (update_job_status).                         *)
NothingMovesBack == Catalog!NamesStick /\ Dispatch!JobsMoveForward

(* Jobs, their queue and their messages agree up to requests that died or overlap, and rates   *)
(* follow the weight (create_fulfillment_job, update_job_status, calculate_rates).               *)
DispatchIsSound ==
    /\ Dispatch!TypeOK /\ Dispatch!QueueHoldsJobs /\ Dispatch!NewsFollowJobs
    /\ Dispatch!RatesFollowWeight
=============================================================================
