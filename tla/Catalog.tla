------------------------------- MODULE Catalog -------------------------------
(***************************************************************************)
(* The product service (product_service): products and their variants in    *)
(* MongoDB, prices, bulk tiers, promotions and coupons in PostgreSQL, and    *)
(* the Redis keys products:*, which hold product details and search results. *)
(* Every write ends with a sweep: SCAN finds the keys and each is deleted by  *)
(* a command of its own.  A read that missed fills its key with what it       *)
(* collected in several queries.  Products and promotions are named by the    *)
(* request that made them.                                                    *)
(*                                                                           *)
(* Prices are in cents, percentages are whole, results of a quote are in      *)
(* ten-thousandths of a cent, so that every product is exact as with Decimal.  *)
(***************************************************************************)
EXTENDS Integers, FiniteSetsExt

CONSTANTS
    Slugs,      \* slugs of products
    Skus,       \* SKUs of variants
    Prices,     \* rows of prices: list price, sale and the days between which it is valid
    Tiers,      \* bulk discounts: a minimal quantity and a percentage
    Promotions, \* discounts: kind, value and the days between which they are valid
    Patches,    \* sets of columns that a PATCH of either sets
    Codes,      \* coupon codes, in upper case
    Units,      \* quantities that are quoted
    LastDay,    \* the calendar runs from day 1 to this one
    Requests,   \* HTTP requests; each is issued at most once
    Budget,     \* how many of them are issued at most
    None        \* no request, no SKU, no slug

Price == [msrp : Nat, sale : Nat, from : Nat, to : Nat]
Tier == [min : Nat, percent : 0..100]
Promotion == [kind : {"percent", "fixed"}, value : Nat, from : Nat, to : Nat, active : BOOLEAN]

CatalogAssumption ==
    /\ Budget \in Nat /\ LastDay \in Nat \ {0}
    /\ None \notin Requests \cup Skus \cup Slugs
    /\ Prices \subseteq Price /\ \A row \in Prices : row.msrp > 0
    /\ Tiers \subseteq Tier /\ Patches \subseteq SUBSET STRING
    /\ Promotions \subseteq Promotion /\ \A p \in Promotions : p.value > 0
    /\ Units \subseteq Nat \ {0}

VARIABLES
    products,   \* MongoDB: products[r], the document that request r inserted
    variants,   \* MongoDB: variants[k], the product of the SKU
    pricing,    \* pricing[k]: the sku_pricing row
    tiers,      \* tiers[k]: its bulk_discount_tiers rows
    promotions, \* promotions[r]: the promotions row that request r inserted
    coupons,    \* coupons[c]: the promotion of a code
    details,    \* Redis: details[p], the product detail under products:detail:{p}
    found,      \* Redis: the result under products:search:..., or Miss
    day,        \* the day on the calendar
    asking,     \* asking[r]: how far the handler of request r has come
    quotes,     \* history: the prices that were quoted
    stirred     \* history: handlers have overlapped, or one has died

rows == <<products, variants, pricing, tiers, promotions, coupons>>
redis == <<details, found>>
vars == <<rows, redis, day, asking, quotes, stirred>>

Idle == {"new", "done", "failed"}

NoProduct == [slug |-> None, active |-> FALSE, version |-> None]
NoPrice == [msrp |-> 0, sale |-> 0, from |-> 0, to |-> 0]
NoPromotion == [kind |-> "fixed", value |-> 0, from |-> 0, to |-> 0, active |-> FALSE]

(* A cached document is a set of what it shows; the empty set is a missing key    *)
(* (an empty search result is cached too, and marked by None).                     *)
Miss == {}

(* What a handler keeps: the product, SKU or promotion it works on, the document   *)
(* or row to write, which of its columns, what it has read, and the keys it has yet  *)
(* to delete.                                                                       *)
NoTask == [stage |-> "new", target |-> None, sku |-> None, skus |-> {}, doc |-> NoProduct,
           price |-> NoPrice, tier |-> [min |-> 0, percent |-> 0], promotion |-> NoPromotion,
           columns |-> {},
           shown |-> {}, todo |-> {}, unit |-> 0, units |-> 0]

TypeOK ==
    /\ \A p \in Requests : products[p].slug \in Slugs \cup {None}
    /\ variants \in [Skus -> Requests \cup {None}]
    /\ \A k \in Skus : pricing[k].msrp \in Nat /\ tiers[k] \subseteq Tier
    /\ promotions \in [Requests -> Promotion]
    /\ coupons \in [Codes -> Requests \cup {None}]
    /\ \A r \in Requests : Cardinality(details[r]) <= 1
    /\ \A x \in found : x = None \/ x.product \in Requests
    /\ day \in 1..LastDay /\ stirred \in BOOLEAN
    /\ \A q \in quotes : q.total \in Nat /\ q.subtotal \in Nat

(* The service starts empty.                                                        *)
Empty ==
    /\ products = [p \in Requests |-> NoProduct]
    /\ variants = [k \in Skus |-> None]
    /\ pricing = [k \in Skus |-> NoPrice]
    /\ promotions = [p \in Requests |-> NoPromotion]
    /\ coupons = [c \in Codes |-> None]
    /\ asking = [r \in Requests |-> NoTask]

(* Or with a priced product and a promotion with its codes, made by requests that    *)
(* are over; r stands for all of them.                                                 *)
Stocked(r) ==
    /\ \E slug \in Slugs :
           products = [p \in Requests |->
               IF p = r THEN [slug |-> slug, active |-> TRUE, version |-> r] ELSE NoProduct]
    /\ \E k \in Skus, row \in Prices :
           /\ variants = [j \in Skus |-> IF j = k THEN r ELSE None]
           /\ pricing = [j \in Skus |-> IF j = k THEN row ELSE NoPrice]
    /\ \E promotion \in Promotions :
           promotions = [p \in Requests |-> IF p = r THEN promotion ELSE NoPromotion]
    /\ coupons = [c \in Codes |-> r]
    /\ asking = [q \in Requests |-> IF q = r THEN [NoTask EXCEPT !.stage = "done"] ELSE NoTask]

Init ==
    /\ Empty \/ \E r \in Requests : Stocked(r)
    /\ tiers = [k \in Skus |-> {}]
    /\ details = [p \in Requests |-> Miss] /\ found = Miss
    /\ day = 1 /\ quotes = {} /\ stirred = FALSE

-----------------------------------------------------------------------------
Busy(r) == asking[r].stage \notin Idle

Begin(r, h) ==
    /\ asking[r].stage = "new"
    /\ Cardinality({q \in Requests : asking[q].stage # "new"}) < Budget
    /\ asking' = [asking EXCEPT ![r] = h]
    /\ stirred' = (stirred \/ \E q \in Requests : Busy(q))

Task(stage) == [NoTask EXCEPT !.stage = stage]

Advance(r, h) == asking' = [asking EXCEPT ![r] = h] /\ UNCHANGED stirred

Finish(r, final) == Advance(r, Task(final))

Sweep(r) == Advance(r, Task("sweeping"))

(* A unique index or a primary key refused the write.                               *)
Refuse(r) ==
    /\ asking' = [asking EXCEPT ![r] = Task("failed")]
    /\ stirred' = TRUE

Exists(p) == products[p].slug # None

Taken(slug) == \E p \in Requests : products[p].slug = slug

VariantsOf(p) == {k \in Skus : variants[k] = p}

Priced(k) == pricing[k].msrp > 0

-----------------------------------------------------------------------------
(* cache_delete_pattern("products:"): a scan finds every key that is there from   *)
(* its start to its end, and perhaps some that come meanwhile.                     *)
Keys == {p \in Requests : details[p] # Miss} \cup (IF found = Miss THEN {} ELSE {None})

ScanStart(r) ==
    /\ asking[r].stage = "sweeping"
    /\ Advance(r, [asking[r] EXCEPT !.stage = "scanning", !.todo = Keys])
    /\ UNCHANGED <<rows, redis, day, quotes>>

ScanDelete(r) ==
    /\ asking[r].stage = "scanning"
    /\ \E key \in asking[r].todo \cup Keys :
           /\ details' = [p \in Requests |-> IF p = key THEN Miss ELSE details[p]]
           /\ found' = IF key = None THEN Miss ELSE found
           /\ Advance(r, [asking[r] EXCEPT !.todo = @ \ {key}])
    /\ UNCHANGED <<rows, day, quotes>>

ScanEnd(r) ==
    /\ asking[r].stage = "scanning" /\ asking[r].todo = {}
    /\ Finish(r, "done")
    /\ UNCHANGED <<rows, redis, day, quotes>>

-----------------------------------------------------------------------------
(* create_product: slug and SKUs are looked up, then the document and the          *)
(* variants are inserted, two writes without a transaction.                         *)
CreateCheck(r, slug, skus) ==
    /\ ~Taken(slug) /\ \A k \in skus : variants[k] = None
    /\ Begin(r, [Task("creating") EXCEPT !.skus = skus,
                    !.doc = [slug |-> slug, active |-> TRUE, version |-> r]])
    /\ UNCHANGED <<rows, redis, day, quotes>>

(* A plausible slip: the check before the insert is enough. *)
CreateInsertAnyway(r) ==
    /\ asking[r].stage = "creating"
    /\ products' = [products EXCEPT ![r] = asking[r].doc]
    /\ Advance(r, [asking[r] EXCEPT !.stage = "created"])
    /\ UNCHANGED <<variants, pricing, tiers, promotions, coupons, redis, day, quotes>>

CreateInsert(r) ==
    /\ asking[r].stage = "creating"
    /\ IF Taken(asking[r].doc.slug) THEN Refuse(r) /\ UNCHANGED products
       ELSE /\ products' = [products EXCEPT ![r] = asking[r].doc]
            /\ Advance(r, [asking[r] EXCEPT !.stage = "created"])
    /\ UNCHANGED <<variants, pricing, tiers, promotions, coupons, redis, day, quotes>>

(* insert_many stops at the first SKU that another product has taken, or that the   *)
(* payload names for the second time.                                               *)
CreateVariants(r) ==
    LET free == {k \in asking[r].skus : variants[k] = None} IN
    /\ asking[r].stage = "created"
    /\ \E stored \in SUBSET free :
           /\ variants' = [k \in Skus |-> IF k \in stored THEN r ELSE variants[k]]
           /\ \/ stored = asking[r].skus /\ Sweep(r)
              \/ (stored # {} \/ free # asking[r].skus) /\ Refuse(r)
    /\ UNCHANGED <<products, pricing, tiers, promotions, coupons, redis, day, quotes>>

(* update_product sets the fields that are given, and the variants are read for    *)
(* the answer only.                                                                  *)
UpdateRead(r, p, slug, active) ==
    /\ Exists(p)
    /\ \A q \in Requests : products[q].slug = slug => q = p
    /\ Begin(r, [Task("updating") EXCEPT !.target = p,
                    !.doc = [slug |-> slug, active |-> active, version |-> r]])
    /\ UNCHANGED <<rows, redis, day, quotes>>

UpdateWrite(r) ==
    LET p == asking[r].target
        doc == asking[r].doc IN
    /\ asking[r].stage = "updating"
    /\ IF \E q \in Requests \ {p} : products[q].slug = doc.slug
       THEN Refuse(r) /\ UNCHANGED products
       ELSE products' = [products EXCEPT ![p] = doc] /\ Sweep(r)
    /\ UNCHANGED <<variants, pricing, tiers, promotions, coupons, redis, day, quotes>>

-----------------------------------------------------------------------------
(* get_product and, once it has found the variant, get_product_by_sku.             *)
GetHit(r, p) ==
    /\ details[p] # Miss
    /\ Begin(r, Task("done"))
    /\ UNCHANGED <<rows, redis, day, quotes>>

GetMiss(r, p) ==
    /\ details[p] = Miss
    /\ Begin(r, [Task("get_document") EXCEPT !.target = p])
    /\ UNCHANGED <<rows, redis, day, quotes>>

GetDocument(r) ==
    LET p == asking[r].target IN
    /\ asking[r].stage = "get_document"
    /\ IF Exists(p) THEN Advance(r, [asking[r] EXCEPT !.stage = "get_variants",
                                                      !.doc = products[p]])
                    ELSE Finish(r, "done")
    /\ UNCHANGED <<rows, redis, day, quotes>>

GetVariants(r) ==
    /\ asking[r].stage = "get_variants"
    /\ Advance(r, [asking[r] EXCEPT !.stage = "get_pricing",
                                    !.skus = VariantsOf(asking[r].target)])
    /\ UNCHANGED <<rows, redis, day, quotes>>

PricesOf(skus) == {<<k, pricing[k]>> : k \in {j \in skus : Priced(j)}}

Detail(doc, skus, prices) == [doc |-> doc, skus |-> skus, prices |-> prices]

(* build_product_detail *)
GetPricing(r) ==
    /\ asking[r].stage = "get_pricing"
    /\ Advance(r, [asking[r] EXCEPT !.stage = "get_fill",
                      !.shown = {Detail(asking[r].doc, asking[r].skus,
                                        PricesOf(asking[r].skus))}])
    /\ UNCHANGED <<rows, redis, day, quotes>>

GetFill(r) ==
    /\ asking[r].stage = "get_fill"
    /\ details' = [details EXCEPT ![asking[r].target] = asking[r].shown]
    /\ Finish(r, "done")
    /\ UNCHANGED <<rows, found, day, quotes>>

(* search_products: the active documents in one batch, then the variants of each.   *)
SearchHit(r) ==
    /\ found # Miss
    /\ Begin(r, Task("done"))
    /\ UNCHANGED <<rows, redis, day, quotes>>

SearchMiss(r) ==
    /\ found = Miss
    /\ Begin(r, Task("search"))
    /\ UNCHANGED <<rows, redis, day, quotes>>

Listed == {<<p, products[p]>> : p \in {q \in Requests : products[q].active}}

SearchDocuments(r) ==
    /\ asking[r].stage = "search"
    /\ Advance(r, [asking[r] EXCEPT !.stage = "search_variants", !.todo = Listed,
                                    !.shown = {None}])
    /\ UNCHANGED <<rows, redis, day, quotes>>

Entry(p, doc) == [product |-> p, doc |-> doc, skus |-> VariantsOf(p)]

SearchVariants(r) ==
    /\ asking[r].stage = "search_variants"
    /\ \E x \in asking[r].todo :
           Advance(r, [asking[r] EXCEPT !.todo = @ \ {x}, !.shown = @ \cup {Entry(x[1], x[2])}])
    /\ UNCHANGED <<rows, redis, day, quotes>>

SearchFill(r) ==
    /\ asking[r].stage = "search_variants" /\ asking[r].todo = {}
    /\ found' = asking[r].shown
    /\ Finish(r, "done")
    /\ UNCHANGED <<rows, details, day, quotes>>

(* cache_set gives every key a time to live.                                          *)
Expire ==
    /\ \E key \in Keys :
           /\ details' = [p \in Requests |-> IF p = key THEN Miss ELSE details[p]]
           /\ found' = IF key = None THEN Miss ELSE found
    /\ UNCHANGED <<rows, day, asking, quotes, stirred>>

-----------------------------------------------------------------------------
(* Prices.  create_pricing wants a variant and no price.                               *)
PriceCheck(r, k, row) ==
    /\ variants[k] # None /\ ~Priced(k)
    /\ Begin(r, [Task("pricing") EXCEPT !.sku = k, !.price = row])
    /\ UNCHANGED <<rows, redis, day, quotes>>

PriceCommit(r) ==
    LET k == asking[r].sku IN
    /\ asking[r].stage = "pricing"
    /\ IF Priced(k) THEN Refuse(r) /\ UNCHANGED pricing
       ELSE pricing' = [pricing EXCEPT ![k] = asking[r].price] /\ Sweep(r)
    /\ UNCHANGED <<products, variants, tiers, promotions, coupons, redis, day, quotes>>

(* A PATCH writes the given columns whose values are not those of the row it read.     *)
Dirty(old, new, columns) == {c \in columns \cap DOMAIN old : new[c] # old[c]}

Written(old, new, columns) == [c \in DOMAIN old |-> IF c \in columns THEN new[c] ELSE old[c]]

(* update_pricing; a null list price is refused by its column, which is Fail.          *)
RepriceRead(r, k, row, columns) ==
    /\ Priced(k)
    /\ Begin(r, [Task("repricing") EXCEPT !.sku = k, !.price = row,
                                          !.columns = Dirty(pricing[k], row, columns)])
    /\ UNCHANGED <<rows, redis, day, quotes>>

(* A plausible slip: the keys are left to expire. *)
RepriceCommitUnswept(r) ==
    /\ asking[r].stage = "repricing"
    /\ pricing' = [pricing EXCEPT ![asking[r].sku] =
                      Written(@, asking[r].price, asking[r].columns)]
    /\ Finish(r, "done")
    /\ UNCHANGED <<products, variants, tiers, promotions, coupons, redis, day, quotes>>

RepriceCommit(r) ==
    /\ asking[r].stage = "repricing"
    /\ pricing' = [pricing EXCEPT ![asking[r].sku] =
                      Written(@, asking[r].price, asking[r].columns)]
    /\ Sweep(r)
    /\ UNCHANGED <<products, variants, tiers, promotions, coupons, redis, day, quotes>>

TierRead(r, k, tier) ==
    /\ Priced(k)
    /\ Begin(r, [Task("tiering") EXCEPT !.sku = k, !.tier = tier])
    /\ UNCHANGED <<rows, redis, day, quotes>>

TierCommit(r) ==
    /\ asking[r].stage = "tiering"
    /\ tiers' = [tiers EXCEPT ![asking[r].sku] = @ \cup {asking[r].tier}]
    /\ Sweep(r)
    /\ UNCHANGED <<products, variants, pricing, promotions, coupons, redis, day, quotes>>

(* create_promotion and update_promotion.                                              *)
PromotionCommit(r, promotion) ==
    /\ Begin(r, Task("sweeping"))
    /\ promotions' = [promotions EXCEPT ![r] = promotion]
    /\ UNCHANGED <<products, variants, pricing, tiers, coupons, redis, day, quotes>>

PromotionRead(r, p, row, columns) ==
    /\ promotions[p].value > 0
    /\ Begin(r, [Task("promoting") EXCEPT !.target = p, !.promotion = row,
                                          !.columns = Dirty(promotions[p], row, columns)])
    /\ UNCHANGED <<rows, redis, day, quotes>>

PromotionChange(r) ==
    /\ asking[r].stage = "promoting"
    /\ promotions' = [promotions EXCEPT ![asking[r].target] =
                         Written(@, asking[r].promotion, asking[r].columns)]
    /\ Sweep(r)
    /\ UNCHANGED <<products, variants, pricing, tiers, coupons, redis, day, quotes>>

(* create_coupon does not sweep: no cached document shows a coupon.                     *)
CouponCheck(r, c, p) ==
    /\ promotions[p].value > 0 /\ coupons[c] = None
    /\ Begin(r, [Task("issuing") EXCEPT !.target = p, !.sku = c])
    /\ UNCHANGED <<rows, redis, day, quotes>>

CouponCommit(r) ==
    LET c == asking[r].sku IN
    /\ asking[r].stage = "issuing"
    /\ IF coupons[c] # None THEN Refuse(r) /\ UNCHANGED coupons
       ELSE coupons' = [coupons EXCEPT ![c] = asking[r].target] /\ Finish(r, "done")
    /\ UNCHANGED <<products, variants, pricing, tiers, promotions, redis, day, quotes>>

-----------------------------------------------------------------------------
(* calculate_price: the price, the tier and the coupon are three queries.              *)

(* A sale or a promotion may be open at either end.                                      *)
Within(x, today) == (x.from = 0 \/ today >= x.from) /\ (x.to = 0 \/ today <= x.to)

(* effective_unit_price *)
UnitPrice(price, today) ==
    IF price.sale > 0 /\ Within(price, today) THEN price.sale ELSE price.msrp

(* apply_bulk_discount: the tier with the largest minimum that is reached; of several  *)
(* with that minimum the database returns any.                                           *)
Discounts(k, units) ==
    LET reached == {t \in tiers[k] : t.min <= units} IN
    IF reached = {} THEN {0}
    ELSE {t.percent : t \in {u \in reached : \A v \in reached : v.min <= u.min}}

(* A plausible slip: a fixed discount is not limited to what is to pay. *)
CouponDiscountWhole(promotion, subtotal) ==
    IF promotion.kind = "percent" THEN (subtotal \div 100) * promotion.value
    ELSE promotion.value * 10000

(* validate_coupon, for a code that is valid today.  current_uses is never written,    *)
(* so that max_uses, which is at least one, never refuses a code.                        *)
CouponDiscount(promotion, subtotal) ==
    IF promotion.kind = "percent" THEN (subtotal \div 100) * promotion.value
    ELSE Min({promotion.value * 10000, subtotal})

Valid(c) ==
    /\ c # None /\ coupons[c] # None
    /\ LET promotion == promotions[coupons[c]] IN
       promotion.active /\ Within(promotion, day)

QuotePrice(r, k, units, c) ==
    /\ Priced(k)
    /\ Begin(r, [Task("quoting_tier") EXCEPT !.sku = k, !.units = units, !.target = c,
                    !.unit = UnitPrice(pricing[k], day) * 100])
    /\ UNCHANGED <<rows, redis, day, quotes>>

QuoteTier(r) ==
    LET h == asking[r] IN
    /\ h.stage = "quoting_tier"
    /\ \E percent \in Discounts(h.sku, h.units) :
           Advance(r, [h EXCEPT !.stage = "quoting_coupon",
                                !.unit = (h.unit \div 100) * (100 - percent)])
    /\ UNCHANGED <<rows, redis, day, quotes>>

Total(subtotal, discount) == Max({subtotal - discount, 0})

QuoteCoupon(r) ==
    LET h == asking[r]
        subtotal == h.unit * h.units * 100
        discount == IF Valid(h.target) THEN CouponDiscount(promotions[coupons[h.target]], subtotal)
                    ELSE 0 IN
    /\ h.stage = "quoting_coupon"
    /\ quotes' = quotes \cup
          {[request |-> r, sku |-> h.sku, units |-> h.units, subtotal |-> subtotal,
            kind |-> IF Valid(h.target) THEN promotions[coupons[h.target]].kind ELSE "none",
            discount |-> discount, total |-> Total(subtotal, discount)]}
    /\ Finish(r, "done")
    /\ UNCHANGED <<rows, redis, day>>

(* The calendar; a quote that spans midnight reads two days.                            *)
NewDay ==
    /\ day < LastDay
    /\ day' = day + 1
    /\ UNCHANGED <<rows, redis, asking, quotes, stirred>>

(* The process dies or a store refuses: what was written stays.                          *)
Fail(r) ==
    /\ Busy(r)
    /\ Refuse(r)
    /\ UNCHANGED <<rows, redis, day, quotes>>

StartDocument(r) ==
    \/ \E slug \in Slugs, skus \in (SUBSET Skus) \ {{}} : CreateCheck(r, slug, skus)
    \/ \E p \in Requests, slug \in Slugs, active \in BOOLEAN : UpdateRead(r, p, slug, active)
    \/ \E p \in Requests : Exists(p) /\ (GetHit(r, p) \/ GetMiss(r, p))
    \/ SearchHit(r) \/ SearchMiss(r)

StartPrice(r) ==
    \/ \E k \in Skus :
           \/ \E row \in Prices : PriceCheck(r, k, row)
           \/ \E row \in Prices, columns \in Patches : RepriceRead(r, k, row, columns)
           \/ \E tier \in Tiers : TierRead(r, k, tier)
           \/ \E units \in Units, c \in Codes \cup {None} : QuotePrice(r, k, units, c)
    \/ \E promotion \in Promotions : PromotionCommit(r, promotion)
    \/ \E p \in Requests :
           \/ \E row \in Promotions, active \in BOOLEAN, columns \in Patches :
                  PromotionRead(r, p, [row EXCEPT !.active = active], columns)
           \/ \E c \in Codes : CouponCheck(r, c, p)

Continue(r) ==
    \/ ScanStart(r) \/ ScanDelete(r) \/ ScanEnd(r)
    \/ CreateInsert(r) \/ CreateVariants(r) \/ UpdateWrite(r)
    \/ GetDocument(r) \/ GetVariants(r) \/ GetPricing(r) \/ GetFill(r)
    \/ SearchDocuments(r) \/ SearchVariants(r) \/ SearchFill(r)
    \/ PriceCommit(r) \/ RepriceCommit(r) \/ TierCommit(r)
    \/ PromotionChange(r) \/ CouponCommit(r)
    \/ QuoteTier(r) \/ QuoteCoupon(r)
    \/ Fail(r)

Next ==
    \/ \E r \in Requests : StartDocument(r) \/ StartPrice(r) \/ Continue(r)
    \/ Expire \/ NewDay

Spec == Init /\ [][Next]_vars
-----------------------------------------------------------------------------
(* Properties. *)

(* Unless handlers overlap or die, whatever the cache shows once no write is under way   *)
(* is what the databases hold: every write sweeps every key it may have made stale.         *)
CacheFollowsCatalog ==
    (~stirred /\ ~\E r \in Requests : Busy(r)) =>
        /\ \A p \in Requests : details[p] # Miss =>
               details[p] = {Detail(products[p], VariantsOf(p), PricesOf(VariantsOf(p)))}
        /\ found # Miss => found = {None} \cup {Entry(x[1], x[2]) : x \in Listed}

(* However handlers overlap and die, no variant lacks its product, and a product without  *)
(* variants is being made or was left by a request that failed after its first write.        *)
VariantsHaveProducts ==
    /\ \A k \in Skus : variants[k] # None => Exists(variants[k])
    /\ \A p \in Requests : (Exists(p) /\ VariantsOf(p) = {}) =>
           asking[p].stage \in {"created", "failed"}

(* However creations overlap, a SKU never moves to another product, a code never to         *)
(* another promotion, and two products never share a slug.                                    *)
NamesStick ==
    [][/\ \A k \in Skus : variants[k] # None => variants'[k] = variants[k]
       /\ \A c \in Codes : coupons[c] # None => coupons'[c] = coupons[c]
       /\ \A p, q \in Requests : products'[p].slug = products'[q].slug =>
              p = q \/ products'[p].slug = None]_vars

(* Whatever rows a quote mixes, nobody is paid for buying, nobody pays more than the        *)
(* subtotal, and a fixed discount is never larger than what it is taken from.                 *)
QuotesInRange ==
    \A q \in quotes :
        /\ q.total \in 0..q.subtotal
        /\ q.kind = "none" => q.total = q.subtotal
        /\ q.kind = "fixed" => q.discount + q.total = q.subtotal
=============================================================================
