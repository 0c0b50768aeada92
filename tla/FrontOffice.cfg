SPECIFICATION FrontOfficeSpec
CONSTANTS
    Skus = {k1, k2}
    Quantities <- MCQuantities
    Requests = {r1, r2, r3, r4}
    None = None
    Budget = 3
    Slugs = {g1}
    Prices <- MCPrices
    Tiers <- MCTiers
    Promotions <- MCPromotions
    Patches <- MCPatches
    Codes = {c1}
    Units = {1, 2}
    LastDay = 2
    Weights = {16000, 24004}
    Stated <- MCStated
SYMMETRY Symmetric
INVARIANTS CartsAreSound CartIsWhatWasWanted OrderedOnce CacheFollowsCatalog CatalogIsSound DispatchIsSound
PROPERTIES NothingMovesBack
CHECK_DEADLOCK FALSE
