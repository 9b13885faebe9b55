SPECIFICATION Spec
CONSTANTS
    None = None
    Sessions = {s1, s2}
    AddressIds = {x1, x2, x3, x4}
    Owners = {u1}
    MaxAddressesPerUser = 2
    Topics = {"audit", "error"}
    Partitions = {x1, x2}
    Consumers = {r1, r2}
    MaxEvents = 3
    Actions = {"user.register", "payment.refunded"}
    MaxCrashes = 1
    Coupons = {c1}
    Shoppers = {u1}
    CouponOrders = {x1, x2}
    UsageLimits = {1, 2}
    Values = {5, 20}
    Caps = {0, 3}
    CartTotals = {10}
    MinPurchase = 5
    StartAt = 1
    EndAt = 2
    LastHour = 3
    Disputes = {x1, x2}
    DisputeOrders = {o1}
    Refunds = {}
    Posters = {"seller"}
    SellerKnown = TRUE
    Verdicts = {"REJECT", "FULL_REFUND"}
    Ips = {x1, x2}
    FraudLastHour = 2
    Samples = {{}, {"OVER_5M"}, {"VELOCITY_FAILED_PAYMENT", "HIGH_ORDER_VELOCITY"}, {"VERY_LARGE_ORDER", "NEW_ACCOUNT", "ORDER"}}
    Members = {m1}
    Rewards = {w1}
    Earnings = {1, 2}
    Costs = {1}
    Stocks = {1}
    GoldMin = 2
    PlatinumMin = 3
    DiamondMin = 4
    MaxLifetime = 4
    Reviews = {k1}
    Voters = {x1, x2}
    Flags = {TRUE}
    VoteBound = 1
    SearchProducts = {p1}
    Texts = {x1, x2}
    Sellers = {u1}
    Contents = {x1, x2}
    Lists = {x1, x2}
    Wishers = {u1}
    WishProducts = {p1}
    Prices = {0, 1, 2}
    MaxPriceNews = 1
SYMMETRY Symmetric
CHECK_DEADLOCK FALSE
INVARIANTS
    CouponSafety
    LoyaltySafety
    AddressSafety
    
    SearchSafety
PROPERTIES
    DisputeSafety
    ReviewSafety
    SellerSafety
    
    FraudSafety
