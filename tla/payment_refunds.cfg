SPECIFICATION Spec
CONSTANTS
    Orders = {o1}
    Payments = {p1, p2}
    Refunds = {r1, r2, r3}
    Requests = {h1}
    Keys = {k1, k2}
    EmptyKey = noKey
    Amount = 3
    MaxVersion = 4
    DevMode = FALSE
    Calls = {"create", "refund", "cancel"}
    Faults = {"net", "gateway"}
CHECK_DEADLOCK FALSE
INVARIANTS
    RefundedIsSum
PROPERTIES
    FollowsTransitions
    PaymentIsDecided
