SPECIFICATION Spec
CONSTANTS
    Orders = {o1}
    Payments = {p1, p2}
    Refunds = {r1, r2}
    Requests = {h1, h2}
    Keys = {k1, k2}
    EmptyKey = noKey
    Amount = 2
    MaxVersion = 4
    DevMode = TRUE
    Calls = {"create", "refund"}
    Faults = {}
CHECK_DEADLOCK FALSE
INVARIANTS
    TotalRefundLimit
