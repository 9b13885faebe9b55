SPECIFICATION Spec
CONSTANTS
    Orders = {o1}
    Payments = {p1}
    Refunds = {r1, r2}
    Requests = {h1, h2}
    Keys = {k1, noKey}
    EmptyKey = noKey
    Amount = 2
    MaxVersion = 4
    DevMode = FALSE
    Calls = {"create", "webhook", "refund"}
    Faults = {"net", "db", "gateway", "crash"}
CHECK_DEADLOCK FALSE
SYMMETRY Symmetric
INVARIANTS
    TypeOK
    RefundsRecorded
PROPERTIES
    RefundsAccumulate
    RefundsTakePaid
