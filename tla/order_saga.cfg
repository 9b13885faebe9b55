SPECIFICATION Spec
CONSTANTS
    Users = {u1, u2}
    Products = {p1, p2}
    Orders = {o1, o2}
    Requests = {h1, h2}
    Keys = {k1}
    InitStock = 1
    MaxItems = 2
    MaxQtyPerItem = 1
    MaxItemsPerOrder = 2
    MaxRetries = 0
    CartBound = 0
    Calls = {"add", "checkout", "cancel", "paid"}
    Faults = {}
    OneOrderPerUser = TRUE
CHECK_DEADLOCK FALSE
SYMMETRY Symmetric
INVARIANTS
    NothingHeldInVain
    PaidIsConfirmed
