SPECIFICATION Spec
CONSTANTS
    Users = {u1, u2}
    Products = {p1}
    Orders = {o1, o2}
    Requests = {h1, h2}
    Keys = {k1}
    InitStock = 1
    MaxItems = 1
    MaxQtyPerItem = 1
    MaxItemsPerOrder = 1
    MaxRetries = 1
    CartBound = 0
    Calls = {"add", "checkout", "cancel", "paid", "failed"}
    Faults = {"net", "db", "crash"}
    OneOrderPerUser = TRUE
CHECK_DEADLOCK FALSE
SYMMETRY Symmetric
INVARIANTS
    TypeOK
    
    CancelledOnce
PROPERTIES
    ImplementsLifecycle
