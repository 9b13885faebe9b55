SPECIFICATION Spec
CONSTANTS
    Users = {u1}
    Products = {p1}
    Orders = {o1, o2}
    Requests = {h1, h2}
    Keys = {k1}
    InitStock = 2
    MaxItems = 1
    MaxQtyPerItem = 2
    MaxItemsPerOrder = 1
    MaxRetries = 0
    CartBound = 1
    Calls = {"add", "edit", "checkout", "cancel", "paid", "time"}
    Faults = {}
    OneOrderPerUser = FALSE
CHECK_DEADLOCK FALSE
PROPERTIES
    CancelledIsReleased
