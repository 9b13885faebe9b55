SPECIFICATION Spec
CONSTANTS
    Products = {p1}
    Carts = {c1, c2, c3}
    Sessions = {s1, s2}
    MaxStock = 3
    MaxVersion = 2
    Edits = {"update", "delete", "adjust"}
    EditStatuses = {"ACTIVE", "INACTIVE"}
    SingleFlight = TRUE
    EditsAlone = TRUE
    ExpiryJob = FALSE
SYMMETRY Symmetric
INVARIANTS
    ReservedIsSumOfActive
    NoDoubleBooking
PROPERTIES
    SoldIsConfirmed
    ReturnedOnce
    ImplementsLedger
