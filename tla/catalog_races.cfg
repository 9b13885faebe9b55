SPECIFICATION Spec
CONSTANTS
    Products = {p1}
    Carts = {c1, c2}
    Sessions = {s1, s2}
    MaxStock = 2
    MaxVersion = 1
    Edits = {"update", "delete", "adjust"}
    EditStatuses = {"ACTIVE", "INACTIVE"}
    SingleFlight = FALSE
    EditsAlone = FALSE
    ExpiryJob = TRUE
SYMMETRY Symmetric
INVARIANTS
    TypeOK
PROPERTIES
    FinishedStaysFinished
