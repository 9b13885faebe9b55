SPECIFICATION Spec
CONSTANTS
    Users = {u1, u2, u3}
    Items = {i1}
    Requests = {h1, h2, h3}
    QueueMaxSize = 2
    MaxQuota = 2
    QueueBound = 2
    OneCallPerUser = TRUE
    ExpiryRaces = FALSE
    Faults = {"redis", "db", "crash"}
SYMMETRY Symmetric
INVARIANTS
    SaleSafety
    SoldIsBought
    

    
