SPECIFICATION PartSpec
CONSTANTS
    Withdrawals = {w1, w2}
    Requests = {h1, h2, h3}
    Amounts = {1, 2, 3, 4}
    MinAmount = 2
    AutoApproveMax = 3
    Faults = {"net", "db", "crash"}
    Calls = {w1, w2}
    GlobalRate = 1000
    GlobalBurst = 2
    PublicRate = 500
    PublicBurst = 1
    Ttl = 3
    MaxDelay = 1
    Horizon = 3
CHECK_DEADLOCK FALSE
SYMMETRY Symmetric
INVARIANTS
    WithdrawalSafety
    LimiterSafety
PROPERTIES
    DecidedOnce
