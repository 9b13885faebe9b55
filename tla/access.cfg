SPECIFICATION Spec
CONSTANTS
    None = None
    Sessions = {s1, s2}
    Users = {u1}
    Passwords = {p1, p2}
    Secrets = {k1, k2}
    Roles = {"buyer", "superadmin"}
    Tokens = {t1, t2, t3}
    ResetTokens = {r1}
    MaxAttempts = 1
    MaxVersion = 3
    ChatUsers = {u1, u2}
    NoClient = None
    Conns = {s1, s2}
    Rooms = {o1}
    Posts = {p1, p2}
    SendBuffer = 1
    HubBuffer = 1
SYMMETRY Symmetric
CHECK_DEADLOCK FALSE
INVARIANTS
    ChatSafety

    
