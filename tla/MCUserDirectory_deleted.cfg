SPECIFICATION Spec
CONSTANTS
    Nodes = {n1}
    Usernames = {u1}
    Passwords = {p1}
    Logins = {p1}
    Profiles = {plain}
    Requests = {r1, r2, r3, r4}
    None = None
    Pepper = FALSE
    Ttl = 1
    HashConcurrency = 1
    Budgets <- MCDeleted
    n1 = n1
    u1 = u1
    p1 = p1
    plain = plain
    r1 = r1
    r2 = r2
    r3 = r3
    r4 = r4
SYMMETRY Symmetry
INVARIANT DeletedRejected
CHECK_DEADLOCK FALSE
