SPECIFICATION Spec
CONSTANTS
    Nodes = {n1}
    Usernames = {u1}
    Passwords = {p1, p2}
    Logins = {p1, p2}
    Profiles = {plain}
    Requests = {r1, r2, r3, r4}
    None = None
    Pepper = TRUE
    Ttl = 1
    HashConcurrency = 1
    Budgets <- MCLogin
    n1 = n1
    u1 = u1
    p1 = p1
    p2 = p2
    plain = plain
    r1 = r1
    r2 = r2
    r3 = r3
    r4 = r4
SYMMETRY Symmetry
INVARIANT TypeOK
INVARIANT CredentialsCoherent
INVARIANT AcceptedMatches
CHECK_DEADLOCK FALSE
