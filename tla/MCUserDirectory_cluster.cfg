SPECIFICATION Spec
CONSTANTS
    Nodes = {n1, n2}
    Usernames = {u1}
    Passwords = {p1, p2}
    Logins = {p1, p2}
    Profiles = {plain}
    Requests = {r1, r2, r3}
    None = None
    Pepper = FALSE
    Ttl = 1
    HashConcurrency = 1
    Budgets <- MCCluster
    n1 = n1
    n2 = n2
    u1 = u1
    p1 = p1
    p2 = p2
    plain = plain
    r1 = r1
    r2 = r2
    r3 = r3
SYMMETRY Symmetry
INVARIANT SettledAgree
INVARIANT CredentialsCoherent
CHECK_DEADLOCK FALSE
