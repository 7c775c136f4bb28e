SPECIFICATION FairSpec
CONSTANTS
    Nodes = {n1, n2}
    Usernames = {u1}
    Passwords = {p1}
    Logins = {p1}
    Profiles = {plain}
    Requests = {r1, r2}
    None = None
    Pepper = FALSE
    Ttl = 0
    HashConcurrency = 1
    Budgets <- MCAnswers
    n1 = n1
    n2 = n2
    u1 = u1
    p1 = p1
    plain = plain
    r1 = r1
    r2 = r2
PROPERTY RequestsAnswered
INVARIANT SettledAgree
CHECK_DEADLOCK FALSE
