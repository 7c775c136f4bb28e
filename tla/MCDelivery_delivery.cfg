CONSTANTS
    Words <- MCWords
    Metadata = {"$sys"}
    Userids = {"u1", "u2"}
    PublishTopics <- MCPublish
    FanoutPrefixes <- MCFanout
    AdminPrefixes <- MCAdmin
    Nodes = {n1, n2}
    Clients = {c1}
    Records <- MCRecords
    Topics <- MCTopics
    Requests <- MCRequests
    Scenarios <- MCScenarios
    Messages = {m1}
    MaxConnects = 2
    None = None
SYMMETRY Symmetry
SPECIFICATION Spec
INVARIANTS
    DeliveredAuthorised
    AutoGranted
    MarkedIsSent
    SubscribedIsRouted
    NoGap
CHECK_DEADLOCK FALSE
