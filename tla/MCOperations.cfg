SPECIFICATION Spec
CONSTANTS
    Editors = {e1, e2}
    e1 = e1
    e2 = e2
    Domains = {d1}
    d1 = d1
    MaxSecrets = 1
    MaxExpiries = 1
    MaxEdits = 3
    MaxHandEdits = 1
    Passwords = {1, 2}
    MaxPosts = 2
    MaxCleanups = 2
    MaxStops = 3
    MaxWrites = 4
    MaxConfigChanges = 1
    MaxBackups = 2
    MaxJobs = 3
    Loggers = {w1, w2}
    w1 = w1
    w2 = w2
    Backups = 2
    Capacity = 2
    Limit = 2
    MaxEntries = 6
    MaxChains = 1
    Callers = {c1}
    c1 = c1
    Keys = {k1}
    k1 = k1
    Budget = 1
    MaxQueue = 1
    MaxDays = 1
    MaxRequests = 2
    MaxChanges = 1
    Senders = {home, away}
    home = home
    away = away
    Own = {home}
    OutboundMode = "direct"
    Users = {u1}
    u1 = u1
    Local = {near}
    near = near
    Remote = {far}
    far = far
    AuthLimit = 2
    RecipientLimit = 2
    MaxTransactions = 5
    Destinations = {h1, h2, h3}
    h1 = h1
    h2 = h2
    h3 = h3
    Attempts = 2
    Letters = {"a", "b"}
    PatternLetters = {"a"}
    MaxLength = 3
    MaxRules = 2
    Mailboxes <- Boxes
    ForwardTargets <- ForwardedTo
    Ports = {p1, p2}
    p1 = p1
    p2 = p2
    Arrivals = 3
    MaxConnections = 2
    MaxListenFaults = 1
INVARIANTS
    OperationsTypeOK
    EditsAreNotLost
    ServingHasAdmin
    BackupIsOneInstant
    JobsKeepApart
    PagesAreExact
    ClientKeepsToItsKey
    QueuedIsOneTransaction
    AttemptIsSafe
    RoutesFollowTheRules
    SessionsAreAccountedFor
PROPERTIES
    ActivatedOnEvidence
CHECK_DEADLOCK FALSE
