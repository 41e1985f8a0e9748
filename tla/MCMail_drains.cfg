\* Liveness with two jobs in the queue, submitted perhaps under one identifier.
SPECIFICATION FairSpec
CONSTANTS
    ann = ann
    bob = bob
    team = team
    far = far
    s1 = s1
    s2 = s2
    req = req
    Mailboxes = {ann}
    Aliases = {}
    Remotes = {}
    Submissions = {s1, s2}
    Requests = {req}
    Senders = {}
    Patterns = {}
    Wild = Wild
    NoOne = NoOne
    NoJob = NoJob
    MaxIncarnations = 1
    MaxFaults = 0
INVARIANT
    RequestQueuedOnce
PROPERTY
    QueueDrains
