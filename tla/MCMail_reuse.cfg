\* An address and a rule to it are deleted and registered again around a late call.
SPECIFICATION Spec
CONSTANTS
    ann = ann
    bob = bob
    team = team
    far = far
    s1 = s1
    s2 = s2
    req = req
    Mailboxes = {ann}
    Aliases = {team}
    Remotes = {}
    Submissions = {s1}
    Requests = {}
    Senders = {ann}
    Patterns = {team}
    Wild = Wild
    NoOne = NoOne
    NoJob = NoJob
    MaxIncarnations = 2
    MaxFaults = 1
INVARIANTS
    TargetsAreOwned
    UnsharedMailStaysWithItsOwner
PROPERTY
    CleanupSparesNewOwner
