\* A local and a remote recipient are attempted, around one fault.
SPECIFICATION Spec
CONSTANTS
    ann = ann
    bob = bob
    team = team
    far = far
    s1 = s1
    s2 = s2
    req = req
    Mailboxes = {ann}
    Aliases = {}
    Remotes = {far}
    Submissions = {s1}
    Requests = {}
    Senders = {}
    Patterns = {}
    Wild = Wild
    NoOne = NoOne
    NoJob = NoJob
    MaxIncarnations = 1
    MaxFaults = 1
INVARIANTS
    OneCopyPerSubmission
    StatusIsTrue
PROPERTY
    ImplementsContract
