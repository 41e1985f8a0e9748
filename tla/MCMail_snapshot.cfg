\* Sender and recipient are both local accounts that may be deleted.
SPECIFICATION Spec
CONSTANTS
    ann = ann
    bob = bob
    team = team
    far = far
    s1 = s1
    s2 = s2
    req = req
    Mailboxes = {ann, bob}
    Aliases = {}
    Remotes = {}
    Submissions = {s1}
    Requests = {}
    Senders = {ann}
    Patterns = {}
    Wild = Wild
    NoOne = NoOne
    NoJob = NoJob
    MaxIncarnations = 2
    MaxFaults = 0
INVARIANT
    ReusedAddressGetsNoOldMail
