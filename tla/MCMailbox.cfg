\* Batches of two messages and a tree of folders that is created, renamed, deleted and pruned around them.
SPECIFICATION MailboxSpec
CONSTANTS
    sent = sent
    drafts = drafts
    a = a
    b = b
    i1 = i1
    i2 = i2
    i3 = i3
    i4 = i4
    Ids = {i1, i2}
    MaxUid = 3
    Sizes = {1, 2}
    Atoms = {sent, a, b}
    System <- OneSystem
    Sent <- SentName
    Drafts <- SentName
    MaxDepth = 2
    MaxFolders = 3
    ClientNames <- TreeNames
    Quotas = {3}
    MaxMessages = 4
    IndexBatch = 1
INVARIANTS
    UidNamesOneContent
    DerivedRowsTrue
    RecentOnce
    CatalogHoldsMail
PROPERTY
    GrowsWithinQuota
SYMMETRY AnyId
CHECK_DEADLOCK FALSE
